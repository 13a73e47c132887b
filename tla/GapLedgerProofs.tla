--------------------------- MODULE GapLedgerProofs ---------------------------
(***************************************************************************)
(* Proofs about GapLedger for every set of sessions and of evidence, every   *)
(* number of resumes and kills, and processes that share the file without a  *)
(* lock.                                                                   *)
(*                                                                         *)
(* A process may lose the rows of another, but it writes only sequences of   *)
(* rows that are sound by themselves: read whole, extended or edited, and    *)
(* backed by boards that only grow.                                        *)
(***************************************************************************)
EXTENDS GapLedger, FiniteSetTheorems, TLAPS

\* Where a write of the file is made from.
Returns == {"idle", "seed", "work", "resolve", "verified"}

Typed ==
  /\ rows \in Seq(Row) /\ tmp \in Seq(Seq(Row))
  /\ board \in [Sessions -> Seq(GapTask)] /\ gaps \in [Sessions -> SUBSET Keys]
  /\ begun \subseteq Sessions
  /\ pc \in [Sessions -> PC] /\ after \in [Sessions -> Returns]
  /\ mem \in [Sessions -> Seq(Row)] /\ todo \in [Sessions -> SUBSET Nat]

\* One occurrence of a gap has one row.
Unique(q) ==
  \A i, j \in DOMAIN q : q[i].key = q[j].key /\ q[i].source = q[j].source => i = j

\* Every claim is backed by a task of boards b, and no task by two claims.
Backed(b, q) ==
  /\ \A i \in DOMAIN q : q[i].by # None =>
       /\ q[i].task \in DOMAIN b[q[i].by]
       /\ b[q[i].by][q[i].task].key = q[i].key
       /\ b[q[i].by][q[i].task].source = q[i].source
  /\ \A i, j \in DOMAIN q : q[i].by # None /\ q[i].by = q[j].by /\ q[i].task = q[j].task => i = j

Sound(b, q) == q \in Seq(Row) /\ Unique(q) /\ Backed(b, q)

RowsInv ==
  /\ Sound(board, rows)
  /\ \A i \in DOMAIN tmp : Sound(board, tmp[i])
  /\ \A s \in Sessions : Sound(board, mem[s])

LedgerInv == Typed /\ RowsInv

ProfileOf(k) == Profile[Capability[k]]

\* What s is about to plant, beside what it has planted: s plants only while it has
\* no task, and what it planted before it was killed is not planted again.
Planting(s) ==
  /\ todo[s] \subseteq DOMAIN mem[s] /\ IsFiniteSet(todo[s])
  /\ Len(board[s]) + Cardinality(todo[s]) <= MaxGapSeeds
  /\ \A i, j \in todo[s] : ProfileOf(mem[s][i].key) = ProfileOf(mem[s][j].key) => i = j
  /\ \A i \in todo[s] : \A t \in DOMAIN board[s] :
       ProfileOf(board[s][t].key) # ProfileOf(mem[s][i].key)

SeedInv(s) ==
  /\ s \notin begun => board[s] = <<>> /\ pc[s] = "idle"
  /\ pc[s] \in {"record", "seed"} \/ (pc[s] \in {"write", "replace"} /\ after[s] = "seed") => board[s] = <<>>
  /\ pc[s] = "plant" => Planting(s)
  /\ Len(board[s]) <= MaxGapSeeds
  /\ \A t, u \in DOMAIN board[s] : ProfileOf(board[s][t].key) = ProfileOf(board[s][u].key) => t = u

PlantInv == \A s \in Sessions : SeedInv(s)

-----------------------------------------------------------------------------
(* Row sequences.                                                          *)

\* A row has the fields of its type.
LEMMA RowFields ==
  ASSUME NEW r \in Row
  PROVE  /\ r.key \in Keys /\ r.source \in Sessions /\ r.status \in {"OPEN", "CONSUMED", "CLOSED"}
         /\ r.by \in Sessions \cup {None} /\ r.task \in Nat
BY DEF Row

LEMMA EmptySound == \A b : Sound(b, <<>>)
BY DEF Sound, Unique, Backed

\* Boards that grow back what they backed.
LEMMA StillSound ==
  ASSUME NEW b, NEW c, NEW q, Sound(b, q),
         \A s \in Sessions : \A t \in DOMAIN b[s] :
           t \in DOMAIN c[s] /\ c[s][t].key = b[s][t].key /\ c[s][t].source = b[s][t].source
  PROVE  Sound(c, q)
<1>1. ASSUME NEW i \in DOMAIN q, q[i].by # None
      PROVE  /\ q[i].task \in DOMAIN c[q[i].by]
             /\ c[q[i].by][q[i].task].key = q[i].key /\ c[q[i].by][q[i].task].source = q[i].source
  <2>1. q[i].by \in Sessions
    BY <1>1, RowFields DEF Sound
  <2> QED
    BY <1>1, <2>1 DEF Sound, Backed
<1> QED
  BY <1>1 DEF Sound, Backed

\* A new row for each gap without one.
LEMMA AppendedSound ==
  ASSUME Typed, Sound(board, rows), NEW s \in Sessions, NEW q \in Orders(gaps[s] \ Known(s))
  PROVE  /\ Sound(board, rows \o [i \in DOMAIN q |-> NewRow(q[i], s)])
         /\ \A i \in DOMAIN rows : /\ i \in DOMAIN (rows \o [j \in DOMAIN q |-> NewRow(q[j], s)])
                                   /\ (rows \o [j \in DOMAIN q |-> NewRow(q[j], s)])[i] = rows[i]
<1> DEFINE S == gaps[s] \ Known(s)
           n == Cardinality(S)
           new == [i \in DOMAIN q |-> NewRow(q[i], s)]
           all == rows \o new
<1>1. IsFiniteSet(S) /\ n \in Nat
  <2>1. S \subseteq Keys
    BY DEF Typed
  <2>2. IsFiniteSet(S)
    BY <2>1, GapAssumption, FS_Subset
  <2> QED
    BY <2>2, FS_CardinalityType
<1>2. q \in [1 .. n -> S] /\ \A i, j \in 1 .. n : i # j => q[i] # q[j]
  BY DEF Orders
<1>3. \A i \in 1 .. n : /\ new[i] = NewRow(q[i], s) /\ q[i] \in Keys /\ q[i] \notin Known(s)
                        /\ new[i] \in Row /\ new[i].key = q[i] /\ new[i].source = s /\ new[i].by = None
  <2>1. ASSUME NEW i \in 1 .. n
        PROVE  /\ new[i] = NewRow(q[i], s) /\ q[i] \in Keys /\ q[i] \notin Known(s)
    <3>1. DOMAIN q = 1 .. n /\ q[i] \in S
      BY <1>2
    <3> HIDE DEF S, n
    <3>2. new[i] = NewRow(q[i], s)
      BY <3>1
    <3>3. gaps[s] \subseteq Keys
      BY DEF Typed
    <3> QED
      BY <3>1, <3>2, <3>3 DEF S
  <2>2. ASSUME NEW k \in Keys
        PROVE  LET r == NewRow(k, s) IN r \in Row /\ r.key = k /\ r.source = s /\ r.by = None
    BY DEF NewRow, Row
  <2> HIDE DEF new
  <2> QED
    BY <2>1, <2>2
<1>4. new \in Seq(Row) /\ Len(new) = n /\ DOMAIN new = 1 .. n
  <2>1. DOMAIN new = 1 .. n /\ new = [i \in 1 .. n |-> new[i]]
    <3>1. DOMAIN q = 1 .. n
      BY <1>2
    <3> HIDE DEF S, n
    <3> QED
      BY <3>1
  <2> HIDE DEF new
  <2>2. new \in [1 .. n -> Row]
    BY <1>3, <2>1
  <2>3. n \in Nat
    BY <1>1
  <2> HIDE DEF S, n
  <2> QED
    BY <2>1, <2>2, <2>3
<1> HIDE DEF new, S, n
<1>5. /\ all \in Seq(Row) /\ DOMAIN rows = 1 .. Len(rows) /\ Len(rows) \in Nat
      /\ DOMAIN all = 1 .. Len(rows) + n
      /\ \A i \in 1 .. Len(rows) + n :
           all[i] = IF i <= Len(rows) THEN rows[i] ELSE new[i - Len(rows)]
  <2>1. rows \in Seq(Row) /\ Len(rows) \in Nat /\ DOMAIN rows = 1 .. Len(rows)
    BY DEF Typed
  <2>2. all \in Seq(Row) /\ Len(all) = Len(rows) + n
    BY <1>4, <2>1
  <2>3. \A i \in 1 .. Len(rows) + n :
           all[i] = IF i <= Len(rows) THEN rows[i] ELSE new[i - Len(rows)]
    BY <1>4, <2>1
  <2> HIDE DEF all
  <2>4. DOMAIN all = 1 .. Len(rows) + n
    BY <2>2
  <2> QED
    BY <2>1, <2>2, <2>3, <2>4
<1> HIDE DEF all
<1>6. ASSUME NEW i \in DOMAIN all
      PROVE  \/ i \in DOMAIN rows /\ all[i] = rows[i]
             \/ i - Len(rows) \in 1 .. n /\ all[i] = new[i - Len(rows)]
  BY <1>1, <1>5
<1>7. ASSUME NEW i \in DOMAIN all, NEW j \in DOMAIN all, all[i].key = all[j].key, all[i].source = all[j].source
      PROVE  i = j
  <2>1. CASE i \in DOMAIN rows /\ all[i] = rows[i] /\ j \in DOMAIN rows /\ all[j] = rows[j]
    BY <1>7, <2>1 DEF Sound, Unique
  <2>2. CASE i \in DOMAIN rows /\ all[i] = rows[i] /\ j - Len(rows) \in 1 .. n /\ all[j] = new[j - Len(rows)]
    BY <1>3, <1>7, <2>2 DEF Known
  <2>3. CASE j \in DOMAIN rows /\ all[j] = rows[j] /\ i - Len(rows) \in 1 .. n /\ all[i] = new[i - Len(rows)]
    BY <1>3, <1>7, <2>3 DEF Known
  <2>4. CASE /\ i - Len(rows) \in 1 .. n /\ all[i] = new[i - Len(rows)]
             /\ j - Len(rows) \in 1 .. n /\ all[j] = new[j - Len(rows)]
    <3>1. q[i - Len(rows)] = q[j - Len(rows)]
      BY <1>3, <1>7, <2>4
    <3>2. i - Len(rows) = j - Len(rows)
      BY <1>2, <2>4, <3>1
    <3> QED
      BY <1>5, <3>2
  <2> QED
    BY <1>6, <2>1, <2>2, <2>3, <2>4
<1>8. Backed(board, all)
  <2>1. ASSUME NEW i \in DOMAIN all, all[i].by # None
        PROVE  i \in DOMAIN rows /\ all[i] = rows[i]
    BY <1>3, <1>6, <2>1
  <2> QED
    BY <2>1 DEF Sound, Backed
<1>9. \A i \in DOMAIN rows : i \in DOMAIN all /\ all[i] = rows[i]
  BY <1>1, <1>5
<1> QED
  BY <1>5, <1>7, <1>8, <1>9 DEF Sound, Unique, all, new

\* Resolving changes nothing but the status.
LEMMA ResolvedFields ==
  ASSUME NEW s \in Sessions, NEW r \in Row
  PROVE  /\ Resolved(s, r) \in Row
         /\ Resolved(s, r).key = r.key /\ Resolved(s, r).source = r.source
         /\ Resolved(s, r).by = r.by /\ Resolved(s, r).task = r.task
         /\ r.by # s => Resolved(s, r) = r
         /\ r.by = s => Resolved(s, r).status = (IF StillOpen(s, r) THEN "OPEN" ELSE "CLOSED")
<1>1. CASE r.by # s
  BY <1>1 DEF Resolved
<1>2. CASE r.by = s
  <2> DEFINE new == IF StillOpen(s, r) THEN "OPEN" ELSE "CLOSED"
  <2>1. new \in {"OPEN", "CLOSED"}
    OBVIOUS
  <2>2. Resolved(s, r) = [r EXCEPT !.status = new]
    BY <1>2 DEF Resolved
  <2> HIDE DEF new
  <2>3. Resolved(s, r).status = new
    BY <2>2 DEF Row
  <2> QED
    BY <1>2, <2>1, <2>2, <2>3 DEF Row, new
<1> QED
  BY <1>1, <1>2

LEMMA ResolvedSound ==
  ASSUME Typed, Sound(board, rows), NEW s \in Sessions
  PROVE  Sound(board, [i \in DOMAIN rows |-> Resolved(s, rows[i])])
<1> DEFINE q == [i \in DOMAIN rows |-> Resolved(s, rows[i])]
<1>1. DOMAIN rows = 1 .. Len(rows) /\ Len(rows) \in Nat /\ \A i \in DOMAIN rows : rows[i] \in Row
  BY DEF Typed
<1>2. DOMAIN q = DOMAIN rows
      /\ \A i \in DOMAIN rows : /\ q[i] \in Row /\ q[i].key = rows[i].key /\ q[i].source = rows[i].source
                                /\ q[i].by = rows[i].by /\ q[i].task = rows[i].task
  BY <1>1, ResolvedFields
<1>3. q \in Seq(Row)
  <2>1. q \in [1 .. Len(rows) -> Row]
    BY <1>1, <1>2
  <2> QED
    BY <1>1, <2>1
<1> HIDE DEF q
<1>4. Unique(q) /\ Backed(board, q)
  BY <1>2 DEF Sound, Unique, Backed
<1> QED
  BY <1>3, <1>4 DEF Sound, q

-----------------------------------------------------------------------------
(* The steps.                                                              *)

Grown(b, c) ==
  \A s \in Sessions : \A t \in DOMAIN b[s] :
    t \in DOMAIN c[s] /\ c[s][t].key = b[s][t].key /\ c[s][t].source = b[s][t].source

\* A process takes rows into its memory.
LEMMA MemSound ==
  ASSUME LedgerInv, NEW s \in Sessions, NEW q, Sound(board, q),
         mem' = [mem EXCEPT ![s] = q], UNCHANGED <<rows, tmp, board>>
  PROVE  RowsInv' /\ mem' \in [Sessions -> Seq(Row)]
<1>1. mem \in [Sessions -> Seq(Row)] /\ q \in Seq(Row)
  BY DEF LedgerInv, Typed, Sound
<1>2. \A t \in Sessions : Sound(board, mem'[t])
  BY <1>1 DEF LedgerInv, RowsInv
<1>3. \A r : Sound(board, r) = Sound(board', r)
  OBVIOUS
<1> QED
  BY <1>1, <1>2, <1>3 DEF LedgerInv, RowsInv

LEMMA SameSound ==
  ASSUME LedgerInv, UNCHANGED <<rows, tmp, board, mem>>
  PROVE  RowsInv' /\ mem' \in [Sessions -> Seq(Row)]
BY DEF LedgerInv, RowsInv, Typed

\* The end of a process.
LEMMA EndSound ==
  ASSUME LedgerInv, NEW s \in Sessions, End(s), UNCHANGED <<rows, tmp, board, gaps>>, begun' \subseteq Sessions
  PROVE  LedgerInv'
<1>1. mem' = [mem EXCEPT ![s] = <<>>]
  BY DEF End
<1>2. RowsInv' /\ mem' \in [Sessions -> Seq(Row)]
  BY <1>1, EmptySound, MemSound
<1>3. Typed'
  BY <1>2 DEF End, Goto, LedgerInv, Typed, PC, Returns
<1> QED
  BY <1>2, <1>3 DEF LedgerInv

\* Rows that are to be written.
LEMMA WriteThenSound ==
  ASSUME LedgerInv, NEW s \in Sessions, NEW new, Sound(board, new), NEW next \in Returns, WriteThen(s, new, next),
         UNCHANGED <<files, todo>>
  PROVE  LedgerInv'
<1>1. UNCHANGED <<rows, tmp, board, gaps, begun>>
  BY DEF files
<1>2. CASE new # rows
  <2>1. mem' = [mem EXCEPT ![s] = new] /\ after' = [after EXCEPT ![s] = next] /\ pc' = [pc EXCEPT ![s] = "write"]
    BY <1>2 DEF WriteThen, Goto
  <2>2. RowsInv' /\ mem' \in [Sessions -> Seq(Row)]
    BY <1>1, <2>1, MemSound
  <2> QED
    BY <1>1, <2>1, <2>2 DEF LedgerInv, Typed, PC, Returns
<1>3. CASE new = rows
  <2>1. UNCHANGED <<mem, after>> /\ pc' = [pc EXCEPT ![s] = next]
    BY <1>3 DEF WriteThen, Goto
  <2>2. RowsInv' /\ mem' \in [Sessions -> Seq(Row)]
    BY <1>1, <2>1, SameSound
  <2> QED
    BY <1>1, <2>1, <2>2 DEF LedgerInv, Typed, PC, Returns
<1> QED
  BY <1>2, <1>3

\* The steps that touch neither rows nor boards.
LEMMA StartSound ==
  ASSUME LedgerInv, NEW s \in Sessions, Begin(s) \/ Resume(s) \/ FollowUp(s)
  PROVE  LedgerInv'
<1>1. /\ UNCHANGED <<rows, tmp, board, gaps, mem, after, todo>> /\ begun' \subseteq Sessions
      /\ \E next \in PC : pc' = [pc EXCEPT ![s] = next]
  BY DEF Begin, Resume, FollowUp, Goto, files, PC, LedgerInv, Typed
<1>2. RowsInv' /\ mem' \in [Sessions -> Seq(Row)]
  BY <1>1, SameSound
<1> QED
  BY <1>1, <1>2 DEF LedgerInv, Typed

LEMMA VerifySound ==
  ASSUME LedgerInv, NEW s \in Sessions, NEW found \in SUBSET Keys, NEW judged, Verify(s, found, judged)
  PROVE  LedgerInv'
<1>1. /\ UNCHANGED <<rows, tmp, board, mem, after, todo, begun>>
      /\ gaps' = [gaps EXCEPT ![s] = found] /\ pc' = [pc EXCEPT ![s] = "append"]
  BY DEF Verify, Goto
<1>2. RowsInv' /\ mem' \in [Sessions -> Seq(Row)]
  BY <1>1, SameSound
<1> QED
  BY <1>1, <1>2 DEF LedgerInv, Typed, PC, Returns

LEMMA EndsSound ==
  ASSUME LedgerInv, NEW s \in Sessions, ReplaceFails(s) \/ Finish(s) \/ Crash(s)
  PROVE  LedgerInv'
<1>1. End(s) /\ UNCHANGED <<rows, tmp, board, gaps, begun>>
  BY DEF ReplaceFails, Finish, Crash, files
<1> QED
  BY <1>1, EndSound DEF LedgerInv, Typed

LEMMA RecordSound ==
  ASSUME LedgerInv, NEW s \in Sessions, Record(s) \/ RecordVerified(s)
  PROVE  LedgerInv'
<1>1. UNCHANGED <<files, todo>> /\ \E next \in {"seed", "resolve"} : AppendGaps(s, next)
  BY DEF Record, RecordVerified
<1>2. PICK next \in {"seed", "resolve"}, q \in Orders(gaps[s] \ Known(s)) :
        WriteThen(s, rows \o [i \in DOMAIN q |-> NewRow(q[i], s)], next)
  BY <1>1 DEF AppendGaps
<1>3. Sound(board, rows \o [i \in DOMAIN q |-> NewRow(q[i], s)])
  BY AppendedSound DEF LedgerInv, RowsInv
<1>4. next \in Returns
  BY DEF Returns
<1> QED
  BY <1>1, <1>2, <1>3, <1>4, WriteThenSound

LEMMA ResolveSound ==
  ASSUME LedgerInv, NEW s \in Sessions, Resolve(s)
  PROVE  LedgerInv'
<1>1. UNCHANGED <<files, todo>> /\ WriteThen(s, [i \in DOMAIN rows |-> Resolved(s, rows[i])], "verified")
  BY DEF Resolve
<1>2. Sound(board, [i \in DOMAIN rows |-> Resolved(s, rows[i])]) /\ "verified" \in Returns
  BY ResolvedSound DEF LedgerInv, RowsInv, Returns
<1> QED
  BY <1>1, <1>2, WriteThenSound

LEMMA WriteSound ==
  ASSUME LedgerInv, NEW s \in Sessions, Write(s)
  PROVE  LedgerInv'
<1>1. /\ tmp' = <<mem[s]>> /\ pc' = [pc EXCEPT ![s] = "replace"]
      /\ UNCHANGED <<rows, board, gaps, begun, mem, after, todo>>
  BY DEF Write, Goto
<1>2. Sound(board, mem[s]) /\ mem[s] \in Seq(Row)
  BY DEF LedgerInv, RowsInv, Sound
<1>3. tmp' \in Seq(Seq(Row)) /\ \A i \in DOMAIN tmp' : tmp'[i] = mem[s]
  BY <1>1, <1>2
<1>4. RowsInv'
  BY <1>1, <1>2, <1>3 DEF LedgerInv, RowsInv
<1> QED
  BY <1>1, <1>3, <1>4 DEF LedgerInv, Typed, PC, Returns

LEMMA ReplaceSound ==
  ASSUME LedgerInv, NEW s \in Sessions, Replace(s)
  PROVE  LedgerInv'
<1>1. /\ tmp # <<>> /\ rows' = Head(tmp) /\ tmp' = <<>> /\ pc' = [pc EXCEPT ![s] = after[s]]
      /\ mem' = [mem EXCEPT ![s] = <<>>] /\ after' = [after EXCEPT ![s] = "idle"]
      /\ UNCHANGED <<board, gaps, begun, todo>>
  BY DEF Replace, Goto
<1>2. 1 \in DOMAIN tmp /\ Head(tmp) = tmp[1]
  BY <1>1 DEF LedgerInv, Typed
<1>3. Sound(board, rows') /\ rows' \in Seq(Row)
  BY <1>1, <1>2 DEF LedgerInv, RowsInv, Sound
<1>4. \A t \in Sessions : Sound(board, mem'[t])
  BY <1>1, EmptySound DEF LedgerInv, RowsInv, Typed
<1>5. RowsInv'
  BY <1>1, <1>3, <1>4 DEF RowsInv
<1> QED
  BY <1>1, <1>3, <1>5 DEF LedgerInv, Typed, PC, Returns

LEMMA SeedSound ==
  ASSUME LedgerInv, NEW s \in Sessions, Seed(s)
  PROVE  LedgerInv'
<1>1. /\ todo' = [todo EXCEPT ![s] = Selected] /\ mem' = [mem EXCEPT ![s] = rows]
      /\ \E next \in PC : pc' = [pc EXCEPT ![s] = next]
      /\ UNCHANGED <<rows, tmp, board, gaps, begun, after>>
  BY DEF Seed, Goto, files, PC
<1>2. RowsInv' /\ mem' \in [Sessions -> Seq(Row)]
  BY <1>1, MemSound DEF LedgerInv, RowsInv
<1>3. Selected \in SUBSET Nat
  BY DEF LedgerInv, Typed, Selected
<1> QED
  BY <1>1, <1>2, <1>3 DEF LedgerInv, Typed

LEMMA WorkSound ==
  ASSUME LedgerInv, NEW s \in Sessions, NEW completed, Work(s, completed)
  PROVE  LedgerInv' /\ Grown(board, board') /\ Grown(board', board)
<1> DEFINE done(t) == board[s][t].done \/ t \in completed
           tasks == [t \in DOMAIN board[s] |-> [board[s][t] EXCEPT !.done = @ \/ t \in completed]]
<1>1. /\ board' = [board EXCEPT ![s] = tasks] /\ mem' = [mem EXCEPT ![s] = <<>>]
      /\ pc' = [pc EXCEPT ![s] = "verify"] /\ UNCHANGED <<rows, tmp, gaps, begun, after, todo>>
  BY DEF Work, Goto
<1>2. /\ board \in [Sessions -> Seq(GapTask)] /\ board[s] \in Seq(GapTask)
      /\ DOMAIN board[s] = 1 .. Len(board[s]) /\ Len(board[s]) \in Nat
  BY DEF LedgerInv, Typed
<1>3. ASSUME NEW t \in DOMAIN board[s]
      PROVE  tasks[t] \in GapTask /\ tasks[t].key = board[s][t].key /\ tasks[t].source = board[s][t].source
  <2> DEFINE b == done(t)
  <2>1. board[s][t] \in GapTask
    BY <1>2
  <2>2. tasks[t] = [board[s][t] EXCEPT !.done = b]
    OBVIOUS
  <2>3. b \in BOOLEAN
    OBVIOUS
  <2> HIDE DEF b, tasks
  <2> QED
    BY <2>1, <2>2, <2>3 DEF GapTask
<1>4. DOMAIN tasks = 1 .. Len(board[s])
  BY <1>2
<1>5. tasks \in Seq(GapTask)
  <2>1. tasks = [t \in 1 .. Len(board[s]) |-> tasks[t]]
    BY <1>4
  <2> HIDE DEF tasks
  <2>2. tasks \in [1 .. Len(board[s]) -> GapTask]
    BY <1>2, <1>3, <1>4, <2>1
  <2> QED
    BY <1>2, <2>2
<1> HIDE DEF tasks
<1>6. board' \in [Sessions -> Seq(GapTask)] /\ board'[s] = tasks
      /\ \A r \in Sessions : r # s => board'[r] = board[r]
  BY <1>1, <1>2, <1>5
<1>7. Grown(board, board') /\ Grown(board', board)
  BY <1>2, <1>3, <1>4, <1>6 DEF Grown
<1>8. \A q : Sound(board, q) => Sound(board', q)
  BY <1>7, StillSound DEF Grown
<1>9. mem' \in [Sessions -> Seq(Row)] /\ \A t \in Sessions : mem'[t] = mem[t] \/ mem'[t] = <<>>
  BY <1>1 DEF LedgerInv, Typed
<1>10. RowsInv'
  BY <1>1, <1>8, <1>9, EmptySound DEF LedgerInv, RowsInv
<1> QED
  BY <1>1, <1>6, <1>7, <1>9, <1>10 DEF LedgerInv, Typed, PC, Returns

-----------------------------------------------------------------------------
(* The rows that are chosen.                                               *)

LEMMA Capabilities ==
  /\ DOMAIN Profile = {"crowding", "unwind_crash", "engine_freshness", "source_quality"}
  /\ \A c \in DOMAIN Profile : Rank[c] \in 1 .. 4
  /\ Rank["crowding"] = 1 /\ Rank["unwind_crash"] = 2 /\ Rank["engine_freshness"] = 3 /\ Rank["source_quality"] = 4
  /\ \A c, d \in DOMAIN Profile : Rank[c] = Rank[d] => c = d
BY DEF Profile, Rank

\* No more capabilities are taken than MaxGapSeeds.
LEMMA TakenIsBounded ==
  ASSUME NEW C \in SUBSET (DOMAIN Profile)
  PROVE  LET T == {c \in C : Cardinality({d \in C : Rank[d] < Rank[c]}) < MaxGapSeeds} IN
         IsFiniteSet(T) /\ Cardinality(T) <= MaxGapSeeds
<1> DEFINE Lower(c) == {d \in C : Rank[d] < Rank[c]}
           T == {c \in C : Cardinality(Lower(c)) < MaxGapSeeds}
<1>1. IsFiniteSet(DOMAIN Profile) /\ IsFiniteSet(C)
  <2>1. IsFiniteSet({"crowding", "unwind_crash", "engine_freshness", "source_quality"})
    <3>1. IsFiniteSet({}) /\ {"crowding"} = {} \cup {"crowding"}
      BY FS_EmptySet
    <3>2. IsFiniteSet({"crowding"})
      BY <3>1, FS_AddElement
    <3>3. IsFiniteSet({"crowding"} \cup {"unwind_crash"})
      BY <3>2, FS_AddElement
    <3>4. IsFiniteSet(({"crowding"} \cup {"unwind_crash"}) \cup {"engine_freshness"})
      BY <3>3, FS_AddElement
    <3>5. IsFiniteSet((({"crowding"} \cup {"unwind_crash"}) \cup {"engine_freshness"}) \cup {"source_quality"})
      BY <3>4, FS_AddElement
    <3>6. ((({"crowding"} \cup {"unwind_crash"}) \cup {"engine_freshness"}) \cup {"source_quality"})
            = {"crowding", "unwind_crash", "engine_freshness", "source_quality"}
      OBVIOUS
    <3> QED
      BY <3>5, <3>6
  <2> QED
    BY <2>1, Capabilities, FS_Subset
<1>2. IsFiniteSet(T)
  BY <1>1, FS_Subset
<1>3. CASE T = {}
  <2>1. Cardinality({}) = 0
    BY FS_EmptySet
  <2>2. MaxGapSeeds \in Nat
    BY GapAssumption
  <2> HIDE DEF T
  <2>3. Cardinality(T) = 0
    BY <1>3, <2>1
  <2>4. IsFiniteSet(T) /\ Cardinality(T) <= MaxGapSeeds
    BY <1>2, <2>2, <2>3
  <2> QED
    BY <2>4 DEF T
<1>4. CASE T # {}
  <2>1. PICK c \in T : \A d \in T : Rank[d] <= Rank[c]
    <3>1. T \subseteq {"crowding", "unwind_crash", "engine_freshness", "source_quality"}
      BY Capabilities
    <3> HIDE DEF T
    <3>2. CASE "source_quality" \in T
      BY <3>1, <3>2, Capabilities
    <3>3. CASE "source_quality" \notin T /\ "engine_freshness" \in T
      BY <3>1, <3>3, Capabilities
    <3>4. CASE "source_quality" \notin T /\ "engine_freshness" \notin T /\ "unwind_crash" \in T
      BY <3>1, <3>4, Capabilities
    <3>5. CASE T = {"crowding"}
      BY <3>5, Capabilities
    <3> QED
      BY <1>4, <3>1, <3>2, <3>3, <3>4, <3>5
  <2>2. T \subseteq Lower(c) \cup {c}
    <3>1. ASSUME NEW d \in T, d # c PROVE d \in Lower(c)
      <4>1. d \in C /\ c \in C /\ Rank[d] <= Rank[c] /\ Rank[d] # Rank[c]
        BY <2>1, <3>1, Capabilities
      <4> QED
        BY <4>1, Capabilities
    <3> QED
      BY <3>1
  <2>3. IsFiniteSet(Lower(c)) /\ c \notin Lower(c)
    BY <1>1, <2>1, FS_Subset, Capabilities
  <2>4. /\ IsFiniteSet(Lower(c) \cup {c}) /\ Cardinality(Lower(c) \cup {c}) = Cardinality(Lower(c)) + 1
        /\ Cardinality(Lower(c)) \in Nat
    BY <2>3, FS_AddElement, FS_CardinalityType
  <2>5. Cardinality(T) <= Cardinality(Lower(c) \cup {c})
    BY <2>2, <2>4, FS_Subset
  <2>6. Cardinality(Lower(c)) < MaxGapSeeds /\ MaxGapSeeds \in Nat /\ Cardinality(T) \in Nat
    BY <1>2, <2>1, GapAssumption, FS_CardinalityType
  <2> QED
    BY <1>2, <2>4, <2>5, <2>6
<1> QED
  BY <1>3, <1>4

\* What is chosen are rows of different profiles, at most MaxGapSeeds.
LEMMA SelectedIs ==
  ASSUME LedgerInv
  PROVE  /\ Selected \subseteq DOMAIN rows
         /\ IsFiniteSet(Selected) /\ Cardinality(Selected) <= MaxGapSeeds
         /\ \A i, j \in Selected :
              Profile[Capability[rows[i].key]] = Profile[Capability[rows[j].key]] => i = j
<1> DEFINE T == {c \in Candidates : Cardinality({d \in Candidates : Rank[d] < Rank[c]}) < MaxGapSeeds}
           cap(i) == Capability[rows[i].key]
<1>1. Candidates \subseteq DOMAIN Profile
  BY DEF Candidates
<1>2. IsFiniteSet(T) /\ Cardinality(T) <= MaxGapSeeds /\ T \subseteq Candidates
  BY <1>1, TakenIsBounded
<1>3. Selected = {i \in DOMAIN rows : \E c \in T : i \in OpenRows(c) /\ \A j \in OpenRows(c) : i <= j}
  BY DEF Selected
<1> HIDE DEF T
<1>4. DOMAIN rows \subseteq Nat
  BY DEF LedgerInv, Typed
<1>5. ASSUME NEW i \in Selected
      PROVE  cap(i) \in T /\ i \in OpenRows(cap(i)) /\ i \in Nat /\ \A j \in OpenRows(cap(i)) : i <= j
  BY <1>3, <1>4 DEF OpenRows
<1>6. ASSUME NEW i \in Selected, NEW j \in Selected, cap(i) = cap(j)
      PROVE  i = j
  BY <1>5, <1>6
<1>7. ASSUME NEW i \in Selected, NEW j \in Selected, Profile[cap(i)] = Profile[cap(j)]
      PROVE  i = j
  <2>1. cap(i) \in Candidates /\ cap(j) \in Candidates /\ OpenRows(cap(i)) # {} /\ OpenRows(cap(j)) # {}
    BY <1>2, <1>5
  <2>2. ~ (Rank[cap(i)] < Rank[cap(j)]) /\ ~ (Rank[cap(j)] < Rank[cap(i)])
    BY <1>1, <1>7, <2>1 DEF Candidates
  <2>3. cap(i) = cap(j)
    BY <1>1, <2>1, <2>2, Capabilities
  <2> QED
    BY <1>6, <2>3
<1>8. IsFiniteSet(Selected) /\ Cardinality(Selected) <= MaxGapSeeds
  <2> DEFINE f == [i \in Selected |-> cap(i)]
  <2>1. f \in Injection(Selected, T)
    BY <1>5, <1>6 DEF Injection, IsInjective
  <2>2. IsFiniteSet(Selected) /\ Cardinality(Selected) <= Cardinality(T)
    BY <1>2, <2>1, FS_Injection
  <2>3. Cardinality(Selected) \in Nat /\ Cardinality(T) \in Nat /\ MaxGapSeeds \in Nat
    BY <1>2, <2>2, FS_CardinalityType, GapAssumption
  <2> QED
    BY <1>2, <2>2, <2>3
<1> QED
  BY <1>3, <1>7, <1>8

-----------------------------------------------------------------------------
(* Planting.                                                               *)

\* One more task, and the row in memory that claims it.
LEMMA PlantSound ==
  ASSUME LedgerInv, NEW s \in Sessions, NEW i \in todo[s], i \in DOMAIN mem[s], Plant(s, i)
  PROVE  /\ LedgerInv' /\ Grown(board, board')
         /\ board' = [board EXCEPT ![s] = board'[s]]
         /\ Len(board'[s]) = Len(board[s]) + 1 /\ board'[s][Len(board[s]) + 1].key = mem[s][i].key
         /\ \A t \in DOMAIN board[s] : board'[s][t] = board[s][t]
         /\ DOMAIN mem'[s] = DOMAIN mem[s] /\ mem'[s][i].status = "CONSUMED" /\ mem'[s][i].key = mem[s][i].key
         /\ \A j \in DOMAIN mem[s] : j # i => mem'[s][j] = mem[s][j]
         /\ \A r \in Sessions : r # s => mem'[r] = mem[r] /\ board'[r] = board[r]
<1> DEFINE row == mem[s][i]
           n == Len(board[s]) + 1
           task == [key |-> row.key, source |-> row.source, done |-> FALSE]
           claim == Planted(s, row)
           tasks == Append(board[s], task)
           q == [mem[s] EXCEPT ![i] = claim]
<1>1. /\ board' = [board EXCEPT ![s] = tasks] /\ mem' = [mem EXCEPT ![s] = q]
      /\ todo' = [todo EXCEPT ![s] = todo[s] \ {i}]
      /\ UNCHANGED <<rows, tmp, gaps, begun>>
      /\ \/ pc' = [pc EXCEPT ![s] = "write"] /\ after' = [after EXCEPT ![s] = "work"]
         \/ UNCHANGED <<pc, after>>
  BY DEF Plant, Goto
<1>2. /\ row \in Row /\ mem[s] \in Seq(Row) /\ board[s] \in Seq(GapTask) /\ Len(board[s]) \in Nat /\ n \in Nat
      /\ DOMAIN board[s] = 1 .. Len(board[s])
      /\ mem \in [Sessions -> Seq(Row)] /\ board \in [Sessions -> Seq(GapTask)]
  BY DEF LedgerInv, Typed
<1>3. task \in GapTask /\ task.key = row.key /\ task.source = row.source
  <2>1. row.key \in Keys /\ row.source \in Sessions
    BY <1>2, RowFields
  <2> QED
    BY <2>1 DEF GapTask
<1>4. claim \in Row /\ claim.key = row.key /\ claim.source = row.source /\ claim.by = s /\ claim.task = n
      /\ claim.status = "CONSUMED"
  <2> HIDE DEF row, n
  <2>1. claim = [row EXCEPT !.status = "CONSUMED", !.by = s, !.task = n]
    BY DEF Planted, n
  <2> QED
    BY <1>2, <2>1 DEF Row
<1> HIDE DEF task, claim
<1>5. tasks \in Seq(GapTask) /\ Len(tasks) = n /\ tasks[n] = task /\ DOMAIN tasks = 1 .. n
      /\ \A t \in DOMAIN board[s] : t \in DOMAIN tasks /\ tasks[t] = board[s][t]
  BY <1>2, <1>3
<1>6. q \in Seq(Row) /\ DOMAIN q = DOMAIN mem[s] /\ q[i] = claim /\ \A j \in DOMAIN mem[s] : j # i => q[j] = mem[s][j]
  BY <1>2, <1>4
<1> HIDE DEF tasks, q
<1>7. /\ board' \in [Sessions -> Seq(GapTask)] /\ board'[s] = tasks
      /\ mem' \in [Sessions -> Seq(Row)] /\ mem'[s] = q
      /\ \A r \in Sessions : r # s => mem'[r] = mem[r] /\ board'[r] = board[r]
  BY <1>1, <1>2, <1>5, <1>6
<1>8. Grown(board, board')
  BY <1>5, <1>7 DEF Grown
<1>9. \A x : Sound(board, x) => Sound(board', x)
  BY <1>8, StillSound DEF Grown
<1>10. Sound(board', mem[s])
  BY <1>9 DEF LedgerInv, RowsInv
<1>11. ASSUME NEW j \in DOMAIN mem[s], mem[s][j].by = s
       PROVE  mem[s][j].task # n
  <2>1. mem[s][j].by # None
    BY <1>11, GapAssumption
  <2>2. mem[s][j].task \in DOMAIN board[s]
    BY <1>11, <2>1 DEF LedgerInv, RowsInv, Sound, Backed
  <2> QED
    BY <1>2, <2>2
<1>12. \A j \in DOMAIN q : q[j].key = mem[s][j].key /\ q[j].source = mem[s][j].source
  BY <1>4, <1>6
<1>13. Unique(q)
  BY <1>6, <1>12 DEF LedgerInv, RowsInv, Sound, Unique
<1>14. Backed(board', q)
  <2>1. ASSUME NEW j \in DOMAIN q, q[j].by # None
        PROVE  /\ q[j].task \in DOMAIN board'[q[j].by]
               /\ board'[q[j].by][q[j].task].key = q[j].key /\ board'[q[j].by][q[j].task].source = q[j].source
    <3>1. CASE j = i
      BY <1>2, <1>3, <1>4, <1>5, <1>6, <1>7, <3>1
    <3>2. CASE j # i
      BY <1>6, <1>10, <2>1, <3>2 DEF Sound, Backed
    <3> QED
      BY <3>1, <3>2
  <2>2. ASSUME NEW j \in DOMAIN q, NEW k \in DOMAIN q, q[j].by # None, q[j].by = q[k].by, q[j].task = q[k].task
        PROVE  j = k
    <3>1. CASE j = i /\ k # i
      BY <1>4, <1>6, <1>11, <2>2, <3>1
    <3>2. CASE j # i /\ k = i
      BY <1>4, <1>6, <1>11, <2>2, <3>2
    <3>3. CASE j # i /\ k # i
      BY <1>6, <1>10, <2>2, <3>3 DEF Sound, Backed
    <3> QED
      BY <3>1, <3>2, <3>3
  <2> QED
    BY <2>1, <2>2 DEF Backed
<1>15. Sound(board', q)
  BY <1>6, <1>13, <1>14 DEF Sound
<1>16. RowsInv'
  BY <1>1, <1>7, <1>9, <1>15 DEF LedgerInv, RowsInv
<1>17. Typed'
  BY <1>1, <1>7 DEF LedgerInv, Typed, PC, Returns
<1>18. board' = [board EXCEPT ![s] = board'[s]]
  BY <1>1, <1>7
<1> QED
  BY <1>3, <1>4, <1>5, <1>6, <1>7, <1>8, <1>16, <1>17, <1>18 DEF LedgerInv

-----------------------------------------------------------------------------
(* What a session plants in its whole life.                                *)

\* A step of s is about s.
LEMMA Alone ==
  ASSUME LedgerInv, NEW s \in Sessions, Step(s), NEW r \in Sessions, r # s
  PROVE  /\ pc'[r] = pc[r] /\ after'[r] = after[r] /\ mem'[r] = mem[r] /\ todo'[r] = todo[r]
         /\ board'[r] = board[r] /\ gaps'[r] = gaps[r] /\ (r \in begun' <=> r \in begun)
<1>1. /\ DOMAIN pc = Sessions /\ DOMAIN after = Sessions /\ DOMAIN mem = Sessions /\ DOMAIN todo = Sessions
      /\ DOMAIN board = Sessions /\ DOMAIN gaps = Sessions
  BY DEF LedgerInv, Typed
<1>2. CASE Begin(s) \/ Resume(s) \/ Write(s) \/ Replace(s) \/ FollowUp(s)
  BY <1>1, <1>2 DEF Begin, Resume, Write, Replace, FollowUp, Goto, files
<1>3. CASE ReplaceFails(s) \/ Finish(s) \/ Crash(s)
  BY <1>1, <1>3 DEF ReplaceFails, Finish, Crash, End, Goto, files
<1>4. ASSUME NEW new, NEW next, WriteThen(s, new, next), UNCHANGED <<files, todo>>
      PROVE  /\ pc'[r] = pc[r] /\ after'[r] = after[r] /\ mem'[r] = mem[r] /\ todo'[r] = todo[r]
             /\ board'[r] = board[r] /\ gaps'[r] = gaps[r] /\ (r \in begun' <=> r \in begun)
  BY <1>1, <1>4 DEF WriteThen, Goto, files
<1>5. CASE Record(s) \/ RecordVerified(s) \/ Resolve(s)
  BY <1>4, <1>5 DEF Record, RecordVerified, Resolve, AppendGaps
<1>6. CASE Seed(s)
  BY <1>1, <1>6 DEF Seed, Goto, files
<1>7. ASSUME NEW i \in todo[s], Plant(s, i)
      PROVE  /\ pc'[r] = pc[r] /\ after'[r] = after[r] /\ mem'[r] = mem[r] /\ todo'[r] = todo[r]
             /\ board'[r] = board[r] /\ gaps'[r] = gaps[r] /\ (r \in begun' <=> r \in begun)
  BY <1>1, <1>7 DEF Plant, Goto
<1>8. ASSUME NEW completed, Work(s, completed)
      PROVE  /\ pc'[r] = pc[r] /\ after'[r] = after[r] /\ mem'[r] = mem[r] /\ todo'[r] = todo[r]
             /\ board'[r] = board[r] /\ gaps'[r] = gaps[r] /\ (r \in begun' <=> r \in begun)
  BY <1>1, <1>8 DEF Work, Goto
<1>9. ASSUME NEW found, NEW judged, Verify(s, found, judged)
      PROVE  /\ pc'[r] = pc[r] /\ after'[r] = after[r] /\ mem'[r] = mem[r] /\ todo'[r] = todo[r]
             /\ board'[r] = board[r] /\ gaps'[r] = gaps[r] /\ (r \in begun' <=> r \in begun)
  BY <1>1, <1>9 DEF Verify, Goto
<1> QED
  BY <1>2, <1>3, <1>5, <1>6, <1>7, <1>8, <1>9 DEF Step

\* A step of s that leaves its board alone and does not begin to plant.
LEMMA SeedKept ==
  ASSUME LedgerInv, NEW s \in Sessions, SeedInv(s), board'[s] = board[s],
         s \in begun', pc'[s] # "plant",
         \/ pc'[s] \in {"record", "seed"} \/ (pc'[s] \in {"write", "replace"} /\ after'[s] = "seed") => board[s] = <<>>
  PROVE  SeedInv(s)'
BY DEF SeedInv

LEMMA StepPlants ==
  ASSUME LedgerInv, NEW s \in Sessions, SeedInv(s), Step(s)
  PROVE  SeedInv(s)'
<1>1. /\ pc \in [Sessions -> PC] /\ after \in [Sessions -> Returns] /\ mem \in [Sessions -> Seq(Row)]
      /\ todo \in [Sessions -> SUBSET Nat] /\ board \in [Sessions -> Seq(GapTask)]
  BY DEF LedgerInv, Typed
<1>2. CASE Begin(s)
  <2>1. pc'[s] = "record" /\ board' = board /\ s \in begun' /\ board[s] = <<>>
    BY <1>1, <1>2 DEF Begin, Goto, SeedInv
  <2> QED
    BY <2>1, SeedKept
<1>3. CASE Resume(s)
  <2>1. (pc'[s] = "record" /\ board[s] = <<>>) \/ pc'[s] \in {"work", "verify", "reused"}
    BY <1>1, <1>3 DEF Resume, Goto
  <2>2. board' = board /\ s \in begun'
    BY <1>3 DEF Resume, files
  <2> QED
    BY <2>1, <2>2, SeedKept
<1>4. CASE Write(s)
  <2>1. pc[s] = "write" /\ pc'[s] = "replace" /\ UNCHANGED <<board, begun, after>> /\ s \in begun
    BY <1>1, <1>4 DEF Write, Goto, SeedInv
  <2> QED
    BY <2>1, SeedKept DEF SeedInv
<1>5. CASE Replace(s)
  <2>1. /\ pc[s] = "replace" /\ pc'[s] = after[s] /\ UNCHANGED <<board, begun>> /\ s \in begun
        /\ after[s] \in Returns
    BY <1>1, <1>5 DEF Replace, Goto, SeedInv
  <2> QED
    BY <2>1, SeedKept DEF SeedInv, Returns
<1>6. CASE FollowUp(s) \/ (\E found \in GapSets, judged \in [DOMAIN board[s] -> Verdict] : Verify(s, found, judged))
  <2>1. pc[s] \in {"verified", "reused", "verify"} /\ pc'[s] \in {"work", "append"} /\ UNCHANGED <<board, begun>>
    BY <1>1, <1>6 DEF FollowUp, Verify, Goto
  <2> QED
    BY <2>1, SeedKept DEF SeedInv
<1>7. CASE ReplaceFails(s) \/ Finish(s) \/ Crash(s)
  <2>1. pc[s] # "idle" /\ pc'[s] = "idle" /\ UNCHANGED <<board, begun>>
    BY <1>1, <1>7 DEF ReplaceFails, Finish, Crash, End, Goto, files
  <2> QED
    BY <2>1, SeedKept DEF SeedInv
<1>8. ASSUME NEW new, NEW next \in {"seed", "resolve", "verified"}, WriteThen(s, new, next), UNCHANGED files,
             pc[s] \in {"record", "append", "resolve"}, next = "seed" => pc[s] = "record"
      PROVE  SeedInv(s)'
  <2>1. /\ (pc'[s] = "write" /\ after'[s] = next) \/ pc'[s] = next
        /\ UNCHANGED <<board, begun>> /\ s \in begun
    BY <1>1, <1>8 DEF WriteThen, Goto, files, SeedInv
  <2> QED
    BY <1>8, <2>1, SeedKept DEF SeedInv
<1>9. CASE Record(s) \/ RecordVerified(s) \/ Resolve(s)
  BY <1>8, <1>9 DEF Record, RecordVerified, Resolve, AppendGaps
<1>10. CASE Seed(s)
  <2>1. /\ pc[s] = "seed" /\ board' = board /\ begun' = begun /\ s \in begun /\ board[s] = <<>>
        /\ pc'[s] = (IF Selected = {} THEN "work" ELSE "plant")
        /\ todo'[s] = Selected /\ mem'[s] = rows
    BY <1>1, <1>10 DEF Seed, Goto, files, SeedInv
  <2>2. Planting(s)'
    <3>1. Len(board[s]) = 0 /\ DOMAIN board[s] = {} /\ board'[s] = board[s]
      BY <2>1
    <3>2. Cardinality(Selected) \in Nat /\ Cardinality(Selected) <= MaxGapSeeds
      BY SelectedIs, FS_CardinalityType
    <3>3. Len(board'[s]) + Cardinality(todo'[s]) <= MaxGapSeeds
      BY <2>1, <3>1, <3>2
    <3> QED
      BY <2>1, <3>1, <3>3, SelectedIs DEF Planting, ProfileOf
  <2> QED
    BY <2>1, <2>2 DEF SeedInv
<1>11. ASSUME NEW i \in todo[s], Plant(s, i) PROVE SeedInv(s)'
  <2>1. pc[s] = "plant" /\ Planting(s) /\ i \in DOMAIN mem[s] /\ s \in begun
    BY <1>11 DEF Plant, SeedInv, Planting
  <2>2. /\ Len(board'[s]) = Len(board[s]) + 1 /\ board'[s][Len(board[s]) + 1].key = mem[s][i].key
        /\ Grown(board, board') /\ LedgerInv'
        /\ DOMAIN mem'[s] = DOMAIN mem[s]
        /\ \A j \in DOMAIN mem[s] : j # i => mem'[s][j] = mem[s][j]
    BY <1>11, <2>1, PlantSound
  <2>3. /\ todo'[s] = todo[s] \ {i} /\ begun' = begun
        /\ (pc'[s] = "write" /\ after'[s] = "work") \/ pc'[s] = "plant"
    BY <1>1, <1>11, <2>1 DEF Plant, Goto
  <2>4. /\ IsFiniteSet(todo'[s]) /\ Cardinality(todo[s]) \in Nat /\ Cardinality(todo'[s]) = Cardinality(todo[s]) - 1
        /\ Cardinality(todo'[s]) \in Nat
    BY <2>1, <2>3, FS_RemoveElement, FS_CardinalityType DEF Planting
  <2>5. /\ Len(board[s]) \in Nat /\ DOMAIN board[s] = 1 .. Len(board[s])
        /\ DOMAIN board'[s] = 1 .. Len(board[s]) + 1 /\ MaxGapSeeds \in Nat
    BY <1>1, <2>2, GapAssumption DEF LedgerInv, Typed
  <2>6. Len(board'[s]) + Cardinality(todo'[s]) <= MaxGapSeeds /\ Len(board'[s]) <= MaxGapSeeds
    BY <2>1, <2>2, <2>4, <2>5 DEF Planting
  <2>7. ASSUME NEW t \in DOMAIN board'[s]
        PROVE  \/ t \in DOMAIN board[s] /\ board'[s][t].key = board[s][t].key
               \/ t = Len(board[s]) + 1 /\ board'[s][t].key = mem[s][i].key
    BY <2>2, <2>5 DEF Grown
  <2>8. \A t \in DOMAIN board[s] : ProfileOf(board[s][t].key) # ProfileOf(mem[s][i].key)
    BY <2>1 DEF Planting
  <2>9. ASSUME NEW t \in DOMAIN board'[s], NEW u \in DOMAIN board'[s],
               ProfileOf(board'[s][t].key) = ProfileOf(board'[s][u].key)
        PROVE  t = u
    <3>1. CASE t \in DOMAIN board[s] /\ board'[s][t].key = board[s][t].key
               /\ u \in DOMAIN board[s] /\ board'[s][u].key = board[s][u].key
      BY <2>9, <3>1 DEF SeedInv
    <3>2. CASE t \in DOMAIN board[s] /\ board'[s][t].key = board[s][t].key /\ board'[s][u].key = mem[s][i].key
      BY <2>8, <2>9, <3>2
    <3>3. CASE u \in DOMAIN board[s] /\ board'[s][u].key = board[s][u].key /\ board'[s][t].key = mem[s][i].key
      BY <2>8, <2>9, <3>3
    <3> QED
      BY <2>7, <3>1, <3>2, <3>3
  <2>10. Planting(s)'
    <3>1. \A j \in todo'[s] : j \in todo[s] /\ j # i /\ j \in DOMAIN mem[s] /\ mem'[s][j] = mem[s][j]
      BY <2>1, <2>2, <2>3 DEF Planting
    <3>2. \A j, k \in todo'[s] : ProfileOf(mem'[s][j].key) = ProfileOf(mem'[s][k].key) => j = k
      BY <2>1, <3>1 DEF Planting
    <3>3. ASSUME NEW j \in todo'[s], NEW t \in DOMAIN board'[s]
          PROVE  ProfileOf(board'[s][t].key) # ProfileOf(mem'[s][j].key)
      BY <2>1, <2>7, <3>1 DEF Planting
    <3> QED
      BY <2>1, <2>2, <2>3, <2>4, <2>6, <3>2, <3>3 DEF Planting, ProfileOf
  <2> QED
    BY <2>1, <2>3, <2>6, <2>9, <2>10 DEF SeedInv, ProfileOf
<1>12. ASSUME NEW completed, Work(s, completed) PROVE SeedInv(s)'
  <2>1. pc[s] = "work" /\ pc'[s] = "verify" /\ begun' = begun /\ s \in begun
    BY <1>1, <1>12 DEF Work, Goto, SeedInv
  <2>2. Grown(board, board') /\ Grown(board', board) /\ LedgerInv'
    BY <1>12, WorkSound
  <2>3. /\ DOMAIN board'[s] = DOMAIN board[s] /\ Len(board'[s]) = Len(board[s])
        /\ \A t \in DOMAIN board[s] : board'[s][t].key = board[s][t].key
    <3>1. DOMAIN board'[s] = DOMAIN board[s]
      BY <2>2 DEF Grown
    <3>2. DOMAIN board[s] = 1 .. Len(board[s]) /\ DOMAIN board'[s] = 1 .. Len(board'[s])
          /\ Len(board[s]) \in Nat /\ Len(board'[s]) \in Nat
      BY <2>2 DEF LedgerInv, Typed
    <3> QED
      BY <2>2, <3>1, <3>2 DEF Grown
  <2> QED
    BY <2>1, <2>3 DEF SeedInv, ProfileOf
<1> QED
  BY <1>2, <1>3, <1>4, <1>5, <1>6, <1>7, <1>9, <1>10, <1>11, <1>12 DEF Step

LEMMA StepSound ==
  ASSUME LedgerInv, NEW s \in Sessions, SeedInv(s), Step(s)
  PROVE  LedgerInv'
<1>1. ASSUME NEW i \in todo[s], Plant(s, i) PROVE LedgerInv'
  <2>1. i \in DOMAIN mem[s]
    BY <1>1 DEF Plant, SeedInv, Planting
  <2> QED
    BY <1>1, <2>1, PlantSound
<1>2. ASSUME NEW found \in GapSets, NEW judged, Verify(s, found, judged) PROVE LedgerInv'
  <2>1. found \in SUBSET Keys
    BY GapAssumption
  <2> QED
    BY <1>2, <2>1, VerifySound
<1> QED
  BY <1>1, <1>2, StartSound, EndsSound, RecordSound, ResolveSound, WriteSound, ReplaceSound, SeedSound, WorkSound
  DEF Step

-----------------------------------------------------------------------------
(* Processes that run one at a time.                                       *)

\* Every gap of s has a row in q.
HasRows(s, q) ==
  \A k \in gaps[s] : \E i \in DOMAIN q : q[i].key = k /\ q[i].source = s

\* What s is about to write keeps every row; it claims rows, or resolves its own.
Edited(s) ==
  \A i \in DOMAIN rows :
    /\ i \in DOMAIN mem[s] /\ mem[s][i].key = rows[i].key /\ mem[s][i].source = rows[i].source
    /\ mem[s][i].status # rows[i].status /\ mem[s][i].status # "CONSUMED" =>
         /\ rows[i].by = s /\ mem[s][i].by = s
         /\ mem[s][i].status = "CLOSED" => board[s][rows[i].task].done

TurnInv(s) ==
  /\ pc[s] = "replace" => tmp = <<mem[s]>>
  /\ pc[s] \in {"plant", "write", "replace"} => Edited(s)
  /\ pc[s] \in {"write", "replace"} /\ after[s] \in {"resolve", "verified"} => HasRows(s, mem[s])
  /\ pc[s] \in {"resolve", "verified"} => HasRows(s, rows)

AloneInv ==
  alone => /\ \A r, s \in Sessions : pc[r] # "idle" /\ pc[s] # "idle" => r = s
           /\ \A s \in Sessions : TurnInv(s)

\* The gaps of s have their rows, or it is at work on that.
Kept(s) ==
  \/ HasRows(s, rows) \/ pc[s] = "append"
  \/ pc[s] \in {"write", "replace"} /\ after[s] = "resolve"

\* Where nothing was killed a session lacks rows only while it records.
KeptInv == crashes \in Nat /\ (alone /\ crashes = 0 => \A s \in Sessions : Kept(s))

IInv == LedgerInv /\ PlantInv /\ AloneInv /\ KeptInv

\* Each of the new rows is there.
LEMMA AppendedHasRows ==
  ASSUME Typed, NEW s \in Sessions, NEW q \in Orders(gaps[s] \ Known(s))
  PROVE  HasRows(s, rows \o [i \in DOMAIN q |-> NewRow(q[i], s)])
<1> DEFINE S == gaps[s] \ Known(s)
           n == Cardinality(S)
           new == [i \in DOMAIN q |-> NewRow(q[i], s)]
           all == rows \o new
<1>1. IsFiniteSet(S) /\ n \in Nat
  <2>1. S \subseteq Keys
    BY DEF Typed
  <2>2. IsFiniteSet(S)
    BY <2>1, GapAssumption, FS_Subset
  <2> QED
    BY <2>2, FS_CardinalityType
<1>2. q \in [1 .. n -> S] /\ \A i, j \in 1 .. n : i # j => q[i] # q[j]
  BY DEF Orders
<1>3. ASSUME NEW k \in S PROVE \E i \in 1 .. n : q[i] = k
  <2>1. IsFiniteSet(1 .. n) /\ Cardinality(1 .. n) = n
    <3>1. IsFiniteSet(1 .. n) /\ Cardinality(1 .. n) = IF 1 > n THEN 0 ELSE n - 1 + 1
      BY <1>1, FS_Interval
    <3> QED
      BY <1>1, <3>1
  <2>2. q \in Injection(1 .. n, S)
    BY <1>2 DEF Injection, IsInjective
  <2>3. q \in Surjection(1 .. n, S)
    BY <1>1, <2>1, <2>2, FS_Injection
  <2> QED
    BY <2>3 DEF Surjection
<1>4. \A i \in 1 .. n : new[i].key = q[i] /\ new[i].source = s /\ new[i] \in Row
  <2>1. \A i \in 1 .. n : new[i] = NewRow(q[i], s) /\ q[i] \in Keys
    <3>1. DOMAIN q = 1 .. n /\ \A i \in 1 .. n : q[i] \in S
      BY <1>2
    <3> HIDE DEF S, n
    <3> QED
      BY <3>1 DEF S, Typed
  <2>2. ASSUME NEW k \in Keys
        PROVE  LET r == NewRow(k, s) IN r \in Row /\ r.key = k /\ r.source = s
    BY DEF NewRow, Row
  <2> HIDE DEF new
  <2> QED
    BY <2>1, <2>2
<1>5. new \in Seq(Row) /\ Len(new) = n
  <2>1. new = [i \in 1 .. n |-> new[i]]
    <3>1. DOMAIN q = 1 .. n
      BY <1>2
    <3> HIDE DEF S, n
    <3> QED
      BY <3>1
  <2> HIDE DEF new, S, n
  <2>2. new \in [1 .. n -> Row]
    BY <1>4, <2>1
  <2> QED
    BY <1>1, <2>1, <2>2
<1> HIDE DEF new, S, n
<1>6. rows \in Seq(Row) /\ Len(rows) \in Nat /\ DOMAIN rows = 1 .. Len(rows)
  BY DEF Typed
<1>7. /\ \A i \in DOMAIN rows : i \in DOMAIN all /\ all[i] = rows[i]
      /\ \A i \in 1 .. n : Len(rows) + i \in DOMAIN all /\ all[Len(rows) + i] = new[i]
  <2>1. Len(all) = Len(rows) + n /\ DOMAIN all = 1 .. Len(rows) + n
    BY <1>1, <1>5, <1>6
  <2>2. \A i \in 1 .. Len(rows) + n : all[i] = IF i <= Len(rows) THEN rows[i] ELSE new[i - Len(rows)]
    BY <1>5, <1>6
  <2> HIDE DEF all
  <2>3. ASSUME NEW i \in 1 .. n PROVE Len(rows) + i \in DOMAIN all /\ all[Len(rows) + i] = new[i]
    <3>1. Len(rows) + i \in 1 .. Len(rows) + n /\ ~ (Len(rows) + i <= Len(rows)) /\ (Len(rows) + i) - Len(rows) = i
      BY <1>1, <1>6
    <3> QED
      BY <2>1, <2>2, <3>1
  <2> QED
    BY <1>1, <1>6, <2>1, <2>2, <2>3
<1> HIDE DEF all
<1>8. ASSUME NEW k \in gaps[s] PROVE \E i \in DOMAIN all : all[i].key = k /\ all[i].source = s
  <2>1. CASE k \in Known(s)
    BY <1>7, <2>1 DEF Known
  <2>2. CASE k \notin Known(s)
    BY <1>3, <1>4, <1>7, <2>2 DEF S
  <2> QED
    BY <2>1, <2>2
<1> QED
  BY <1>8 DEF HasRows, all, new

\* The steps of a process that runs alone.
LEMMA WriteThenTurns ==
  ASSUME Typed, NEW s \in Sessions, NEW new, NEW next \in {"seed", "resolve", "verified"}, WriteThen(s, new, next),
         UNCHANGED files,
         \A i \in DOMAIN rows :
           /\ i \in DOMAIN new /\ new[i].key = rows[i].key /\ new[i].source = rows[i].source
           /\ new[i].status # rows[i].status /\ new[i].status # "CONSUMED" =>
                /\ rows[i].by = s /\ new[i].by = s
                /\ new[i].status = "CLOSED" => board[s][rows[i].task].done,
         next # "seed" => HasRows(s, new)
  PROVE  TurnInv(s)'
<1>1. UNCHANGED <<rows, tmp, board, gaps>>
  BY DEF files
<1>2. DOMAIN pc = Sessions /\ DOMAIN mem = Sessions /\ DOMAIN after = Sessions
  BY DEF Typed
<1>3. CASE new # rows
  <2>1. mem'[s] = new /\ after'[s] = next /\ pc'[s] = "write"
    BY <1>2, <1>3 DEF WriteThen, Goto
  <2> QED
    BY <1>1, <2>1 DEF TurnInv, Edited, HasRows
<1>4. CASE new = rows
  <2>1. pc'[s] = next
    BY <1>2, <1>4 DEF WriteThen, Goto
  <2> QED
    BY <1>1, <1>4, <2>1 DEF TurnInv, HasRows
<1> QED
  BY <1>3, <1>4

LEMMA StepTurns ==
  ASSUME LedgerInv, NEW s \in Sessions, SeedInv(s), TurnInv(s), Step(s)
  PROVE  TurnInv(s)'
<1>1. /\ pc \in [Sessions -> PC] /\ after \in [Sessions -> Returns] /\ mem \in [Sessions -> Seq(Row)]
      /\ board \in [Sessions -> Seq(GapTask)] /\ Typed /\ Sound(board, rows)
  BY DEF LedgerInv, Typed, RowsInv
<1>2. CASE Begin(s) \/ Resume(s) \/ FollowUp(s) \/ ReplaceFails(s) \/ Finish(s) \/ Crash(s)
  <2>1. pc'[s] \in {"record", "work", "verify", "reused", "idle"}
    BY <1>1, <1>2 DEF Begin, Resume, FollowUp, ReplaceFails, Finish, Crash, End, Goto
  <2> QED
    BY <2>1 DEF TurnInv
<1>3. ASSUME NEW completed, NEW found, NEW judged, Work(s, completed) \/ Verify(s, found, judged)
      PROVE  TurnInv(s)'
  <2>1. pc'[s] \in {"verify", "append"}
    BY <1>1, <1>3 DEF Work, Verify, Goto
  <2> QED
    BY <2>1 DEF TurnInv
<1>4. CASE Write(s)
  <2>1. /\ pc[s] = "write" /\ pc'[s] = "replace" /\ tmp' = <<mem[s]>>
        /\ UNCHANGED <<rows, board, gaps, mem, after>>
    BY <1>1, <1>4 DEF Write, Goto
  <2> QED
    BY <2>1 DEF TurnInv, Edited, HasRows
<1>5. CASE Replace(s)
  <2>1. /\ pc[s] = "replace" /\ pc'[s] = after[s] /\ rows' = Head(tmp) /\ UNCHANGED gaps /\ after[s] \in Returns
    BY <1>1, <1>5 DEF Replace, Goto
  <2>2. rows' = mem[s]
    BY <2>1 DEF TurnInv
  <2> QED
    BY <2>1, <2>2 DEF TurnInv, HasRows, Returns
<1>6. CASE Record(s) \/ RecordVerified(s)
  <2>1. PICK next \in {"seed", "resolve"}, q \in Orders(gaps[s] \ Known(s)) :
          WriteThen(s, rows \o [i \in DOMAIN q |-> NewRow(q[i], s)], next)
    BY <1>6 DEF Record, RecordVerified, AppendGaps
  <2> DEFINE new == rows \o [i \in DOMAIN q |-> NewRow(q[i], s)]
  <2>2. /\ \A i \in DOMAIN rows : i \in DOMAIN new /\ new[i] = rows[i]
        /\ HasRows(s, new)
    BY <1>1, AppendedSound, AppendedHasRows
  <2>3. UNCHANGED files /\ WriteThen(s, new, next)
    BY <1>6, <2>1 DEF Record, RecordVerified
  <2> HIDE DEF new
  <2> QED
    BY <1>1, <2>2, <2>3, WriteThenTurns
<1>7. CASE Resolve(s)
  <2> DEFINE new == [i \in DOMAIN rows |-> Resolved(s, rows[i])]
  <2>1. UNCHANGED files /\ WriteThen(s, new, "verified") /\ HasRows(s, rows)
    BY <1>7 DEF Resolve, TurnInv
  <2>2. ASSUME NEW i \in DOMAIN rows
        PROVE  /\ i \in DOMAIN new /\ new[i].key = rows[i].key /\ new[i].source = rows[i].source
               /\ new[i].status # rows[i].status /\ new[i].status # "CONSUMED" =>
                    /\ rows[i].by = s /\ new[i].by = s
                    /\ new[i].status = "CLOSED" => board[s][rows[i].task].done
    <3>1. rows[i] \in Row /\ new[i] = Resolved(s, rows[i]) /\ i \in DOMAIN new
      BY <1>1 DEF Typed
    <3> HIDE DEF new
    <3>2. CASE rows[i].by # s
      BY <3>1, <3>2, ResolvedFields
    <3>3. CASE rows[i].by = s
      <4>1. /\ new[i].key = rows[i].key /\ new[i].source = rows[i].source /\ new[i].by = s
            /\ new[i].status = (IF StillOpen(s, rows[i]) THEN "OPEN" ELSE "CLOSED")
        BY <3>1, <3>3, ResolvedFields
      <4>2. new[i].status = "CLOSED" => board[s][rows[i].task].done
        BY <4>1 DEF StillOpen
      <4> QED
        BY <3>1, <3>3, <4>1, <4>2
    <3> QED
      BY <3>2, <3>3
  <2> HIDE DEF new
  <2>3. HasRows(s, new)
    BY <2>1, <2>2 DEF HasRows
  <2> QED
    BY <1>1, <2>1, <2>2, <2>3, WriteThenTurns
<1>8. CASE Seed(s)
  <2>1. pc'[s] \in {"work", "plant"} /\ rows' = rows /\ mem'[s] = rows
    BY <1>1, <1>8 DEF Seed, Goto, files
  <2> QED
    BY <2>1 DEF TurnInv, Edited
<1>9. ASSUME NEW i \in todo[s], Plant(s, i) PROVE TurnInv(s)'
  <2>1. pc[s] = "plant" /\ Edited(s) /\ i \in DOMAIN mem[s]
    BY <1>9 DEF Plant, TurnInv, SeedInv, Planting
  <2>2. /\ DOMAIN mem'[s] = DOMAIN mem[s] /\ mem'[s][i].status = "CONSUMED" /\ mem'[s][i].key = mem[s][i].key
        /\ \A j \in DOMAIN mem[s] : j # i => mem'[s][j] = mem[s][j]
        /\ \A t \in DOMAIN board[s] : board'[s][t] = board[s][t]
    BY <1>9, <2>1, PlantSound
  <2>3. mem'[s][i].source = mem[s][i].source
    <3> DEFINE row == mem[s][i]
               n == Len(board[s]) + 1
    <3>1. mem'[s][i] = Planted(s, row)
      BY <1>1, <1>9, <2>1 DEF Plant
    <3>2. row \in Row
      BY <1>1, <2>1
    <3> HIDE DEF row
    <3>3. Planted(s, row).source = row.source
      BY <3>2 DEF Planted, Row
    <3> QED
      BY <3>1, <3>3 DEF row
  <2>4. /\ rows' = rows /\ UNCHANGED <<gaps, tmp>>
        /\ (pc'[s] = "write" /\ after'[s] = "work") \/ pc'[s] = "plant"
    BY <1>1, <1>9, <2>1 DEF Plant, Goto
  <2>5. ASSUME NEW j \in DOMAIN rows
        PROVE  /\ j \in DOMAIN mem'[s] /\ mem'[s][j].key = rows[j].key /\ mem'[s][j].source = rows[j].source
               /\ mem'[s][j].status # rows[j].status /\ mem'[s][j].status # "CONSUMED" =>
                    /\ rows[j].by = s /\ mem'[s][j].by = s
                    /\ mem'[s][j].status = "CLOSED" => board'[s][rows[j].task].done
    <3>1. j \in DOMAIN mem[s] /\ mem[s][j].key = rows[j].key /\ mem[s][j].source = rows[j].source
      BY <2>1 DEF Edited
    <3>2. CASE j = i
      BY <2>2, <2>3, <3>1, <3>2
    <3>3. CASE j # i
      <4>1. mem'[s][j] = mem[s][j]
        BY <2>2, <3>1, <3>3
      <4>2. ASSUME mem[s][j].status # rows[j].status, mem[s][j].status # "CONSUMED"
            PROVE  /\ rows[j].by = s /\ mem[s][j].by = s
                   /\ mem[s][j].status = "CLOSED" => board'[s][rows[j].task].done
        <5>1. /\ rows[j].by = s /\ mem[s][j].by = s
              /\ mem[s][j].status = "CLOSED" => board[s][rows[j].task].done
          BY <2>1, <4>2 DEF Edited
        <5>2. rows[j].task \in DOMAIN board[s]
          BY <1>1, <5>1, GapAssumption DEF Sound, Backed
        <5> QED
          BY <2>2, <5>1, <5>2
      <4> QED
        BY <2>2, <3>1, <4>1, <4>2
    <3> QED
      BY <3>2, <3>3
  <2> QED
    BY <2>4, <2>5 DEF TurnInv, Edited
<1> QED
  BY <1>2, <1>3, <1>4, <1>5, <1>6, <1>7, <1>8, <1>9 DEF Step

LEMMA StepAlone ==
  ASSUME IInv, NEW s \in Sessions, Step(s)
  PROVE  AloneInv'
<1>1. SUFFICES ASSUME alone PROVE AloneInv'
  <2>1. alone' = alone
    BY DEF Step, Begin, Resume, Write, Replace, ReplaceFails, Record, Seed, RecordVerified, Resolve, Plant, Work,
           Verify, FollowUp, Finish, Crash, bounds
  <2> QED
    BY <2>1 DEF AloneInv
<1>2. ASSUME NEW r \in Sessions, r # s PROVE pc'[r] = "idle"
  <2>1. pc'[r] = pc[r]
    BY <1>2, Alone DEF IInv
  <2>2. CASE Begin(s) \/ Resume(s)
    <3>1. Active = {}
      BY <1>1, <2>2 DEF Begin, Resume
    <3> QED
      BY <2>1, <3>1 DEF Active
  <2>3. CASE ~ (Begin(s) \/ Resume(s))
    <3>1. pc[s] # "idle"
      BY <2>3 DEF Step, Write, Replace, ReplaceFails, Record, Seed, RecordVerified, Resolve, Plant, Work, Verify,
                  FollowUp, Finish, Crash
    <3> QED
      BY <1>1, <1>2, <2>1, <3>1 DEF IInv, AloneInv
  <2> QED
    BY <2>2, <2>3
<1>3. TurnInv(s)'
  BY <1>1, StepTurns DEF IInv, PlantInv, AloneInv
<1>4. ASSUME NEW r \in Sessions PROVE TurnInv(r)'
  <2>1. CASE r = s
    BY <1>3, <2>1
  <2>2. CASE r # s
    BY <1>2, <2>2 DEF TurnInv
  <2> QED
    BY <2>1, <2>2
<1> QED
  BY <1>2, <1>4 DEF AloneInv

LEMMA StepKept ==
  ASSUME IInv, NEW s \in Sessions, Step(s)
  PROVE  KeptInv'
<1>1. crashes' \in Nat /\ (crashes' = 0 => crashes = 0 /\ ~ Crash(s))
  <2>1. CASE Crash(s)
    BY <2>1 DEF IInv, KeptInv, Crash
  <2>2. CASE ~ Crash(s)
    <3>1. crashes' = crashes
      BY <2>2 DEF Step, Begin, Resume, Write, Replace, ReplaceFails, Record, Seed, RecordVerified, Resolve, Plant,
                  Work, Verify, FollowUp, Finish, bounds
    <3> QED
      BY <2>2, <3>1 DEF IInv, KeptInv
  <2> QED
    BY <2>1, <2>2
<1>2. alone' = alone
  BY DEF Step, Begin, Resume, Write, Replace, ReplaceFails, Record, Seed, RecordVerified, Resolve, Plant, Work,
         Verify, FollowUp, Finish, Crash, bounds
<1>3. SUFFICES ASSUME alone, crashes' = 0, NEW r \in Sessions PROVE Kept(r)'
  BY <1>1, <1>2 DEF KeptInv
<1>4. Kept(r) /\ TurnInv(s) /\ TurnInv(s)' /\ (pc[s] # "idle" => ~ Begin(s))
  BY <1>1, <1>3, StepTurns DEF IInv, KeptInv, AloneInv, PlantInv, SeedInv, Begin
<1>5. /\ pc \in [Sessions -> PC] /\ after \in [Sessions -> Returns] /\ mem \in [Sessions -> Seq(Row)]
      /\ gaps \in [Sessions -> SUBSET Keys]
  BY DEF IInv, LedgerInv, Typed
<1>6. CASE Replace(s)
  <2>1. /\ pc[s] = "replace" /\ rows' = Head(tmp) /\ tmp = <<mem[s]>> /\ UNCHANGED gaps /\ Edited(s)
        /\ after[s] = "resolve" => HasRows(s, mem[s])
    BY <1>4, <1>6 DEF Replace, TurnInv
  <2>2. rows' = mem[s]
    BY <2>1
  <2>3. HasRows(r, rows) => HasRows(r, rows)'
    BY <2>1, <2>2 DEF HasRows, Edited
  <2>4. CASE r = s
    BY <1>4, <2>1, <2>2, <2>3, <2>4 DEF HasRows, Kept
  <2>5. CASE r # s
    BY <1>4, <2>3, <2>5, Alone DEF IInv, Kept
  <2> QED
    BY <2>4, <2>5
<1>7. ASSUME NEW found \in GapSets, NEW judged, Verify(s, found, judged) PROVE Kept(r)'
  <2>1. rows' = rows /\ pc'[s] = "append"
    BY <1>5, <1>7 DEF Verify, Goto
  <2>2. r # s => pc'[r] = pc[r] /\ after'[r] = after[r] /\ gaps'[r] = gaps[r]
    BY Alone DEF IInv
  <2> QED
    BY <1>4, <2>1, <2>2 DEF HasRows, Kept
<1>8. CASE ~ Replace(s) /\ ~ (\E found \in GapSets, judged \in [DOMAIN board[s] -> Verdict] : Verify(s, found, judged))
  <2>1. UNCHANGED <<rows, gaps>>
    BY <1>8 DEF Step, Begin, Resume, Write, ReplaceFails, Record, Seed, RecordVerified, Resolve, Plant, Work, FollowUp,
                Finish, Crash, files
  <2>2. HasRows(r, rows) => HasRows(r, rows)'
    BY <2>1 DEF HasRows
  <2>3. ASSUME r = s, pc[s] = "append" PROVE HasRows(s, rows)' \/ (pc'[s] = "write" /\ after'[s] = "resolve")
    <3>1. RecordVerified(s)
      BY <1>1, <1>3, <1>4, <1>8, <2>3 DEF Step, Resume, Write, ReplaceFails, Record, Seed, Resolve, Plant, Work,
                                    FollowUp, Finish
    <3>2. (pc'[s] = "write" /\ after'[s] = "resolve") \/ pc'[s] = "resolve"
      BY <1>5, <3>1 DEF RecordVerified, AppendGaps, WriteThen, Goto
    <3> QED
      BY <1>4, <3>2 DEF TurnInv
  <2>4. ASSUME r = s, pc[s] \in {"write", "replace"}, after[s] = "resolve" PROVE pc'[s] = "replace" /\ after'[s] = "resolve"
    <3>1. Write(s) \/ ReplaceFails(s)
      BY <1>1, <1>3, <1>4, <1>8, <2>4 DEF Step, Resume, Record, Seed, RecordVerified, Resolve, Plant, Work, FollowUp,
                                    Finish
    <3>2. ~ ReplaceFails(s)
      BY <1>4 DEF ReplaceFails, TurnInv
    <3> QED
      BY <1>5, <2>4, <3>1, <3>2 DEF Write, Goto
  <2>5. CASE r # s
    BY <1>4, <2>2, <2>5, Alone DEF IInv, Kept
  <2> QED
    BY <1>4, <2>2, <2>3, <2>4, <2>5 DEF Kept
<1> QED
  BY <1>6, <1>7, <1>8

-----------------------------------------------------------------------------

LEMMA InitHolds ==
  ASSUME Init
  PROVE  IInv
<1>1. LedgerInv
  <2>1. Typed
    BY DEF Init, Typed, PC, Returns
  <2>2. RowsInv
    BY EmptySound DEF Init, RowsInv
  <2> QED
    BY <2>1, <2>2 DEF LedgerInv
<1>2. PlantInv
  <2>1. ASSUME NEW s \in Sessions PROVE SeedInv(s)
    <3>1. board[s] = <<>> /\ pc[s] = "idle" /\ Len(board[s]) = 0 /\ DOMAIN board[s] = {} /\ MaxGapSeeds \in Nat
      BY GapAssumption DEF Init
    <3> QED
      BY <3>1 DEF SeedInv
  <2> QED
    BY <2>1 DEF PlantInv
<1>3. AloneInv /\ KeptInv
  BY DEF Init, AloneInv, TurnInv, KeptInv, Kept, HasRows
<1> QED
  BY <1>1, <1>2, <1>3 DEF IInv

LEMMA StepHolds ==
  ASSUME IInv, [Next]_vars
  PROVE  IInv'
<1>1. ASSUME NEW s \in Sessions, Step(s) PROVE IInv'
  <2>1. LedgerInv'
    BY <1>1, StepSound DEF IInv, PlantInv
  <2>2. ASSUME NEW r \in Sessions PROVE SeedInv(r)'
    <3>1. CASE r = s
      BY <1>1, <3>1, StepPlants DEF IInv, PlantInv
    <3>2. CASE r # s
      <4>1. /\ pc'[r] = pc[r] /\ after'[r] = after[r] /\ mem'[r] = mem[r] /\ todo'[r] = todo[r]
            /\ board'[r] = board[r] /\ (r \in begun' <=> r \in begun)
        BY <1>1, <3>2, Alone DEF IInv
      <4>2. SeedInv(r)
        BY DEF IInv, PlantInv
      <4> QED
        BY <4>1, <4>2 DEF SeedInv, Planting
    <3> QED
      BY <3>1, <3>2
  <2>3. AloneInv' /\ KeptInv'
    BY <1>1, StepAlone, StepKept
  <2> QED
    BY <2>1, <2>2, <2>3 DEF IInv, PlantInv
<1>2. CASE UNCHANGED vars
  <2>1. UNCHANGED <<rows, tmp, board, gaps, begun, pc, mem, after, todo, crashes, alone>>
    BY <1>2 DEF vars, files, bounds
  <2>2. LedgerInv'
    BY <2>1 DEF IInv, LedgerInv, Typed, RowsInv
  <2>3. PlantInv' /\ AloneInv' /\ KeptInv'
    BY <2>1 DEF IInv, PlantInv, SeedInv, Planting, AloneInv, TurnInv, KeptInv, Kept, Edited, HasRows
  <2> QED
    BY <2>2, <2>3 DEF IInv
<1> QED
  BY <1>1, <1>2 DEF Next

\* The invariant holds in every state.
THEOREM Invariance == Spec => []IInv
BY InitHolds, StepHolds, PTL DEF Spec

\* However many processes share the file, a gap of a session has one row.
THEOREM RowsAreUnique == Spec => []OccurrencesAreUnique
<1>1. IInv => OccurrencesAreUnique
  BY DEF IInv, LedgerInv, RowsInv, Sound, Unique, OccurrencesAreUnique
<1> QED
  BY <1>1, Invariance, PTL

\* A claimed row names a task of its claimant that was planted for it, and no task is
\* named twice, although processes overwrite each other's rows.
THEOREM ClaimsHold == Spec => []ClaimsAreBacked
<1>1. IInv => ClaimsAreBacked
  BY DEF IInv, LedgerInv, RowsInv, Sound, Backed, ClaimsAreBacked
<1> QED
  BY <1>1, Invariance, PTL

\* In its whole life a session plants at most MaxGapSeeds tasks, of different profiles.
THEOREM PlantsHold == Spec => []PlantsAreBounded
<1>1. IInv => PlantsAreBounded
  BY DEF IInv, PlantInv, SeedInv, ProfileOf, PlantsAreBounded
<1> QED
  BY <1>1, Invariance, PTL

\* Where processes run one at a time, a process that has verified and come past the
\* recording has a row for each of its gaps, through any number of resumes and kills
\* before; and as long as no process is killed, so has every session that is over and
\* every process that reuses a verification on file.
THEOREM RecurrencesHold == Spec => []RecurrencesAreRecorded
<1>1. IInv => RecurrencesAreRecorded
  BY DEF IInv, AloneInv, TurnInv, KeptInv, Kept, HasRows, RecurrencesAreRecorded
<1> QED
  BY <1>1, Invariance, PTL

\* Where processes run one at a time a row is closed by the session that planted it,
\* after its task.
THEOREM ClosingHolds == Spec => ClosedByItsPlanter
<1> DEFINE Closing ==
      \A i \in DOMAIN rows :
        alone /\ rows'[i].status # rows[i].status /\ rows'[i].status # "CONSUMED" =>
          /\ rows[i].by # None /\ pc[rows[i].by] = "replace"
          /\ rows'[i].by = rows[i].by
          /\ rows'[i].status = "CLOSED" => board[rows[i].by][rows[i].task].done
<1>1. ASSUME IInv, [Next]_vars PROVE [Closing]_vars
  <2>1. CASE UNCHANGED vars
    BY <2>1
  <2>2. ASSUME NEW s \in Sessions, Step(s) PROVE Closing
    <3>1. SUFFICES ASSUME alone, NEW i \in DOMAIN rows, rows'[i].status # rows[i].status,
                          rows'[i].status # "CONSUMED"
                   PROVE  /\ rows[i].by # None /\ pc[rows[i].by] = "replace" /\ rows'[i].by = rows[i].by
                          /\ rows'[i].status = "CLOSED" => board[rows[i].by][rows[i].task].done
      OBVIOUS
    <3>2. Replace(s)
      BY <2>2, <3>1 DEF Step, Begin, Resume, Write, ReplaceFails, Record, Seed, RecordVerified, Resolve, Plant, Work,
                        Verify, FollowUp, Finish, Crash, files
    <3>3. pc[s] = "replace" /\ rows' = Head(tmp) /\ tmp = <<mem[s]>> /\ Edited(s)
      BY <1>1, <3>1, <3>2 DEF Replace, IInv, AloneInv, TurnInv
    <3>4. rows' = mem[s]
      BY <3>3
    <3> QED
      BY <3>1, <3>3, <3>4, GapAssumption DEF Edited
  <2> QED
    BY <1>1, <2>1, <2>2 DEF Next
<1> QED
  BY <1>1, Invariance, PTL DEF Spec, ClosedByItsPlanter
=============================================================================

-------------------------- MODULE AuditChainProofs --------------------------
(***************************************************************************)
(* Theorems about AuditChain, for every set of requests and of retention   *)
(* jobs, every batch size and every bound.                                 *)
(***************************************************************************)
EXTENDS AuditChain, SequenceTheorems, FiniteSetTheorems, WellFoundedInduction, TLAPS

Request == [pc : {"idle", "tail", "insert"}, top : Nat, tail : Nat,
            prev : Seq(Nat \X BOOLEAN), at : Nat, fresh : BOOLEAN]
Cleanup == [pc : {"idle", "archive", "write", "rename", "delete", "next"},
            cutoff : Nat, batch : SUBSET Nat, second : Nat,
            handle : {"none", "tmp", "final", "gone"}, whole : BOOLEAN]

----------------------------------------------------------------------------
(* The inductive invariant *)

\* A row has an id that was given out, and a time that is over.
RowsAreOld == \A x \in rows : x.id \in 1 .. lastId /\ x.created < now

\* A row nobody has touched says what was recorded, and its hash is that of it.
HashesAreKept ==
    \A y \in rows : y.hashed /\ y.id \notin edits =>
        y.text /\ y.entry = ComputeEntryHash(y.prev, y.id, y.text)

\* What a transaction has read, while its reads are not out of date.
ReadsOK ==
    \A r \in Requests :
        /\ req[r].pc = "insert" => req[r].at < now
        /\ req[r].fresh /\ req[r].pc = "tail" => req[r].top = lastId
        /\ req[r].fresh /\ req[r].pc = "insert" =>
             /\ req[r].prev = LastHashed(lastId).entry
             /\ \A x \in rows : x.created < req[r].at

\* One writer at a time: the times of the rows grow with their ids.
TimesInOrder ==
    dialect = "sqlite" => \A x, y \in rows : x.id < y.id => x.created < y.created

\* So a batch, which is chosen by time, has no older row left beside it.
OldestFirst ==
    dialect = "sqlite" =>
        \A c \in Cleaners : \A b \in clean[c].batch :
            \A x \in rows : x.id < b => x.id \in clean[c].batch
BatchesAreOld == \A c \in Cleaners : clean[c].batch \subseteq 1 .. lastId

\* Two jobs write files of one name only where that is on record, ...
Alone ==
    \A c, d \in Cleaners : c # d /\ c \in Writing(Name(d)) /\ clean[d].pc \in {"write", "rename"}
        => clean[d].batch \subseteq clashed

\* ... so a job that is alone has its temporary file, whole once it is written, ...
HoldsWhole ==
    \A c \in Cleaners :
        /\ clean[c].pc \in {"write", "rename"} =>
             clean[c].handle = "tmp" \/ clean[c].batch \subseteq clashed
        /\ clean[c].pc = "rename" => clean[c].whole \/ clean[c].batch \subseteq clashed

\* ... and what a job with an archive is about to delete is in it.
ArchivedFirst ==
    archiver # "none" => \A c \in Cleaners : clean[c].pc = "delete" =>
        clean[c].batch \subseteq Archived \cup clashed

\* A hash that holds nothing but what was recorded, each after the row that was
\* the last one then.
Genuine(s) ==
    \A k \in 1 .. Len(s) :
        /\ s[k][1] \in 1 .. lastId /\ s[k][2] = TRUE
        /\ k > 1 => before[s[k][1]] = s[k - 1][1]

\* So is the hash of a row that was recorded before a row was touched, and was
\* not touched itself.
GenuineRows ==
    /\ sealed \in 0 .. lastId /\ (edits = {} => sealed = lastId)
    /\ dialect = "sqlite" => \A y \in rows :
         y.hashed /\ y.id <= sealed /\ y.id \notin edits => Genuine(y.entry)

ChainInv ==
    /\ TypeOK /\ RowsAreOld /\ HashesAreKept /\ ReadsOK /\ TimesInOrder
    /\ OldestFirst /\ BatchesAreOld /\ Alone /\ HoldsWhole /\ ArchivedFirst /\ GenuineRows
    /\ NothingLost /\ SerialWritersVerify

----------------------------------------------------------------------------
(* The newest row of a set *)

Below == {p \in Nat \X Nat : p[1] < p[2]}

\* There is no infinite descent in the natural numbers.
LEMMA BelowIsWellFounded == IsWellFoundedOn(Below, Nat)
BY NatLessThanWellFounded DEF OpToRel, Below

\* A set of numbers that has a bound has a greatest one.
LEMMA Greatest ==
  ASSUME NEW n \in Nat, NEW T \in SUBSET (0 .. n), T # {}
  PROVE  \E x \in T : \A y \in T : y <= x
<1> DEFINE U == {n - x : x \in T}
<1>1. U \subseteq Nat /\ U # {}
  OBVIOUS
<1>2. PICK u \in U : \A y \in U : ~(<<y, u>> \in Below)
  BY <1>1, BelowIsWellFounded, WFMin, Zenon
<1>3. PICK x \in T : u = n - x
  OBVIOUS
<1>4. ASSUME NEW y \in T PROVE y <= x
  <2>1. n - y \in U /\ n - y \in Nat /\ u \in Nat
    BY <1>1
  <2>2. ~(n - y < u)
    BY <1>2, <2>1 DEF Below
  <2> QED BY <1>3, <2>2
<1> QED BY <1>4

\* ORDER BY id DESC LIMIT 1 returns the row with the greatest id.
LEMMA NewestIsLast ==
  ASSUME TypeOK, RowsAreOld, NEW S \in SUBSET rows, S # {}
  PROVE  /\ Newest(S) \in S
         /\ \A y \in S : y.id <= Newest(S).id
<1> DEFINE T == {x.id : x \in S}
<1>1. T \in SUBSET (0 .. lastId) /\ T # {} /\ lastId \in Nat
  BY DEF TypeOK, RowsAreOld
<1>2. PICK n \in T : \A y \in T : y <= n
  BY <1>1, Greatest
<1>3. PICK x \in S : x.id = n
  BY <1>2
<1>4. \A y \in S : y.id <= x.id
  BY <1>2, <1>3
<1> QED BY <1>4 DEF Newest

\* What is appended is the last element.
LEMMA AppendEnds ==
  ASSUME NEW S, NEW seq \in Seq(S), NEW e \in S, NEW s, s = Append(seq, e)
  PROVE  /\ s \in Seq(S) /\ Len(seq) \in Nat /\ Len(s) = Len(seq) + 1 /\ s[Len(s)] = e
         /\ \A k \in 1 .. Len(seq) : s[k] = seq[k]
BY AppendProperties, LenProperties

LEMMA HashIsHash ==
  ASSUME NEW prev \in Seq(Nat \X BOOLEAN), NEW id \in Nat, NEW text \in BOOLEAN
  PROVE  ComputeEntryHash(prev, id, text) \in Seq(Nat \X BOOLEAN)
<1> DEFINE e == <<id, text>>
           S == Nat \X BOOLEAN
           s == Append(prev, e)
<1>1. e \in S /\ prev \in Seq(S)
  OBVIOUS
<1> HIDE DEF e, S
<1>2. s \in Seq(S)
  BY <1>1, AppendEnds
<1> QED BY <1>2 DEF ComputeEntryHash, e, S

\* The hash of a row is one longer than the one before, and ends in the row.
LEMMA HashEndsInRow ==
  ASSUME NEW x \in Row, x.entry = ComputeEntryHash(x.prev, x.id, x.text)
  PROVE  /\ Len(x.prev) \in Nat /\ Len(x.entry) = Len(x.prev) + 1
         /\ x.entry[Len(x.entry)][1] = x.id
         /\ x.entry[Len(x.entry)][2] = TRUE <=> x.text
         /\ \A k \in 1 .. Len(x.prev) : x.entry[k] = x.prev[k]
<1> DEFINE e == <<x.id, x.text>>
           S == Nat \X BOOLEAN
<1>1. x.id \in Nat /\ x.text \in BOOLEAN /\ x.prev \in Seq(S)
  BY DEF Row
<1>2. e \in S /\ e[1] = x.id /\ (e[2] = TRUE <=> x.text)
  BY <1>1
<1>3. x.entry = Append(x.prev, e)
  BY DEF ComputeEntryHash
<1> HIDE DEF e, S
<1>4. /\ Len(x.prev) \in Nat /\ Len(x.entry) = Len(x.prev) + 1 /\ x.entry[Len(x.entry)] = e
      /\ \A k \in 1 .. Len(x.prev) : x.entry[k] = x.prev[k]
  BY <1>1, <1>2, <1>3, AppendEnds
<1> QED BY <1>2, <1>4

\* What chainTail returns: genesis, or the hash of a hashed row.
LEMMA TailOfChain ==
  ASSUME TypeOK, RowsAreOld, NEW top \in Nat
  PROVE  /\ LastHashed(top).id \in Nat
         /\ LastHashed(top).entry \in Seq(Nat \X BOOLEAN)
         /\ \/ LastHashed(top).entry = Genesis
            \/ \E x \in rows : /\ x.hashed /\ x.id = LastHashed(top).id
                               /\ x.entry = LastHashed(top).entry
<1>1. CASE Hashed(top) = {}
  <2>1. << >> \in Seq(Nat \X BOOLEAN)
    BY EmptySeq
  <2>2. LastHashed(top) = [id |-> 0, entry |-> << >>]
    BY <1>1 DEF LastHashed, Genesis
  <2> QED BY <2>1, <2>2 DEF Genesis
<1>2. CASE Hashed(top) # {}
  <2> DEFINE x == Newest(Hashed(top))
  <2>1. Hashed(top) \in SUBSET rows
    BY DEF Hashed
  <2>2. x \in Hashed(top)
    BY <1>2, <2>1, NewestIsLast, Zenon
  <2>3. x \in rows /\ x.hashed /\ x \in Row
    BY <2>2 DEF Hashed, TypeOK
  <2> HIDE DEF x
  <2>4. x.id \in Nat /\ x.entry \in Seq(Nat \X BOOLEAN)
    BY <2>3 DEF Row
  <2>5. LastHashed(top) = [id |-> x.id, entry |-> x.entry]
    BY <1>2 DEF LastHashed, x
  <2> QED BY <2>3, <2>4, <2>5
<1> QED BY <1>1, <1>2

----------------------------------------------------------------------------
(* Steps of Record that leave the table alone *)

LEMMA SameTail ==
  ASSUME UNCHANGED <<rows, lastId>>
  PROVE  LastHashed(lastId)' = LastHashed(lastId)
BY DEF LastHashed, Hashed

\* What the invariant says beside ReadsOK is about the table and the jobs.
LEMMA ReadsOnly ==
  ASSUME ChainInv, now' \in Nat, now' >= now,
         UNCHANGED <<config, rows, lastId, clean, cold, before, sealed, edits, clashed>>,
         req' \in [Requests -> Request], ReadsOK'
  PROVE  ChainInv'
<1> USE DEF ChainInv, dialect, archiver
<1>1. TypeOK'
  BY DEF TypeOK, Request
<1>2. RowsAreOld'
  BY DEF RowsAreOld, TypeOK, Row
<1>3. HashesAreKept'
  BY DEF HashesAreKept
<1>4. TimesInOrder' /\ OldestFirst' /\ BatchesAreOld'
  BY DEF TimesInOrder, OldestFirst, BatchesAreOld
<1>5. /\ ArchivedFirst' /\ NothingLost' /\ HoldsWhole' /\ Alone'
  BY DEF ArchivedFirst, NothingLost, Ids, Archived, HoldsWhole, Alone, Writing, Name, FileName
<1>6. GenuineRows'
  BY DEF GenuineRows, Genuine
<1>7. SerialWritersVerify'
  BY DEF SerialWritersVerify, ChainVerifies, VerifyChain, Broken, Precedes
<1> QED BY <1>1, <1>2, <1>3, <1>4, <1>5, <1>6, <1>7

\* Step: a transaction starts.
LEMMA BeginRecordStep ==
  ASSUME ChainInv, NEW r \in Requests, BeginRecord(r)
  PROVE  ChainInv'
<1> DEFINE new == [pc |-> "tail", top |-> lastId, tail |-> 0, prev |-> Genesis,
                   at |-> 0, fresh |-> TRUE]
<1>1. req \in [Requests -> Request] /\ lastId \in Nat /\ now \in Nat \ {0}
  BY DEF ChainInv, TypeOK, Request
<1>3. req' = [q \in Requests |-> IF q = r THEN new ELSE req[q]]
  BY <1>1 DEF BeginRecord
<1>4. new \in Request
  BY <1>1, EmptySeq DEF Request, Genesis
<1>5. new.pc = "tail" /\ new.top = lastId
  OBVIOUS
<1> HIDE DEF new
<1>6. req' \in [Requests -> Request]
  BY <1>1, <1>3, <1>4
<1>7. UNCHANGED <<config, rows, lastId, now, clean, cold, before, sealed, edits, clashed>>
  BY DEF BeginRecord, hist
<1>8. ReadsOK'
  BY <1>3, <1>5, <1>7, SameTail DEF ChainInv, ReadsOK
<1> QED BY <1>1, <1>6, <1>7, <1>8, ReadsOnly

\* Step: chainTail has its row, and Record its time.
LEMMA ChainTailStep ==
  ASSUME ChainInv, NEW r \in Requests, ChainTail(r)
  PROVE  ChainInv'
<1> DEFINE t == LastHashed(req[r].top)
           new == [pc |-> "insert", top |-> 0, tail |-> t.id, prev |-> t.entry,
                   at |-> now, fresh |-> req[r].fresh]
<1>1. req \in [Requests -> Request] /\ now \in Nat \ {0}
  BY DEF ChainInv, TypeOK, Request
<1>2. req[r].top \in Nat /\ req[r].fresh \in BOOLEAN /\ req[r].pc = "tail"
  BY <1>1 DEF Request, ChainTail
<1>3. req' = [q \in Requests |-> IF q = r THEN new ELSE req[q]]
  BY <1>1 DEF ChainTail
<1>4. t.id \in Nat /\ t.entry \in Seq(Nat \X BOOLEAN)
  BY <1>2, TailOfChain DEF ChainInv
<1>5. UNCHANGED <<config, rows, lastId, clean, cold, before, sealed, edits, clashed>> /\ now' = now + 1
  BY DEF ChainTail, hist
<1>6. ReadsOK'
  <2>1. ASSUME NEW q \in Requests, q # r
        PROVE  /\ req'[q].pc = "insert" => req'[q].at < now'
               /\ req'[q].fresh /\ req'[q].pc = "tail" => req'[q].top = lastId'
               /\ req'[q].fresh /\ req'[q].pc = "insert" =>
                    /\ req'[q].prev = LastHashed(lastId)'.entry
                    /\ \A x \in rows' : x.created < req'[q].at
    <3>1. req'[q] = req[q] /\ req[q].at \in Nat
      BY <1>1, <1>3, <2>1 DEF Request
    <3> QED BY <1>1, <1>5, <3>1, SameTail DEF ChainInv, ReadsOK
  <2>2. /\ req'[r].pc = "insert" /\ req'[r].at = now /\ req'[r].prev = t.entry
        /\ req'[r].fresh = req[r].fresh
    BY <1>3
  <2>3. req[r].fresh => t = LastHashed(lastId)
    BY <1>2 DEF ChainInv, ReadsOK
  <2>4. \A x \in rows : x.created < now
    BY DEF ChainInv, RowsAreOld
  <2> HIDE DEF t, new
  <2> QED BY <1>1, <1>5, <2>1, <2>2, <2>3, <2>4, SameTail DEF ReadsOK
<1> HIDE DEF t
<1>7. new \in Request
  BY <1>1, <1>2, <1>4 DEF Request
<1> HIDE DEF new
<1>8. req' \in [Requests -> Request]
  BY <1>1, <1>3, <1>7
<1> QED BY <1>1, <1>5, <1>6, <1>8, ReadsOnly

\* Step: a transaction fails.
LEMMA RecordFailsStep ==
  ASSUME ChainInv, NEW r \in Requests, RecordFails(r)
  PROVE  ChainInv'
<1>1. req \in [Requests -> Request] /\ now \in Nat \ {0}
  BY DEF ChainInv, TypeOK, Request
<1>2. NoRecord \in Request /\ NoRecord.pc = "idle"
  BY EmptySeq DEF Request, Genesis, NoRecord
<1>3. req' = [q \in Requests |-> IF q = r THEN NoRecord ELSE req[q]]
  BY <1>1 DEF RecordFails
<1>4. req' \in [Requests -> Request]
  BY <1>1, <1>2, <1>3
<1>5. UNCHANGED <<config, rows, lastId, now, clean, cold, before, sealed, edits, clashed>>
  BY DEF RecordFails, hist
<1>6. ReadsOK'
  BY <1>2, <1>3, <1>5, SameTail DEF ChainInv, ReadsOK
<1> QED BY <1>1, <1>4, <1>5, <1>6, ReadsOnly

----------------------------------------------------------------------------
(* Steps of the retention job that leave the table alone *)

\* Dropping a file of a name two jobs wrote loses nothing that is not on record.
LEMMA ArchiveKeeps ==
  ASSUME clashed \subseteq clashed',
         \A name \in cold \ cold' : name.ids \subseteq clashed'
  PROVE  Archived \cup clashed \subseteq (Archived \cup clashed)'
BY DEF Archived

LEMMA JobsOnly ==
  ASSUME ChainInv, UNCHANGED <<config, rows, lastId, now, req, before, sealed, edits>>,
         cold' \subseteq FileNames, clashed' \subseteq Nat, clean' \in [Cleaners -> Cleanup],
         Archived \cup clashed \subseteq (Archived \cup clashed)',
         OldestFirst', BatchesAreOld', Alone', HoldsWhole', ArchivedFirst'
  PROVE  ChainInv'
<1> USE DEF ChainInv, dialect, archiver
<1>1. TypeOK'
  BY DEF TypeOK, Cleanup
<1>2. RowsAreOld' /\ HashesAreKept'
  BY DEF RowsAreOld, HashesAreKept
<1>3. ReadsOK'
  BY SameTail DEF ReadsOK
<1>4. TimesInOrder' /\ GenuineRows'
  BY DEF TimesInOrder, GenuineRows, Genuine
<1>5. NothingLost'
  <2> SUFFICES ASSUME archiver # "none", NEW id \in 1 .. lastId
               PROVE  id \in Ids(rows) \cup (Archived \cup clashed)' \cup edits
    BY DEF NothingLost, Ids
  <2>1. id \in Ids(rows) \cup Archived \cup edits \cup clashed
    BY DEF NothingLost
  <2> QED BY <2>1
<1>6. SerialWritersVerify'
  BY DEF SerialWritersVerify, ChainVerifies, VerifyChain, Broken, Precedes
<1> QED BY <1>1, <1>2, <1>3, <1>4, <1>5, <1>6

\* A job that keeps its batch, or drops it, has no newer one.
LEMMA SameBatches ==
  ASSUME ChainInv, UNCHANGED <<config, rows, lastId>>,
         \A c \in Cleaners : clean'[c].batch \in {clean[c].batch, {}}
  PROVE  OldestFirst' /\ BatchesAreOld'
BY DEF ChainInv, OldestFirst, BatchesAreOld, dialect

\* ORDER BY created_at: on SQLite a batch leaves no older row behind.
LEMMA BatchIsOldest ==
  ASSUME ChainInv, NEW cutoff \in Nat, NEW B \in Batches(cutoff)
  PROVE  /\ B \subseteq 1 .. lastId
         /\ dialect = "sqlite" =>
              \A b \in B : \A x \in rows : x.id < b => x.id \in B
<1> DEFINE Expired == {x \in rows : x.created < cutoff}
<1>1. PICK C \in SUBSET Expired :
        B = Ids(C) /\ \A x \in C, y \in Expired \ C : x.created <= y.created
  BY DEF Batches
<1>2. B \subseteq 1 .. lastId
  BY <1>1 DEF ChainInv, RowsAreOld, Ids
<1>3. ASSUME dialect = "sqlite", NEW b \in B, NEW x \in rows, x.id < b PROVE x.id \in B
  <2>1. PICK y \in C : y.id = b
    BY <1>1 DEF Ids
  <2>2. y \in rows /\ y.created < cutoff
    BY <2>1
  <2>3. x.created < y.created
    BY <1>3, <2>1, <2>2 DEF ChainInv, TimesInOrder
  <2>4. x.created \in Nat /\ y.created \in Nat
    BY <2>2 DEF ChainInv, TypeOK, Row
  <2>5. x \in Expired
    BY <2>2, <2>3, <2>4
  <2>6. x \in C
    BY <1>1, <2>1, <2>3, <2>4, <2>5
  <2> QED BY <1>1, <2>6 DEF Ids
<1> QED BY <1>2, <1>3

\* Step: a job reads its first batch, or the next one.
LEMMA NextBatchStep ==
  ASSUME ChainInv, NEW c \in Cleaners, NEW cutoff \in Nat, NextBatch(c, cutoff),
         clean[c].pc \in {"idle", "next"},
         UNCHANGED <<config, rows, lastId, now, req, cold, before, sealed, edits, clashed>>
  PROVE  ChainInv'
<1>1. clean \in [Cleaners -> Cleanup] /\ cold \subseteq FileNames /\ clashed \subseteq Nat /\ lastId \in Nat
  BY DEF ChainInv, TypeOK, Cleanup
<1> DEFINE pc == IF archiver = "none" THEN "delete" ELSE "archive"
           NewJob(B) == IF B = {} THEN NoCleanup ELSE Job(pc, cutoff, B)
<1>2. PICK B \in Batches(cutoff) : clean' = [clean EXCEPT ![c] = NewJob(B)]
  BY DEF NextBatch
<1> DEFINE new == NewJob(B)
<1>3. clean' = [k \in Cleaners |-> IF k = c THEN new ELSE clean[k]]
  BY <1>1, <1>2
<1>4. /\ new.batch = B /\ (archiver # "none" => new.pc # "delete")
      /\ new.pc \notin {"write", "rename"}
  BY DEF NoCleanup, Job
<1>5. /\ B \subseteq 1 .. lastId
      /\ dialect = "sqlite" => \A b \in B : \A x \in rows : x.id < b => x.id \in B
  BY BatchIsOldest
<1>6. new \in Cleanup
  BY <1>1, <1>5 DEF Cleanup, NoCleanup, Job
<1> HIDE DEF new
<1>7. clean' \in [Cleaners -> Cleanup]
  BY <1>1, <1>3, <1>6
<1>8. OldestFirst' /\ BatchesAreOld'
  BY <1>3, <1>4, <1>5 DEF ChainInv, OldestFirst, BatchesAreOld, dialect
<1>9. ArchivedFirst'
  BY <1>3, <1>4 DEF ChainInv, ArchivedFirst, archiver, Archived
<1>10. Alone' /\ HoldsWhole'
  BY <1>1, <1>3, <1>4 DEF ChainInv, Alone, HoldsWhole, Writing, Name, FileName, archiver
<1>11. Archived \cup clashed \subseteq (Archived \cup clashed)'
  BY DEF Archived
<1> QED BY <1>1, <1>7, <1>8, <1>9, <1>10, <1>11, JobsOnly

\* The name of a file is one.
LEMMA NameTyped ==
  ASSUME TypeOK, NEW c \in Cleaners
  PROVE  Name(c) \in FileNames /\ Name(c).ids = clean[c].batch
<1>1. clean[c].second \in Nat /\ clean[c].batch \in SUBSET Nat
  BY DEF TypeOK
<1>2. Name(c) = [dir |-> IF archiver = "own" THEN {c} ELSE Cleaners,
                 second |-> clean[c].second, ids |-> clean[c].batch]
  BY DEF Name, FileName
<1> QED BY <1>1, <1>2 DEF FileNames

\* When a job takes a step with its file, the others go on with theirs, and the
\* file of another changes only where both have one name.
LEMMA OthersStay ==
  ASSUME ChainInv, NEW c \in Cleaners, clean' \in [Cleaners -> Cleanup],
         UNCHANGED <<config, rows, lastId, now, req, before, sealed, edits, clashed>>,
         cold' \subseteq FileNames, Archived \cup clashed \subseteq (Archived \cup clashed)',
         clean'[c].batch \in {clean[c].batch, {}},
         clean'[c].pc = "rename" =>
            /\ clean[c].pc = "write" /\ clean'[c].batch = clean[c].batch
            /\ clean'[c].second = clean[c].second /\ clean'[c].handle = clean[c].handle
            /\ clean'[c].whole,
         clean'[c].pc # "write",
         clean'[c].pc = "delete" /\ archiver # "none" =>
            clean'[c].batch \subseteq (Archived \cup clashed)',
         \A d \in Cleaners \ {c} :
            /\ clean'[d].pc = clean[d].pc /\ clean'[d].batch = clean[d].batch
            /\ clean'[d].second = clean[d].second
            /\ clean'[d].whole = clean[d].whole \/ clean'[d].whole = TRUE
            /\ \/ clean'[d].handle = clean[d].handle
               \/ clean[c].pc = "rename" /\ d \in Writing(Name(c))
  PROVE  ChainInv'
<1>1. clean \in [Cleaners -> Cleanup] /\ clashed \subseteq Nat
  BY DEF ChainInv, TypeOK, Cleanup
<1>2. ASSUME NEW d \in Cleaners, d # c
      PROVE  clean'[d].handle = clean[d].handle \/ clean'[d].batch \subseteq clashed
  <2>1. CASE clean[c].pc = "rename" /\ d \in Writing(Name(c))
    <3>1. c \in Writing(Name(d)) /\ clean[d].pc \in {"write", "rename"}
      BY <2>1 DEF Writing
    <3>2. clean[d].batch \subseteq clashed
      BY <1>2, <3>1 DEF ChainInv, Alone
    <3> QED BY <1>2, <3>2
  <2> QED BY <1>2, <2>1
<1>3. OldestFirst' /\ BatchesAreOld'
  <2>1. \A d \in Cleaners : clean'[d].batch \in {clean[d].batch, {}}
    OBVIOUS
  <2> QED BY <2>1, SameBatches
<1>4. ArchivedFirst'
  <2> SUFFICES ASSUME archiver # "none", NEW d \in Cleaners, clean'[d].pc = "delete"
               PROVE  clean'[d].batch \subseteq (Archived \cup clashed)'
    BY DEF ArchivedFirst, archiver
  <2>1. CASE d = c
    BY <2>1
  <2>2. CASE d # c
    BY <2>2 DEF ChainInv, ArchivedFirst
  <2> QED BY <2>1, <2>2
<1>5. Alone'
  <2>1. \A d \in Cleaners : clean'[d].pc \in {"write", "rename"} =>
          /\ clean[d].pc \in {"write", "rename"} /\ clean'[d].batch = clean[d].batch
          /\ Name(d)' = Name(d)
    BY DEF Name, FileName, archiver
  <2> QED BY <2>1 DEF ChainInv, Alone, Writing
<1>6. HoldsWhole'
  <2>1. ASSUME NEW d \in Cleaners
        PROVE  /\ clean'[d].pc \in {"write", "rename"} =>
                    clean'[d].handle = "tmp" \/ clean'[d].batch \subseteq clashed
               /\ clean'[d].pc = "rename" => clean'[d].whole \/ clean'[d].batch \subseteq clashed
    <3>1. CASE d = c
      BY <3>1 DEF ChainInv, HoldsWhole
    <3>2. CASE d # c
      BY <1>2, <3>2 DEF ChainInv, HoldsWhole
    <3> QED BY <3>1, <3>2
  <2> QED BY <2>1 DEF HoldsWhole
<1> QED BY <1>1, <1>3, <1>4, <1>5, <1>6, JobsOnly

\* Step: a round fails.
LEMMA CleanupFailsStep ==
  ASSUME ChainInv, NEW c \in Cleaners, CleanupFails(c)
  PROVE  ChainInv'
<1>1. clean \in [Cleaners -> Cleanup] /\ cold \subseteq FileNames
  BY DEF ChainInv, TypeOK, Cleanup
<1>2. NoCleanup \in Cleanup /\ NoCleanup.pc = "idle" /\ NoCleanup.batch = {}
  BY DEF NoCleanup, Cleanup, Job
<1>3. clean' = [k \in Cleaners |-> IF k = c THEN NoCleanup ELSE clean[k]]
  BY <1>1 DEF CleanupFails
<1> HIDE DEF NoCleanup
<1>4. clean' \in [Cleaners -> Cleanup]
  BY <1>1, <1>2, <1>3
<1>5. UNCHANGED <<config, rows, lastId, now, req, cold, before, sealed, edits, clashed>>
  BY DEF CleanupFails, hist
<1>6. Archived \cup clashed \subseteq (Archived \cup clashed)'
  BY <1>5 DEF Archived
<1> QED BY <1>1, <1>2, <1>3, <1>4, <1>5, <1>6, OthersStay

\* Step: the rename fails.
LEMMA RenameFailsStep ==
  ASSUME ChainInv, NEW c \in Cleaners, RenameFails(c)
  PROVE  ChainInv'
<1>1. clean \in [Cleaners -> Cleanup] /\ cold \subseteq FileNames
  BY DEF ChainInv, TypeOK, Cleanup
<1>2. NoCleanup \in Cleanup /\ NoCleanup.pc = "idle" /\ NoCleanup.batch = {}
  BY DEF NoCleanup, Cleanup, Job
<1> DEFINE Gone(d) == [clean[d] EXCEPT !.handle = "gone"]
<1>3. /\ clean[c].pc = "rename"
      /\ clean' = [d \in Cleaners |->
                       IF d = c THEN NoCleanup
                       ELSE IF d \in Temporary(Name(c)) THEN Gone(d) ELSE clean[d]]
  BY DEF RenameFails
<1>4. \A d \in Cleaners : /\ Gone(d) \in Cleanup
                          /\ Gone(d).pc = clean[d].pc /\ Gone(d).batch = clean[d].batch
                          /\ Gone(d).second = clean[d].second /\ Gone(d).whole = clean[d].whole
  BY <1>1 DEF Cleanup
<1> HIDE DEF NoCleanup, Gone
<1>5. clean' \in [Cleaners -> Cleanup]
  BY <1>1, <1>2, <1>3, <1>4
<1>6. UNCHANGED <<config, rows, lastId, now, req, cold, before, sealed, edits, clashed>>
  BY DEF RenameFails, hist
<1>7. Archived \cup clashed \subseteq (Archived \cup clashed)'
  BY <1>6 DEF Archived
<1>8. Temporary(Name(c)) \subseteq Writing(Name(c))
  BY DEF Temporary
<1>9. ASSUME NEW d \in Cleaners \ {c}
      PROVE  /\ clean'[d].pc = clean[d].pc /\ clean'[d].batch = clean[d].batch
             /\ clean'[d].second = clean[d].second /\ clean'[d].whole = clean[d].whole
             /\ \/ clean'[d].handle = clean[d].handle
                \/ clean[c].pc = "rename" /\ d \in Writing(Name(c))
  BY <1>3, <1>4, <1>8
<1>10. clean'[c] = NoCleanup
  BY <1>3
<1> QED BY <1>1, <1>2, <1>5, <1>6, <1>7, <1>9, <1>10, OthersStay

\* Step: the temporary file is written.
LEMMA WriteTemporaryStep ==
  ASSUME ChainInv, NEW c \in Cleaners, WriteTemporary(c)
  PROVE  ChainInv'
<1>1. clean \in [Cleaners -> Cleanup] /\ cold \subseteq FileNames
  BY DEF ChainInv, TypeOK, Cleanup
<1> DEFINE Written(d) == [clean[d] EXCEPT !.whole = TRUE]
           new == [clean[c] EXCEPT !.pc = "rename", !.whole = TRUE]
           together == IF clean[c].handle = "tmp" THEN Temporary(Name(c)) ELSE {}
<1>2. /\ clean[c].pc = "write"
      /\ clean' = [d \in Cleaners |-> IF d = c THEN new
                                      ELSE IF d \in together THEN Written(d) ELSE clean[d]]
      /\ cold \subseteq cold' /\ cold' \subseteq cold \cup {Name(c)}
  BY DEF WriteTemporary
<1>3. \A d \in Cleaners : /\ Written(d) \in Cleanup /\ Written(d).pc = clean[d].pc
                          /\ Written(d).batch = clean[d].batch
                          /\ Written(d).second = clean[d].second
                          /\ Written(d).handle = clean[d].handle /\ Written(d).whole = TRUE
  BY <1>1 DEF Cleanup
<1>4. /\ new \in Cleanup /\ new.pc = "rename" /\ new.batch = clean[c].batch
      /\ new.second = clean[c].second /\ new.handle = clean[c].handle /\ new.whole
  BY <1>1 DEF Cleanup
<1> HIDE DEF new, Written, together
<1>5. clean' \in [Cleaners -> Cleanup]
  BY <1>1, <1>2, <1>3, <1>4
<1>6. UNCHANGED <<config, rows, lastId, now, req, before, sealed, edits, clashed>>
  BY DEF WriteTemporary, hist
<1>7. Archived \cup clashed \subseteq (Archived \cup clashed)' /\ cold' \subseteq FileNames
  BY <1>1, <1>2, <1>6, NameTyped DEF Archived, ChainInv
<1>8. ASSUME NEW d \in Cleaners \ {c}
      PROVE  /\ clean'[d].pc = clean[d].pc /\ clean'[d].batch = clean[d].batch
             /\ clean'[d].second = clean[d].second /\ clean'[d].handle = clean[d].handle
             /\ clean'[d].whole = clean[d].whole \/ clean'[d].whole = TRUE
  BY <1>2, <1>3
<1>9. clean'[c] = new
  BY <1>2
<1> QED BY <1>2, <1>4, <1>5, <1>6, <1>7, <1>8, <1>9, OthersStay

\* Step: the temporary file gets its name.  It is whole, unless another job had
\* one of that name open, and that is on record.
LEMMA RenameStep ==
  ASSUME ChainInv, NEW c \in Cleaners, Rename(c)
  PROVE  ChainInv'
<1>1. clean \in [Cleaners -> Cleanup] /\ cold \subseteq FileNames
  BY DEF ChainInv, TypeOK, Cleanup
<1> DEFINE Moved(d) == [clean[d] EXCEPT !.handle = IF @ = "tmp" THEN "final" ELSE "gone"]
           new == Job("delete", clean[c].cutoff, clean[c].batch)
           there == Temporary(Name(c))
           name == Name(c)
<1>2. /\ clean[c].pc = "rename"
      /\ clean' = [d \in Cleaners |-> IF d = c THEN new
                                      ELSE IF d \in Writing(name) THEN Moved(d) ELSE clean[d]]
  BY DEF Rename
<1>3. PICK whole \in IF there = {} THEN BOOLEAN ELSE {clean[d].whole : d \in there} :
        cold' = IF whole THEN cold \cup {name} ELSE cold \ {name}
  BY DEF Rename
<1>4. \A d \in Cleaners : /\ Moved(d) \in Cleanup /\ Moved(d).pc = clean[d].pc
                          /\ Moved(d).batch = clean[d].batch
                          /\ Moved(d).second = clean[d].second
                          /\ Moved(d).whole = clean[d].whole
  BY <1>1 DEF Cleanup
<1>5. new \in Cleanup /\ new.pc = "delete" /\ new.batch = clean[c].batch
  BY <1>1 DEF Cleanup, Job
<1>6. name \in FileNames /\ name.ids = clean[c].batch
  BY NameTyped DEF ChainInv
<1>7. clean[c].batch \subseteq clashed \/ cold' = cold \cup {name}
  <2>1. SUFFICES ASSUME ~(clean[c].batch \subseteq clashed) PROVE cold' = cold \cup {name}
    OBVIOUS
  <2>2. clean[c].handle = "tmp" /\ clean[c].whole = TRUE
    BY <1>1, <1>2, <2>1 DEF ChainInv, HoldsWhole, Cleanup
  <2>3. c \in there
    BY <1>2, <2>2 DEF Temporary, Writing
  <2>4. ASSUME NEW d \in there PROVE d = c
    <3>1. d \in Cleaners /\ d \in Writing(Name(c))
      BY DEF Temporary, Writing
    <3> QED BY <1>2, <2>1, <3>1 DEF ChainInv, Alone
  <2>5. there = {c}
    BY <2>3, <2>4
  <2>6. whole = TRUE
    BY <1>3, <2>2, <2>5
  <2> QED BY <1>3, <2>6
<1>8. UNCHANGED <<config, rows, lastId, now, req, before, sealed, edits, clashed>>
  BY DEF Rename, hist
<1>9. cold' \subseteq cold \cup {name} /\ cold \ {name} \subseteq cold'
  BY <1>3
<1> HIDE DEF new, Moved, name
<1>10. clean' \in [Cleaners -> Cleanup]
  BY <1>1, <1>2, <1>4, <1>5
<1>11. Archived \cup clashed \subseteq (Archived \cup clashed)'
  BY <1>6, <1>7, <1>8, <1>9 DEF Archived
<1>12. clean[c].batch \subseteq (Archived \cup clashed)'
  BY <1>6, <1>7, <1>8 DEF Archived
<1>13. ASSUME NEW d \in Cleaners \ {c}
       PROVE  /\ clean'[d].pc = clean[d].pc /\ clean'[d].batch = clean[d].batch
              /\ clean'[d].second = clean[d].second /\ clean'[d].whole = clean[d].whole
              /\ \/ clean'[d].handle = clean[d].handle
                 \/ clean[c].pc = "rename" /\ d \in Writing(Name(c))
  BY <1>2, <1>4 DEF name
<1>14. clean'[c] = new
  BY <1>2
<1> QED BY <1>1, <1>5, <1>6, <1>8, <1>9, <1>10, <1>11, <1>12, <1>13, <1>14, OthersStay

\* Step: a temporary file is opened.  Where another job has one of that name,
\* what becomes of it is on record.
LEMMA OpenTemporaryStep ==
  ASSUME ChainInv, NEW c \in Cleaners, OpenTemporary(c)
  PROVE  ChainInv'
<1>1. /\ clean \in [Cleaners -> Cleanup] /\ cold \subseteq FileNames /\ clashed \subseteq Nat
      /\ now \in Nat \ {0}
  BY DEF ChainInv, TypeOK, Cleanup
<1> DEFINE second == now \div PerSecond
           name == FileName(c, second)
           new == [pc |-> "write", cutoff |-> clean[c].cutoff, batch |-> clean[c].batch,
                   second |-> second, handle |-> "tmp", whole |-> FALSE]
           Emptied(d) == [clean[d] EXCEPT !.whole = FALSE]
<1>2. second \in Nat
  BY <1>1, AuditAssumption
<1>3. /\ clean[c].pc = "archive"
      /\ clean' = [d \in Cleaners |-> IF d = c THEN new
                                      ELSE IF d \in Temporary(name) THEN Emptied(d) ELSE clean[d]]
      /\ clashed' = IF Writing(name) = {} THEN clashed ELSE clashed \cup clean[c].batch
  BY DEF OpenTemporary
<1>4. \A d \in Cleaners : /\ Emptied(d) \in Cleanup /\ Emptied(d).pc = clean[d].pc
                          /\ Emptied(d).batch = clean[d].batch
                          /\ Emptied(d).second = clean[d].second
                          /\ Emptied(d).handle = clean[d].handle
  BY <1>1 DEF Cleanup
<1>5. /\ new \in Cleanup /\ new.pc = "write" /\ new.batch = clean[c].batch
      /\ new.second = second /\ new.handle = "tmp"
  BY <1>1, <1>2 DEF Cleanup
<1>6. UNCHANGED <<config, rows, lastId, now, req, cold, before, sealed, edits>>
  BY DEF OpenTemporary
<1>7. name.ids = clean[c].batch
  BY DEF FileName
<1>8. Temporary(name) \subseteq Writing(name)
  BY DEF Temporary
<1>9. ASSUME NEW d \in Writing(name)
      PROVE  clean[d].batch = clean[c].batch /\ clean[c].batch \subseteq clashed'
  BY <1>3, <1>7 DEF Writing, Name, FileName
<1> HIDE DEF new, Emptied, second
<1>10. clean' \in [Cleaners -> Cleanup]
  BY <1>1, <1>3, <1>4, <1>5
<1>11. clean'[c] = new /\ clashed \subseteq clashed' /\ clashed' \subseteq Nat
  BY <1>1, <1>3 DEF Cleanup
<1>12. ASSUME NEW d \in Cleaners, d # c
       PROVE  /\ clean'[d].pc = clean[d].pc /\ clean'[d].batch = clean[d].batch
              /\ clean'[d].second = clean[d].second /\ clean'[d].handle = clean[d].handle
              /\ clean'[d].whole = clean[d].whole \/ clean[d].batch \subseteq clashed'
  BY <1>3, <1>4, <1>8, <1>9, <1>12
<1>13. Name(c)' = name /\ \A d \in Cleaners \ {c} : Name(d)' = Name(d)
  BY <1>5, <1>6, <1>11, <1>12 DEF Name, FileName, archiver
<1> HIDE DEF name
<1>14. OldestFirst' /\ BatchesAreOld'
  <2>1. \A d \in Cleaners : clean'[d].batch \in {clean[d].batch, {}}
    BY <1>5, <1>11, <1>12
  <2> QED BY <1>6, <2>1, SameBatches
<1>15. Archived' = Archived
  BY <1>6 DEF Archived
<1>16. ArchivedFirst'
  <2>1. \A d \in Cleaners : clean'[d].pc = "delete" =>
          clean[d].pc = "delete" /\ clean'[d].batch = clean[d].batch
    BY <1>5, <1>11, <1>12
  <2> QED BY <1>6, <1>11, <1>15, <2>1 DEF ChainInv, ArchivedFirst, archiver
<1>17. HoldsWhole'
  <2>1. ASSUME NEW d \in Cleaners
        PROVE  /\ clean'[d].pc \in {"write", "rename"} =>
                    clean'[d].handle = "tmp" \/ clean'[d].batch \subseteq clashed'
               /\ clean'[d].pc = "rename" => clean'[d].whole \/ clean'[d].batch \subseteq clashed'
    <3>1. CASE d = c
      BY <1>5, <1>11, <3>1
    <3>2. CASE d # c
      BY <1>11, <1>12, <3>2 DEF ChainInv, HoldsWhole
    <3> QED BY <3>1, <3>2
  <2> QED BY <2>1 DEF HoldsWhole
<1>18. Alone'
  <2> SUFFICES ASSUME NEW a \in Cleaners, NEW b \in Cleaners, a # b,
                      clean'[a].pc \in {"write", "rename"}, Name(a)' = Name(b)',
                      clean'[b].pc \in {"write", "rename"}
               PROVE  clean'[b].batch \subseteq clashed'
    BY DEF Alone, Writing
  <2>1. CASE a = c
    <3>1. b \in Writing(name)
      BY <1>12, <1>13, <2>1 DEF Writing
    <3> QED BY <1>9, <1>12, <2>1, <3>1
  <2>2. CASE b = c
    <3>1. a \in Writing(name)
      BY <1>12, <1>13, <2>2 DEF Writing
    <3> QED BY <1>5, <1>9, <1>11, <2>2, <3>1
  <2>3. CASE a # c /\ b # c
    <3>1. a \in Writing(Name(b)) /\ clean[b].pc \in {"write", "rename"}
      BY <1>12, <1>13, <2>3 DEF Writing
    <3> QED BY <1>11, <1>12, <2>3, <3>1 DEF ChainInv, Alone
  <2> QED BY <2>1, <2>2, <2>3
<1>19. Archived \cup clashed \subseteq (Archived \cup clashed)'
  BY <1>11, <1>15
<1> QED BY <1>1, <1>6, <1>10, <1>11, <1>14, <1>16, <1>17, <1>18, <1>19, JobsOnly

----------------------------------------------------------------------------
(* Steps that change the table *)

\* After a change of the table no transaction has read what is in it.
LEMMA StaleReads ==
  ASSUME ChainInv, now' = now,
         \/ req' = ReadsAreStale
         \/ \E r \in Requests : req' = [ReadsAreStale EXCEPT ![r] = NoRecord]
  PROVE  req' \in [Requests -> Request] /\ ReadsOK'
<1>1. req \in [Requests -> Request] /\ now \in Nat \ {0}
  BY DEF ChainInv, TypeOK, Request
<1>2. NoRecord \in Request /\ NoRecord.pc = "idle"
  BY EmptySeq DEF Request, Genesis, NoRecord
<1>3. ASSUME NEW r \in Requests
      PROVE  /\ ReadsAreStale[r] \in Request
             /\ ReadsAreStale[r].pc = req[r].pc
             /\ ReadsAreStale[r].at = req[r].at
             /\ ~ReadsAreStale[r].fresh
  BY <1>1 DEF ReadsAreStale, Request
<1>4. ASSUME NEW r \in Requests
      PROVE  /\ req'[r] \in Request
             /\ req'[r] = NoRecord \/ req'[r] = ReadsAreStale[r]
  BY <1>2, <1>3 DEF ReadsAreStale
<1>5. req' \in [Requests -> Request]
  BY <1>4 DEF ReadsAreStale
<1>6. ReadsOK'
  BY <1>1, <1>2, <1>3, <1>4 DEF ReadsOK, ChainInv
<1> QED BY <1>5, <1>6

\* y stands where x did, whatever else of it someone has changed.
SameEntry(x, y) == x.id = y.id /\ x.created = y.created

\* What holds of each row, of two rows, or of a row and a batch survives when
\* rows are changed by hand or taken away and batches are dropped.
LEMMA FewerRows ==
  ASSUME ChainInv, UNCHANGED <<config, lastId, now, before, sealed>>, edits \subseteq edits',
         \A y \in rows' : \E x \in rows : SameEntry(x, y) /\ (y.id \notin edits' => y = x),
         \A c \in Cleaners : clean'[c].batch \in {clean[c].batch, {}}
  PROVE  /\ RowsAreOld' /\ HashesAreKept' /\ TimesInOrder'
         /\ GenuineRows' /\ OldestFirst' /\ BatchesAreOld'
<1> USE DEF ChainInv, SameEntry, dialect
<1>1. RowsAreOld'
  BY DEF RowsAreOld
<1>2. HashesAreKept'
  BY DEF HashesAreKept
<1>3. TimesInOrder'
  BY DEF TimesInOrder
<1>4. GenuineRows'
  BY DEF GenuineRows, Genuine
<1>5. OldestFirst' /\ BatchesAreOld'
  BY DEF OldestFirst, BatchesAreOld
<1> QED BY <1>1, <1>2, <1>3, <1>4, <1>5

\* Taking the oldest rows away makes no row follow on another one than before.
LEMMA OldestGone ==
  ASSUME NEW B, rows' = {x \in rows : x.id \notin B}, rows \subseteq Row,
         \A b \in B : \A x \in rows : x.id < b => x.id \in B,
         VerifyChain
  PROVE  VerifyChain'
<1> SUFFICES ASSUME NEW y \in rows' PROVE ~Broken(y)'
  BY DEF VerifyChain
<1>1. y \in rows /\ ~Broken(y)
  BY DEF VerifyChain
<1>2. ASSUME NEW x \in rows', Precedes(x, y)' PROVE Precedes(x, y) /\ x \in rows
  <2>1. x \in rows /\ x.id < y.id /\ x.id \notin B
    BY <1>2 DEF Precedes
  <2>2. ASSUME NEW z \in rows, x.id < z.id, z.id < y.id PROVE FALSE
    BY <1>2, <2>1, <2>2 DEF Precedes
  <2> QED BY <2>1, <2>2 DEF Precedes
<1> QED BY <1>1, <1>2 DEF Broken

\* Step: the rows of a batch are deleted.
LEMMA DeleteBatchStep ==
  ASSUME ChainInv, NEW c \in Cleaners, DeleteBatch(c)
  PROVE  ChainInv'
<1> DEFINE B == clean[c].batch
           new == IF Cardinality(B) < BatchSize THEN NoCleanup
                  ELSE Job("next", clean[c].cutoff, {})
<1>1. clean \in [Cleaners -> Cleanup] /\ rows \subseteq Row
  BY DEF ChainInv, TypeOK, Cleanup
<1>2. /\ rows' = {x \in rows : x.id \notin B} /\ clean[c].pc = "delete"
      /\ req' = ReadsAreStale
      /\ UNCHANGED <<config, lastId, now, cold, before, sealed, edits, clashed>>
  BY DEF DeleteBatch, hist
<1>3. clean' = [k \in Cleaners |-> IF k = c THEN new ELSE clean[k]]
  BY <1>1 DEF DeleteBatch
<1>4. new \in Cleanup /\ new.batch = {} /\ new.pc \notin {"delete", "write", "rename"}
  BY <1>1 DEF Cleanup, NoCleanup, Job
<1> HIDE DEF new
<1>5. clean' \in [Cleaners -> Cleanup]
  BY <1>1, <1>3, <1>4
<1>6. \A k \in Cleaners : clean'[k].batch \in {clean[k].batch, {}}
  BY <1>3, <1>4
<1>7. rows' \subseteq rows
  BY <1>2
<1>8. \A y \in rows' : \E x \in rows : SameEntry(x, y) /\ (y.id \notin edits' => y = x)
  BY <1>7 DEF SameEntry
<1>9. req' \in [Requests -> Request] /\ ReadsOK'
  BY <1>2, StaleReads
<1>10. TypeOK'
  BY <1>2, <1>5, <1>7, <1>9 DEF ChainInv, TypeOK, Cleanup, Request
<1>11. ArchivedFirst'
  BY <1>2, <1>3, <1>4 DEF ChainInv, ArchivedFirst, archiver, Archived
<1>12. Alone' /\ HoldsWhole'
  BY <1>2, <1>3, <1>4 DEF ChainInv, Alone, HoldsWhole, Writing, Name, FileName, archiver
<1>13. NothingLost'
  <2>1. archiver # "none" => B \subseteq Archived \cup clashed
    BY <1>2 DEF ChainInv, ArchivedFirst
  <2> HIDE DEF B
  <2> QED BY <1>2, <2>1 DEF ChainInv, NothingLost, Ids, archiver, Archived
<1>14. SerialWritersVerify'
  <2>1. dialect = "sqlite" => \A b \in B : \A x \in rows : x.id < b => x.id \in B
    BY DEF ChainInv, OldestFirst
  <2> HIDE DEF B
  <2> QED BY <1>1, <1>2, <2>1, OldestGone
          DEF ChainInv, SerialWritersVerify, ChainVerifies, dialect
<1> QED BY <1>2, <1>6, <1>8, <1>9, <1>10, <1>11, <1>12, <1>13, <1>14, FewerRows DEF ChainInv

\* Who changes a row by hand keeps its place and its time.
LEMMA ChangedIsRow ==
  ASSUME rows \subseteq Row, NEW x \in rows, NEW prev \in Hashes, NEW text \in BOOLEAN,
         NEW y \in Changed(x, prev, text)
  PROVE  y \in Row /\ SameEntry(x, y)
<1> DEFINE Hash == Seq(Nat \X BOOLEAN)
<1>1. x \in Row
  OBVIOUS
<1>2. Hashes \subseteq Hash
  BY EmptySeq DEF Hashes, Row, Genesis
<1>3. x.id \in Nat /\ x.entry \in Hash /\ x.prev \in Hash /\ prev \in Hash /\ x.created \in Nat
  BY <1>1, <1>2 DEF Row
<1>4. ASSUME NEW entry \in Rehashed(x, prev, text),
             y = [x EXCEPT !.text = text, !.hashed = TRUE, !.prev = prev, !.entry = entry]
      PROVE  y \in Row /\ SameEntry(x, y)
  <2>1. ComputeEntryHash(prev, x.id, text) \in Hash
    BY <1>3, HashIsHash
  <2>2. entry \in Hash
    BY <1>3, <2>1 DEF Rehashed
  <2>3. y = [id |-> x.id, text |-> text, hashed |-> TRUE, prev |-> prev, entry |-> entry,
             created |-> x.created]
    BY <1>1, <1>4 DEF Row
  <2> QED BY <1>3, <2>2, <2>3 DEF Row, SameEntry
<1>5. ASSUME y = [x EXCEPT !.text = text, !.hashed = FALSE, !.entry = Genesis]
      PROVE  y \in Row /\ SameEntry(x, y)
  <2>1. Genesis \in Hash
    BY EmptySeq DEF Genesis
  <2>2. y = [id |-> x.id, text |-> text, hashed |-> FALSE, prev |-> x.prev, entry |-> Genesis,
             created |-> x.created]
    BY <1>1, <1>5 DEF Row
  <2> QED BY <1>3, <2>1, <2>2 DEF Row, SameEntry
<1> QED BY <1>4, <1>5, Zenon DEF Changed

\* Someone has taken row x by hand, or put another in its place.
LEMMA ByHand ==
  ASSUME ChainInv, NEW x \in rows, edits' = edits \cup {x.id}, req' = ReadsAreStale,
         UNCHANGED <<config, lastId, now, clean, cold, before, sealed, clashed>>,
         \/ rows' = rows \ {x}
         \/ \E y \in Row : SameEntry(x, y) /\ rows' = (rows \ {x}) \cup {y}
  PROVE  ChainInv'
<1>1. rows \subseteq Row /\ edits \subseteq Nat
  BY DEF ChainInv, TypeOK
<1>2. \A y \in rows' : \E z \in rows : SameEntry(z, y) /\ (y.id \notin edits' => y = z)
  BY DEF SameEntry
<1>3. req' \in [Requests -> Request] /\ ReadsOK'
  BY StaleReads
<1>4. TypeOK'
  <2>1. rows' \subseteq Row /\ edits' \subseteq Nat
    BY <1>1 DEF Row
  <2>2. \A y, z \in rows' : y.id = z.id => y = z
    BY DEF ChainInv, TypeOK, SameEntry
  <2> QED BY <1>3, <2>1, <2>2 DEF ChainInv, TypeOK, Request
<1>5. ArchivedFirst' /\ Alone' /\ HoldsWhole'
  BY DEF ChainInv, ArchivedFirst, archiver, Archived, Alone, HoldsWhole, Writing, Name, FileName
<1>6. NothingLost'
  <2>1. Archived' = Archived
    BY DEF Archived
  <2>2. Ids(rows) \subseteq Ids(rows)' \cup {x.id}
    BY DEF Ids
  <2> QED BY <2>1, <2>2 DEF ChainInv, NothingLost, archiver
<1>7. SerialWritersVerify'
  BY DEF SerialWritersVerify, ChainVerifies
<1> QED BY <1>2, <1>3, <1>4, <1>5, <1>6, <1>7, FewerRows DEF ChainInv

\* Step: someone changes a row.
LEMMA EditRowStep ==
  ASSUME ChainInv, NEW x \in rows, EditRow(x)
  PROVE  ChainInv'
<1>1. rows \subseteq Row
  BY DEF ChainInv, TypeOK
<1>2. PICK prev \in Hashes, text \in BOOLEAN :
        \E y \in Changed(x, prev, text) \ {x} : rows' = (rows \ {x}) \cup {y}
  BY Zenon DEF EditRow
<1>3. PICK y \in Changed(x, prev, text) \ {x} : rows' = (rows \ {x}) \cup {y}
  BY <1>2
<1>4. y \in Row /\ SameEntry(x, y)
  BY <1>1, ChangedIsRow, Zenon
<1> QED BY <1>3, <1>4, ByHand DEF EditRow

\* Step: someone removes a row.
LEMMA RemoveRowStep ==
  ASSUME ChainInv, NEW x \in rows, RemoveRow(x)
  PROVE  ChainInv'
BY ByHand DEF RemoveRow

----------------------------------------------------------------------------
(* Step: the row is inserted *)

\* When the last row is hashed, chainTail returns it.
LEMMA LastIsTail ==
  ASSUME TypeOK, RowsAreOld, NEW x \in rows, x.hashed, \A z \in rows : z.id <= x.id
  PROVE  LastHashed(lastId).entry = x.entry
<1>1. lastId \in Nat /\ rows \subseteq Row /\ \A y, z \in rows : y.id = z.id => y = z
  BY DEF TypeOK
<1>2. x \in Hashed(lastId) /\ Hashed(lastId) \in SUBSET rows
  BY DEF Hashed, RowsAreOld
<1>3. Newest(Hashed(lastId)) \in rows /\ x.id <= Newest(Hashed(lastId)).id
  BY <1>2, NewestIsLast
<1>4. Newest(Hashed(lastId)).id <= x.id /\ x.id \in Nat /\ Newest(Hashed(lastId)).id \in Nat
  BY <1>1, <1>3 DEF Row
<1>5. Newest(Hashed(lastId)) = x
  BY <1>1, <1>3, <1>4
<1>6. LastHashed(lastId) = [id |-> x.id, entry |-> x.entry]
  BY <1>2, <1>5 DEF LastHashed
<1> QED BY <1>6

\* Such a record is a row.
LEMMA RowTyped ==
  ASSUME NEW id \in Nat, NEW prev \in Seq(Nat \X BOOLEAN), NEW entry \in Seq(Nat \X BOOLEAN),
         NEW at \in Nat
  PROVE  [id |-> id, text |-> TRUE, hashed |-> TRUE, prev |-> prev, entry |-> entry,
          created |-> at] \in Row
BY DEF Row

\* A genuine hash is genuine for good, and so is what it begins with.
LEMMA GenuineKept ==
  ASSUME lastId \in Nat, lastId' \in Nat, lastId' >= lastId,
         \A id \in 1 .. lastId : before'[id] = before[id],
         NEW s, Genuine(s)
  PROVE  Genuine(s)'
BY DEF Genuine

LEMMA GenuineBegins ==
  ASSUME NEW p, NEW s, Len(p) \in Nat, Len(s) = Len(p) + 1,
         \A k \in 1 .. Len(p) : s[k] = p[k], Genuine(s)
  PROVE  Genuine(p)
<1> SUFFICES ASSUME NEW k \in 1 .. Len(p)
             PROVE  /\ p[k][1] \in 1 .. lastId /\ p[k][2] = TRUE
                    /\ k > 1 => before[p[k][1]] = p[k - 1][1]
  BY DEF Genuine
<1>1. k \in 1 .. Len(s) /\ p[k] = s[k]
  OBVIOUS
<1>2. k > 1 => k - 1 \in 1 .. Len(p) /\ p[k - 1] = s[k - 1]
  OBVIOUS
<1> QED BY <1>1, <1>2 DEF Genuine

LEMMA CreateRowStep ==
  ASSUME ChainInv, NEW r \in Requests, CreateRow(r)
  PROVE  ChainInv'
<1> DEFINE last == LastHashed(lastId)
           ids == 1 .. MaxRows[config]
<1>0. PICK n : n = NewRow(r)
  OBVIOUS
<1>1. /\ req \in [Requests -> Request] /\ now \in Nat \ {0} /\ rows \subseteq Row
      /\ lastId \in Nat /\ lastId + 1 \in ids
      /\ before \in [ids -> Nat] /\ 1 .. lastId \subseteq ids
  <2>1. MaxRows[config] \in Nat
    BY AuditAssumption DEF ChainInv, TypeOK
  <2> QED BY <2>1 DEF ChainInv, TypeOK, Request, CreateRow
<1>2. /\ req[r].pc = "insert" /\ (dialect = "sqlite" => req[r].fresh)
      /\ rows' = rows \cup {n} /\ lastId' = lastId + 1
      /\ req' = [ReadsAreStale EXCEPT ![r] = NoRecord]
      /\ sealed' = IF edits = {} THEN lastId + 1 ELSE sealed
      /\ UNCHANGED <<config, now, clean, cold, edits, clashed>>
  BY <1>0 DEF CreateRow
<1>3. before' = [id \in ids |-> IF id = lastId + 1 THEN last.id ELSE before[id]]
  BY <1>1 DEF CreateRow
<1> HIDE DEF ids
<1>4. last.id \in Nat
  BY <1>1, TailOfChain DEF ChainInv
<1>5. /\ req[r].prev \in Seq(Nat \X BOOLEAN) /\ req[r].at \in Nat /\ req[r].at < now
  BY <1>1, <1>2 DEF Request, ChainInv, ReadsOK
<1>6. dialect = "sqlite" =>
        req[r].prev = last.entry /\ \A x \in rows : x.created < req[r].at
  BY <1>2 DEF ChainInv, ReadsOK
<1>7. /\ n.id = lastId + 1 /\ n.hashed /\ n.text
      /\ n.prev = req[r].prev /\ n.created = req[r].at
  BY <1>0 DEF NewRow
<1>8. n.entry = ComputeEntryHash(n.prev, n.id, TRUE)
  BY <1>0 DEF NewRow
<1>9. n \in Row
  <2> DEFINE i == lastId + 1
             p == req[r].prev
             e == ComputeEntryHash(p, i, TRUE)
  <2>1. i \in Nat /\ p \in Seq(Nat \X BOOLEAN)
    BY <1>1, <1>5
  <2>2. n = [id |-> i, text |-> TRUE, hashed |-> TRUE, prev |-> p, entry |-> e,
             created |-> req[r].at]
    BY <1>0 DEF NewRow
  <2> HIDE DEF i, p
  <2>3. e \in Seq(Nat \X BOOLEAN)
    BY <2>1, HashIsHash
  <2> HIDE DEF e
  <2> QED BY <1>5, <2>1, <2>2, <2>3, RowTyped
<1> HIDE DEF last
<1>10. \A x \in rows : x.id \in 1 .. lastId /\ x.created < now
  BY DEF ChainInv, RowsAreOld
<1>11. req' \in [Requests -> Request] /\ ReadsOK'
  BY <1>2, StaleReads
<1>12. TypeOK'
  <2>1. rows' \subseteq Row /\ \A x, y \in rows' : x.id = y.id => x = y
    BY <1>1, <1>2, <1>7, <1>9, <1>10 DEF ChainInv, TypeOK
  <2>2. before' \in [1 .. MaxRows[config] -> Nat]
    BY <1>1, <1>3, <1>4 DEF ids
  <2>3. sealed' \in Nat
    BY <1>1, <1>2 DEF ChainInv, TypeOK
  <2> QED BY <1>1, <1>2, <1>11, <2>1, <2>2, <2>3 DEF ChainInv, TypeOK, Request
<1>13. RowsAreOld'
  BY <1>1, <1>2, <1>5, <1>7, <1>10 DEF RowsAreOld
<1>14. HashesAreKept'
  BY <1>2, <1>7, <1>8 DEF HashesAreKept, ChainInv
<1>15. TimesInOrder'
  BY <1>1, <1>2, <1>6, <1>7, <1>10 DEF TimesInOrder, ChainInv, dialect
<1>16. OldestFirst' /\ BatchesAreOld'
  BY <1>1, <1>2, <1>7, <1>10 DEF OldestFirst, BatchesAreOld, ChainInv, dialect, archiver
<1>17. ArchivedFirst' /\ Alone' /\ HoldsWhole'
  BY <1>2 DEF ChainInv, ArchivedFirst, archiver, Archived, Alone, HoldsWhole, Writing, Name, FileName
<1>18. GenuineRows'
  <2>1. /\ sealed \in 0 .. lastId /\ (edits = {} => sealed = lastId)
        /\ sealed' \in 0 .. lastId' /\ (edits = {} => sealed' = lastId')
    BY <1>1, <1>2 DEF ChainInv, GenuineRows
  <2>2. \A id \in 1 .. lastId : before'[id] = before[id]
    BY <1>1, <1>3
  <2>3. before'[n.id] = last.id
    BY <1>1, <1>3, <1>7
  <2>4. ASSUME dialect = "sqlite", NEW y \in rows, y.hashed, y.id <= sealed', y.id \notin edits
        PROVE  Genuine(y.entry)'
    <3>1. y.id <= sealed
      BY <1>2, <1>10, <2>1, <2>4
    <3>2. Genuine(y.entry)
      BY <2>4, <3>1 DEF ChainInv, GenuineRows
    <3> QED BY <1>1, <1>2, <2>2, <3>2, GenuineKept
  <2>5. ASSUME dialect = "sqlite", edits = {} PROVE Genuine(n.entry)'
    <3>1. n.prev = last.entry
      BY <1>6, <1>7, <2>5
    <3>2. PICK e : e = n.entry
      OBVIOUS
    <3>3. PICK p : p = last.entry
      OBVIOUS
    <3>4. /\ Len(p) \in Nat /\ Len(e) = Len(p) + 1
          /\ e[Len(e)][1] = n.id /\ e[Len(e)][2] = TRUE
          /\ \A k \in 1 .. Len(p) : e[k] = p[k]
      <4>1. n.entry = ComputeEntryHash(n.prev, n.id, n.text)
        BY <1>7, <1>8
      <4>2. /\ Len(n.prev) \in Nat /\ Len(n.entry) = Len(n.prev) + 1
            /\ n.entry[Len(n.entry)][1] = n.id
            /\ n.entry[Len(n.entry)][2] = TRUE <=> n.text
            /\ \A k \in 1 .. Len(n.prev) : n.entry[k] = n.prev[k]
        BY <1>9, <4>1, HashEndsInRow
      <4>3. p = n.prev /\ e = n.entry
        BY <3>1, <3>2, <3>3
      <4> QED BY <1>7, <4>2, <4>3
    <3>5. Genuine(p)' /\ (Len(p) > 0 => before'[n.id] = p[Len(p)][1])
      <4>1. CASE p = Genesis
        <5>1. Len(p) = 0
          BY <4>1, EmptySeq DEF Genesis
        <5> QED BY <5>1 DEF Genuine
      <4>2. CASE p # Genesis
        <5>1. PICK x \in rows : x.hashed /\ x.id = last.id /\ x.entry = p
          BY <1>1, <3>3, <4>2, TailOfChain DEF ChainInv, last
        <5>2. x.id \in 1 .. lastId /\ x.id <= sealed /\ x.id \notin edits
          BY <1>10, <2>1, <2>5
        <5>3. Genuine(p)
          BY <2>5, <5>1, <5>2 DEF ChainInv, GenuineRows
        <5>4. x.text /\ x.entry = ComputeEntryHash(x.prev, x.id, x.text)
          BY <5>1, <5>2 DEF ChainInv, HashesAreKept
        <5>5. x \in Row
          BY <1>1
        <5>6. p[Len(p)][1] = x.id
          BY <5>1, <5>4, <5>5, HashEndsInRow
        <5>7. Genuine(p)'
          BY <1>1, <1>2, <2>2, <5>3, GenuineKept
        <5> QED BY <2>3, <5>1, <5>6, <5>7
      <4> QED BY <4>1, <4>2
    <3>6. e[Len(e)][1] \in 1 .. lastId' /\ e[Len(e)][2] = TRUE
      BY <1>1, <1>2, <1>7, <3>4
    <3>7. ASSUME NEW k \in 1 .. Len(e)
          PROVE  /\ e[k][1] \in 1 .. lastId' /\ e[k][2] = TRUE
                 /\ k > 1 => before'[e[k][1]] = e[k - 1][1]
      <4>1. CASE k = Len(e)
        <5>1. k > 1 => k - 1 = Len(p) /\ Len(p) \in 1 .. Len(p) /\ Len(p) > 0
          BY <3>4, <4>1
        <5> QED BY <3>4, <3>5, <3>6, <4>1, <5>1
      <4>2. CASE k # Len(e)
        <5>1. k \in 1 .. Len(p) /\ e[k] = p[k]
          BY <3>4, <4>2
        <5>2. k > 1 => k - 1 \in 1 .. Len(p) /\ e[k - 1] = p[k - 1]
          BY <3>4, <5>1
        <5> QED BY <3>5, <5>1, <5>2 DEF Genuine
      <4> QED BY <4>1, <4>2
    <3> QED BY <3>2, <3>7 DEF Genuine
  <2>6. n.id <= sealed' => edits = {}
    BY <1>1, <1>2, <1>7, <2>1
  <2>7. ASSUME dialect' = "sqlite", NEW y \in rows', y.hashed, y.id <= sealed', y.id \notin edits'
        PROVE  Genuine(y.entry)'
    <3>1. dialect = "sqlite" /\ y.id \notin edits
      BY <1>2, <2>7 DEF dialect
    <3>2. CASE y \in rows
      BY <2>4, <2>7, <3>1, <3>2
    <3>3. CASE y = n
      BY <2>5, <2>6, <2>7, <3>1, <3>3
    <3> QED BY <1>2, <3>2, <3>3
  <2>8. sealed' \in 0 .. lastId' /\ (edits' = {} => sealed' = lastId')
    BY <1>2, <2>1
  <2> QED BY <2>7, <2>8 DEF GenuineRows
<1>19. NothingLost'
  <2> SUFFICES ASSUME archiver # "none", NEW id \in 1 .. (lastId + 1)
               PROVE  id \in Ids(rows') \cup Archived \cup edits \cup clashed
    BY <1>2 DEF NothingLost, Ids, archiver, Archived
  <2>1. CASE id = lastId + 1
    BY <1>2, <1>7, <2>1 DEF Ids
  <2>2. CASE id \in 1 .. lastId
    BY <1>2, <2>2 DEF ChainInv, NothingLost, Ids
  <2> QED BY <1>1, <2>1, <2>2
<1>20. SerialWritersVerify'
  <2> SUFFICES ASSUME dialect = "sqlite", VerifyChain, NEW y \in rows' PROVE ~Broken(y)'
    BY <1>2 DEF ChainInv, SerialWritersVerify, ChainVerifies, VerifyChain, dialect, archiver
  <2>1. CASE y \in rows
    <3>1. ASSUME NEW x \in rows', Precedes(x, y)' PROVE x \in rows /\ Precedes(x, y)
      BY <1>1, <1>2, <1>7, <1>10, <2>1, <3>1 DEF Precedes
    <3> QED BY <2>1, <3>1 DEF VerifyChain, Broken
  <2>2. CASE y = n
    <3>1. ASSUME NEW x \in rows', Precedes(x, n)', x.hashed PROVE n.prev = x.entry
      <4>1. x \in rows
        BY <1>1, <1>2, <1>7, <3>1 DEF Precedes
      <4>2. \A z \in rows : z.id <= x.id
        BY <1>1, <1>2, <1>7, <1>10, <3>1, <4>1 DEF Precedes
      <4>3. last.entry = x.entry
        BY <3>1, <4>1, <4>2, LastIsTail DEF ChainInv, last
      <4> QED BY <1>6, <1>7, <4>3
    <3>2. n.entry = ComputeEntryHash(n.prev, n.id, n.text)
      BY <1>7, <1>8
    <3> QED BY <2>2, <3>1, <3>2 DEF Broken
  <2> QED BY <1>2, <2>1, <2>2
<1> QED BY <1>11, <1>12, <1>13, <1>14, <1>15, <1>16, <1>17, <1>18, <1>19, <1>20 DEF ChainInv

----------------------------------------------------------------------------
(* The theorems *)

\* The invariant holds in the initial states: a table without rows, or with one
\* from before the chain.
LEMMA ChainInit == Init => ChainInv
<1> SUFFICES ASSUME Init PROVE ChainInv
  OBVIOUS
<1>1. NoRecord \in Request /\ NoRecord.pc = "idle"
  BY EmptySeq DEF Request, Genesis, NoRecord
<1>2. NoCleanup \in Cleanup /\ NoCleanup.pc = "idle" /\ NoCleanup.batch = {}
  BY DEF NoCleanup, Cleanup, Job
<1>3. LegacyRow \in Row /\ LegacyRow.id = 1 /\ LegacyRow.created = 0 /\ ~LegacyRow.hashed
  BY EmptySeq DEF Row, Genesis, LegacyRow
<1>4. \/ rows = {} /\ lastId = 0
      \/ rows = {LegacyRow} /\ lastId = 1
  BY FS_EmptySet, FS_Singleton DEF Init
<1>5. TypeOK
  <2>1. MaxRows[config] \in Nat
    BY AuditAssumption DEF Init
  <2>2. before \in [1 .. MaxRows[config] -> Nat] /\ cold \subseteq FileNames
    BY <2>1 DEF Init
  <2>3. req \in [Requests -> Request] /\ clean \in [Cleaners -> Cleanup]
    BY <1>1, <1>2 DEF Init
  <2> QED BY <1>3, <1>4, <2>2, <2>3 DEF Init, TypeOK, Request, Cleanup
<1>6. RowsAreOld /\ HashesAreKept /\ TimesInOrder /\ GenuineRows
  <2>1. \A x \in rows : x = LegacyRow /\ lastId = 1
    BY <1>4
  <2>2. now = 1 /\ sealed = lastId
    BY DEF Init
  <2>3. RowsAreOld
    BY <1>3, <2>1, <2>2 DEF RowsAreOld
  <2>4. HashesAreKept
    BY <1>3, <2>1 DEF HashesAreKept
  <2>6. GenuineRows
    <3>1. sealed \in 0 .. lastId
      BY <1>4, <2>2
    <3> QED BY <1>3, <2>1, <2>2, <3>1 DEF GenuineRows
  <2>5. TimesInOrder
    BY <1>3, <2>1 DEF TimesInOrder
  <2> QED BY <2>3, <2>4, <2>5, <2>6
<1>7. ReadsOK /\ OldestFirst /\ BatchesAreOld /\ ArchivedFirst
  BY <1>1, <1>2 DEF Init, ReadsOK, OldestFirst, BatchesAreOld, ArchivedFirst
<1>10. Alone /\ HoldsWhole
  BY <1>2 DEF Init, Alone, HoldsWhole
<1>8. NothingLost
  BY <1>3, <1>4 DEF NothingLost, Ids
<1>9. SerialWritersVerify
  BY <1>3, <1>4 DEF SerialWritersVerify, ChainVerifies, VerifyChain, Broken
<1> QED BY <1>5, <1>6, <1>7, <1>8, <1>9, <1>10 DEF ChainInv

\* Every step keeps it.
LEMMA ChainStep == ChainInv /\ [Next]_vars => ChainInv'
<1> SUFFICES ASSUME ChainInv, [Next]_vars PROVE ChainInv'
  OBVIOUS
<1>1. CASE UNCHANGED vars
  <2>1. req' \in [Requests -> Request] /\ now' \in Nat /\ now' >= now
    BY <1>1 DEF vars, ChainInv, TypeOK, Request
  <2>2. ReadsOK'
    BY <1>1, SameTail DEF vars, ChainInv, ReadsOK
  <2> QED BY <1>1, <2>1, <2>2, ReadsOnly DEF vars
<1>2. ASSUME NEW r \in Requests, BeginRecord(r) PROVE ChainInv'
  BY <1>2, BeginRecordStep
<1>3. ASSUME NEW r \in Requests, ChainTail(r) PROVE ChainInv'
  BY <1>3, ChainTailStep
<1>4. ASSUME NEW r \in Requests, CreateRow(r) PROVE ChainInv'
  BY <1>4, CreateRowStep
<1>5. ASSUME NEW r \in Requests, RecordFails(r) PROVE ChainInv'
  BY <1>5, RecordFailsStep
<1>6. ASSUME NEW c \in Cleaners, NEW cutoff \in 1 .. now, StartCleanup(c, cutoff) PROVE ChainInv'
  BY <1>6, NextBatchStep DEF StartCleanup, hist
<1>7. ASSUME NEW c \in Cleaners, ReadNextBatch(c) PROVE ChainInv'
  <2>1. clean[c].cutoff \in Nat
    BY DEF ChainInv, TypeOK
  <2> QED BY <1>7, <2>1, NextBatchStep DEF ReadNextBatch, hist
<1>8. ASSUME NEW c \in Cleaners, OpenTemporary(c) PROVE ChainInv'
  BY <1>8, OpenTemporaryStep
<1>13. ASSUME NEW c \in Cleaners, WriteTemporary(c) PROVE ChainInv'
  BY <1>13, WriteTemporaryStep
<1>14. ASSUME NEW c \in Cleaners, Rename(c) PROVE ChainInv'
  BY <1>14, RenameStep
<1>15. ASSUME NEW c \in Cleaners, RenameFails(c) PROVE ChainInv'
  BY <1>15, RenameFailsStep
<1>9. ASSUME NEW c \in Cleaners, DeleteBatch(c) PROVE ChainInv'
  BY <1>9, DeleteBatchStep
<1>10. ASSUME NEW c \in Cleaners, CleanupFails(c) PROVE ChainInv'
  BY <1>10, CleanupFailsStep
<1>11. ASSUME NEW x \in rows, EditRow(x) PROVE ChainInv'
  BY <1>11, EditRowStep
<1>12. ASSUME NEW x \in rows, RemoveRow(x) PROVE ChainInv'
  BY <1>12, RemoveRowStep
<1> QED BY <1>1, <1>2, <1>3, <1>4, <1>5, <1>6, <1>7, <1>8, <1>9, <1>10, <1>11, <1>12,
          <1>13, <1>14, <1>15 DEF Next

LEMMA ChainAlways == Spec => []ChainInv
BY ChainInit, ChainStep, PTL DEF Spec

\* The audit log is well typed, and no id is given out twice: the transaction
\* that inserts a row takes the next id, whatever the others have read.
THEOREM AuditTyped == Spec => []TypeOK
<1>1. ChainInv => TypeOK
  BY DEF ChainInv
<1> QED BY <1>1, ChainAlways, PTL

\* Where the retention job has an archive, every entry that was ever recorded is
\* in the table or in a file of the archive that is whole, or someone took it by
\* hand: a round that fails anywhere, and any number of replicas, lose none but
\* what two of them wrote under one name at once.
THEOREM NoEntryIsLost == Spec => []NothingLost
<1>1. ChainInv => NothingLost
  BY DEF ChainInv
<1> QED BY <1>1, ChainAlways, PTL

\* On SQLite VerifyChain raises no false alarm, for any number of requests and
\* of replicas that clean up, after rounds that failed half-way.
THEOREM NoFalseAlarm == Spec => []SerialWritersVerify
<1>1. ChainInv => SerialWritersVerify
  BY DEF ChainInv
<1> QED BY <1>1, ChainAlways, PTL

\* On SQLite, in a chain that verifies, every hashed row that a row from before
\* the first touch by hand vouches for has a genuine hash: that row has, and from
\* each row to the one before it the chain hands it on.
LEMMA VouchedAreGenuine ==
  ASSUME ChainInv, dialect = "sqlite", VerifyChain,
         NEW y \in rows, y.id <= sealed, y.id \notin edits, NEW x \in Vouched(y)
  PROVE  Genuine(x.entry)
<1>1. rows \subseteq Row /\ RowsAreOld /\ lastId \in Nat
  BY DEF ChainInv, TypeOK
<1>2. \A z \in rows : z.id \in Nat /\ z.id \in 1 .. lastId
  BY <1>1 DEF RowsAreOld
<1> DEFINE Bad == {w \in Vouched(y) : ~Genuine(w.entry)}
           T == {w.id : w \in Bad}
<1> SUFFICES ASSUME Bad # {} PROVE FALSE
  OBVIOUS
<1>3. T \in SUBSET (0 .. lastId) /\ T # {}
  BY <1>2 DEF Vouched
<1>4. PICK t \in T : \A s \in T : s <= t
  BY <1>1, <1>3, Greatest
<1>5. PICK w \in Bad : w.id = t
  OBVIOUS
<1>6. /\ w \in rows /\ w.id <= y.id /\ w.hashed /\ ~Genuine(w.entry)
      /\ \A z \in rows : w.id <= z.id /\ z.id <= y.id => z.hashed
  BY <1>2, <1>5 DEF Vouched
<1>7. w.id < y.id
  <2>1. y.hashed
    BY <1>2, <1>6
  <2>2. Genuine(y.entry)
    BY <2>1 DEF ChainInv, GenuineRows
  <2>3. w # y
    BY <1>6, <2>2
  <2> QED BY <1>2, <1>6, <2>3 DEF ChainInv, TypeOK
<1>8. PICK z \in rows : w.id < z.id /\ \A v \in rows : w.id < v.id => z.id <= v.id
  <2> DEFINE U == {lastId - v.id : v \in {v \in rows : w.id < v.id}}
  <2>1. U \in SUBSET (0 .. lastId) /\ U # {}
    BY <1>1, <1>2, <1>7
  <2>2. PICK u \in U : \A s \in U : s <= u
    BY <1>1, <2>1, Greatest
  <2>3. PICK z \in rows : w.id < z.id /\ u = lastId - z.id
    OBVIOUS
  <2>4. ASSUME NEW v \in rows, w.id < v.id PROVE z.id <= v.id
    <3>1. lastId - v.id \in U
      BY <2>4
    <3>2. lastId - v.id <= lastId - z.id
      BY <2>2, <2>3, <3>1
    <3> QED BY <1>1, <1>2, <3>2
  <2> QED BY <2>3, <2>4
<1>9. z.id <= y.id /\ z.hashed
  BY <1>2, <1>6, <1>7, <1>8
<1>10. z \in Vouched(y)
  BY <1>2, <1>6, <1>8, <1>9 DEF Vouched
<1>11. Genuine(z.entry)
  <2> SUFFICES ASSUME ~Genuine(z.entry) PROVE FALSE
    OBVIOUS
  <2>1. z.id \in T
    BY <1>10
  <2> QED BY <1>2, <1>4, <1>5, <1>6, <1>8, <2>1
<1>12. Precedes(w, z)
  BY <1>2, <1>6, <1>8 DEF Precedes
<1>13. z.prev = w.entry /\ z.entry = ComputeEntryHash(z.prev, z.id, z.text)
  BY <1>6, <1>9, <1>12 DEF VerifyChain, Broken
<1>14. z \in Row
  BY <1>1
<1>15. /\ Len(z.prev) \in Nat /\ Len(z.entry) = Len(z.prev) + 1
       /\ \A k \in 1 .. Len(z.prev) : z.entry[k] = z.prev[k]
  BY <1>13, <1>14, HashEndsInRow
<1>16. Genuine(z.prev)
  BY <1>11, <1>15, GenuineBegins
<1> QED BY <1>6, <1>13, <1>16

\* On SQLite, in a chain that verifies, a row from before the first touch by
\* hand that nobody has touched itself vouches for the rows before it, down to
\* the first one without a hash: they say what they said when they were
\* recorded, and none of those between them is missing.
THEOREM VerifiedIsIntact == Spec => []TamperingShows
<1>1. ASSUME ChainInv, dialect = "sqlite", VerifyChain,
             NEW y \in rows, y.id <= sealed, y.id \notin edits, NEW x \in Vouched(y)
      PROVE  /\ x.text
             /\ \A w \in rows : Precedes(w, x) /\ w.hashed => before[x.id] = w.id
  <2>1. rows \subseteq Row
    BY <1>1 DEF ChainInv, TypeOK
  <2>2. Genuine(x.entry) /\ x \in rows
    BY <1>1, VouchedAreGenuine DEF Vouched
  <2>3. x.hashed
    BY <1>1, <2>1, <2>2 DEF Vouched, Row
  <2>4. x.entry = ComputeEntryHash(x.prev, x.id, x.text)
    BY <1>1, <2>2, <2>3 DEF VerifyChain, Broken
  <2>5. x \in Row
    BY <2>1, <2>2
  <2>6. /\ Len(x.prev) \in Nat /\ Len(x.entry) = Len(x.prev) + 1
        /\ x.entry[Len(x.entry)][1] = x.id
        /\ x.entry[Len(x.entry)][2] = TRUE <=> x.text
        /\ \A k \in 1 .. Len(x.prev) : x.entry[k] = x.prev[k]
    BY <2>4, <2>5, HashEndsInRow
  <2>7. Len(x.entry) \in 1 .. Len(x.entry)
    BY <2>6
  <2>8. x.text
    BY <2>2, <2>6, <2>7 DEF Genuine
  <2>9. ASSUME NEW w \in rows, Precedes(w, x), w.hashed PROVE before[x.id] = w.id
    <3>1. x.prev = w.entry
      BY <1>1, <2>2, <2>3, <2>9 DEF VerifyChain, Broken
    <3>2. w.entry = ComputeEntryHash(w.prev, w.id, w.text)
      BY <1>1, <2>9 DEF VerifyChain, Broken
    <3>3. w \in Row
      BY <2>1, <2>9
    <3>4. /\ Len(w.prev) \in Nat /\ Len(w.entry) = Len(w.prev) + 1
          /\ w.entry[Len(w.entry)][1] = w.id
      BY <3>2, <3>3, HashEndsInRow
    <3>5. x.entry[Len(x.entry) - 1][1] = w.id /\ Len(x.entry) > 1
      BY <2>6, <3>1, <3>4
    <3>6. before[x.entry[Len(x.entry)][1]] = x.entry[Len(x.entry) - 1][1]
      BY <2>2, <2>7, <3>5 DEF Genuine
    <3> QED BY <2>6, <3>5, <3>6
  <2> QED BY <2>8, <2>9
<1>2. ChainInv => TamperingShows
  BY <1>1 DEF TamperingShows
<1> QED BY <1>2, ChainAlways, PTL
=============================================================================

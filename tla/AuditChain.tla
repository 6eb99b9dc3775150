------------------------------ MODULE AuditChain ------------------------------
(***************************************************************************)
(* The audit log: entries chained by their hashes, the check of the chain, *)
(* and the retention job that moves expired entries to the cold archive.   *)
(*                                                                         *)
(* Record reads the last hashed row and inserts the next one in one         *)
(* transaction.  PostgreSQL locks the row that is read, and only after the *)
(* statement has chosen it; SQLite fails the transaction whose reads are   *)
(* out of date when it writes.  A hash is the sequence of what went into   *)
(* it, so two hashes are equal only when all of that is.  No key goes into *)
(* it, and it is in the row: who changes a row by hand can hash it again.  *)
(***************************************************************************)
EXTENDS Integers, Sequences, FiniteSets

CONSTANTS
    Requests,   \* requests that are audited
    Cleaners,   \* retention jobs, one per replica
    BatchSize,  \* rows a retention job handles at a time
    PerSecond,  \* readings of the clock in a second
    MaxRows,    \* bound, for each configuration: ids given out
    MaxTime,    \* bound, for each configuration: times the clock is read
    MaxEdits    \* bound, for each configuration: rows touched by hand

\* A configuration: the database, and no archive, a directory of files for each
\* replica, or one that they share.
Configurations == {"sqlite", "postgres"} \X {"none", "own", "shared"}

ASSUME AuditAssumption ==
    /\ BatchSize \in Nat \ {0} /\ PerSecond \in Nat \ {0}
    /\ MaxRows \in [Configurations -> Nat] /\ MaxTime \in [Configurations -> Nat]
    /\ MaxEdits \in [Configurations -> Nat]

VARIABLES
    config,   \* the configuration, fixed when the server starts
    rows,     \* table audit_logs
    lastId,   \* the last id given out
    now,      \* the clock: moves whenever someone reads it
    req,      \* [Requests -> program counter and locals of Record]
    clean,    \* [Cleaners -> program counter and locals of Cleanup]
    cold,     \* the archive: the names whose file is whole
    before,   \* history: the row that was the last when a row was inserted
    sealed,   \* history: the last id given out before a row was touched by hand
    edits,    \* history: ids of rows changed or removed by hand
    clashed   \* history: rows two replicas were archiving under one name at once

vars == <<config, rows, lastId, now, req, clean, cold, before, sealed, edits, clashed>>
hist == <<before, sealed, edits, clashed>>

Genesis == <<>>

\* A row: its id, which stands for all its fields but one, that one, whether it
\* has hashes (rows from before the chain have none), and its time.
Row == [id : Nat, text : BOOLEAN, hashed : BOOLEAN,
        prev : Seq(Nat \X BOOLEAN), entry : Seq(Nat \X BOOLEAN), created : Nat]
LegacyRow == [id |-> 1, text |-> TRUE, hashed |-> FALSE,
              prev |-> Genesis, entry |-> Genesis, created |-> 0]

ComputeEntryHash(prev, id, text) == Append(prev, <<id, text>>)

NoRecord == [pc |-> "idle", top |-> 0, tail |-> 0, prev |-> Genesis, at |-> 0, fresh |-> TRUE]
\* What a retention job keeps: its cutoff and its batch, and of the archive file
\* it writes the second in its name, where the file it has open is by now, and
\* whether that is whole.
Job(pc, cutoff, batch) ==
    [pc |-> pc, cutoff |-> cutoff, batch |-> batch, second |-> 0, handle |-> "none", whole |-> FALSE]
NoCleanup == Job("idle", 0, {})

Init ==
    /\ config \in Configurations
    /\ rows \in {{}, {LegacyRow}} /\ lastId = Cardinality(rows)
    /\ now = 1
    /\ req = [r \in Requests |-> NoRecord]
    /\ clean = [c \in Cleaners |-> NoCleanup]
    /\ cold = {} /\ before = [id \in 1 .. MaxRows[config] |-> 0]
    /\ sealed = lastId /\ edits = {} /\ clashed = {}

dialect == config[1]
archiver == config[2]
Ids(S) == {x.id : x \in S}
ReadsAreStale == [r \in Requests |-> [req[r] EXCEPT !.fresh = FALSE]]

----------------------------------------------------------------------------
(* Record *)

\* The SELECT of chainTail sees the rows that are committed when it starts.
BeginRecord(r) ==
    /\ req[r].pc = "idle"
    /\ req' = [req EXCEPT ![r] = [pc |-> "tail", top |-> lastId, tail |-> 0,
                                  prev |-> Genesis, at |-> 0, fresh |-> TRUE]]
    /\ UNCHANGED <<config, rows, lastId, now, clean, cold, hist>>

Newest(S) == CHOOSE x \in S : \A y \in S : y.id <= x.id
Hashed(top) == {x \in rows : x.hashed /\ x.id <= top}
Locked(id) == dialect = "postgres" /\ id # 0 /\ \E r \in Requests : req[r].tail = id

LastHashed(top) ==
    IF Hashed(top) = {} THEN [id |-> 0, entry |-> Genesis]
    ELSE [id |-> Newest(Hashed(top)).id, entry |-> Newest(Hashed(top)).entry]

\* FOR UPDATE waits for the row the SELECT has found, and then keeps it, although
\* it may not be the last one any more; then Record takes the time.
ChainTail(r) ==
    LET t == LastHashed(req[r].top)
    IN /\ req[r].pc = "tail" /\ ~Locked(t.id) /\ now < MaxTime[config]
       /\ req' = [req EXCEPT ![r] = [pc |-> "insert", top |-> 0, tail |-> t.id,
                                     prev |-> t.entry, at |-> now, fresh |-> @.fresh]]
       /\ now' = now + 1
       /\ UNCHANGED <<config, rows, lastId, clean, cold, hist>>

NewRow(r) ==
    [id |-> lastId + 1, text |-> TRUE, hashed |-> TRUE, prev |-> req[r].prev,
     entry |-> ComputeEntryHash(req[r].prev, lastId + 1, TRUE), created |-> req[r].at]

\* Mutant: an id is given out twice.
CreateRowAgain(r) ==
    /\ req[r].pc = "insert" /\ lastId < MaxRows[config]
    /\ dialect = "sqlite" => req[r].fresh
    /\ rows' = rows \cup {NewRow(r)}
    /\ req' = [ReadsAreStale EXCEPT ![r] = NoRecord]
    /\ UNCHANGED <<config, lastId, now, clean, cold, hist>>

\* INSERT and COMMIT.  The locks are given back, and on SQLite whoever has read
\* the table before cannot write any more.
CreateRow(r) ==
    /\ req[r].pc = "insert" /\ lastId < MaxRows[config]
    /\ dialect = "sqlite" => req[r].fresh
    /\ rows' = rows \cup {NewRow(r)}
    /\ lastId' = lastId + 1
    /\ before' = [before EXCEPT ![lastId + 1] = LastHashed(lastId).id]
    /\ req' = [ReadsAreStale EXCEPT ![r] = NoRecord]
    /\ sealed' = IF edits = {} THEN lastId + 1 ELSE sealed
    /\ UNCHANGED <<config, now, clean, cold, edits, clashed>>

\* The transaction fails or its process dies: the middleware logs it, and the
\* request is not audited.
RecordFails(r) ==
    /\ req[r].pc # "idle"
    /\ req' = [req EXCEPT ![r] = NoRecord]
    /\ UNCHANGED <<config, rows, lastId, now, clean, cold, hist>>

----------------------------------------------------------------------------
(* The retention job *)

\* Mutant: batches in no order.
UnorderedBatches(cutoff) ==
    LET Expired == {x \in rows : x.created < cutoff}
    IN {Ids(B) : B \in {C \in SUBSET Expired : Cardinality(C) <= BatchSize /\ (C = {} => Expired = {})}}

\* ORDER BY created_at LIMIT batchSize, by id: which of several rows of one time
\* come first is open.
Batches(cutoff) ==
    LET Expired == {x \in rows : x.created < cutoff}
        size == IF Cardinality(Expired) < BatchSize THEN Cardinality(Expired) ELSE BatchSize
    IN {Ids(B) : B \in {C \in SUBSET Expired :
           Cardinality(C) = size /\ \A x \in C, y \in Expired \ C : x.created <= y.created}}

\* The rows of the next batch, or the end.
NextBatch(c, cutoff) ==
    \E B \in Batches(cutoff) :
        clean' = [clean EXCEPT ![c] =
            IF B = {} THEN NoCleanup
            ELSE Job(IF archiver = "none" THEN "delete" ELSE "archive", cutoff, B)]

\* Cleanup starts when any time since the last entry may have passed.
StartCleanup(c, cutoff) ==
    /\ clean[c].pc = "idle"
    /\ NextBatch(c, cutoff)
    /\ UNCHANGED <<config, rows, lastId, now, req, cold, hist>>

ReadNextBatch(c) ==
    /\ clean[c].pc = "next"
    /\ NextBatch(c, clean[c].cutoff)
    /\ UNCHANGED <<config, rows, lastId, now, req, cold, hist>>

\* A file is known by its directory, which is that of the replicas that use it,
\* the second, and the batch, for which the first and the last id stand.
FileName(c, second) ==
    [dir |-> IF archiver = "own" THEN {c} ELSE Cleaners, second |-> second, ids |-> clean[c].batch]
Name(c) == FileName(c, clean[c].second)
Archived == UNION {name.ids : name \in cold}

\* The jobs between opening a file of this name and renaming it, and those of
\* them that have open what is the temporary file now.  One that nobody has open
\* is not kept: whoever opens it next empties it.
Writing(name) == {d \in Cleaners : clean[d].pc \in {"write", "rename"} /\ Name(d) = name}
Temporary(name) == {d \in Writing(name) : clean[d].handle = "tmp"}

\* FileArchiveWriter.Write takes the second for the name, and os.WriteFile opens
\* the temporary file: it makes it, or empties the one that is there ...
OpenTemporary(c) ==
    LET second == now \div PerSecond
        name == FileName(c, second)
        x == clean[c]
    IN /\ x.pc = "archive"
       /\ clean' = [d \in Cleaners |->
                       IF d = c THEN [pc |-> "write", cutoff |-> x.cutoff, batch |-> x.batch,
                                      second |-> second, handle |-> "tmp", whole |-> FALSE]
                       ELSE IF d \in Temporary(name) THEN [clean[d] EXCEPT !.whole = FALSE]
                       ELSE clean[d]]
       /\ clashed' = IF Writing(name) = {} THEN clashed ELSE clashed \cup x.batch
       /\ UNCHANGED <<config, rows, lastId, now, req, cold, before, sealed, edits>>

\* ... writes all of it, wherever that file is by now ...
WriteTemporary(c) ==
    LET x == clean[c]
        together == IF x.handle = "tmp" THEN Temporary(Name(c)) ELSE {}
    IN /\ x.pc = "write"
       /\ clean' = [d \in Cleaners |->
                       IF d = c THEN [x EXCEPT !.pc = "rename", !.whole = TRUE]
                       ELSE IF d \in together THEN [clean[d] EXCEPT !.whole = TRUE]
                       ELSE clean[d]]
       /\ cold' = IF x.handle = "final" THEN cold \cup {Name(c)} ELSE cold
       /\ UNCHANGED <<config, rows, lastId, now, req, hist>>

\* ... and gives the temporary file its name, be it whole or not, and over the
\* file that has it.  When another job has taken the temporary file away, there
\* may be one that a third has left.
Rename(c) ==
    LET x == clean[c]
        there == Temporary(Name(c))
    IN /\ x.pc = "rename"
       /\ clean' = [d \in Cleaners |->
                       IF d = c THEN Job("delete", x.cutoff, x.batch)
                       ELSE IF d \in Writing(Name(c)) THEN
                         [clean[d] EXCEPT !.handle = IF @ = "tmp" THEN "final" ELSE "gone"]
                       ELSE clean[d]]
       /\ \E whole \in IF there = {} THEN BOOLEAN ELSE {clean[d].whole : d \in there} :
            cold' = IF whole THEN cold \cup {Name(c)} ELSE cold \ {Name(c)}
       /\ UNCHANGED <<config, rows, lastId, now, req, hist>>

\* Mutant: the error of a rename that fails is not returned.
RenameFailsUnnoticed(c) ==
    /\ clean[c].pc = "rename"
    /\ clean' = [d \in Cleaners |->
                    IF d = c THEN Job("delete", clean[c].cutoff, clean[c].batch)
                    ELSE IF d \in Temporary(Name(c)) THEN [clean[d] EXCEPT !.handle = "gone"]
                    ELSE clean[d]]
    /\ UNCHANGED <<config, rows, lastId, now, req, cold, hist>>

\* Or the rename fails, the temporary file is removed, and the round is over.
RenameFails(c) ==
    /\ clean[c].pc = "rename"
    /\ clean' = [d \in Cleaners |->
                    IF d = c THEN NoCleanup
                    ELSE IF d \in Temporary(Name(c)) THEN [clean[d] EXCEPT !.handle = "gone"]
                    ELSE clean[d]]
    /\ UNCHANGED <<config, rows, lastId, now, req, cold, hist>>

\* DELETE by id, and the next batch when this one was full.
DeleteBatch(c) ==
    LET ids == clean[c].batch
    IN /\ clean[c].pc = "delete" /\ \A id \in ids : ~Locked(id)
       /\ rows' = {x \in rows : x.id \notin ids}
       /\ clean' = [clean EXCEPT ![c] = IF Cardinality(ids) < BatchSize THEN NoCleanup
                                        ELSE Job("next", @.cutoff, {})]
       /\ req' = ReadsAreStale
       /\ UNCHANGED <<config, lastId, now, cold, hist>>

\* A statement or the archive fails, or the process dies: the round is over.
CleanupFails(c) ==
    /\ clean[c].pc # "idle"
    /\ clean' = [clean EXCEPT ![c] = NoCleanup]
    /\ UNCHANGED <<config, rows, lastId, now, req, cold, hist>>

----------------------------------------------------------------------------
(* Someone changes or removes a row by hand *)

\* A row with another text, another previous hash or both, under its hash or
\* hashed again, or without a hash.
Hashes == {Genesis} \cup {x.prev : x \in rows} \cup {x.entry : x \in rows}
Rehashed(x, prev, text) == {x.entry, ComputeEntryHash(prev, x.id, text)}
Changed(x, prev, text) ==
    {[x EXCEPT !.text = text, !.hashed = TRUE, !.prev = prev, !.entry = entry] :
        entry \in Rehashed(x, prev, text)}
      \cup {[x EXCEPT !.text = text, !.hashed = FALSE, !.entry = Genesis]}

EditRow(x) ==
    /\ Cardinality(edits) < MaxEdits[config] /\ ~Locked(x.id)
    /\ \E prev \in Hashes, text \in BOOLEAN : \E y \in Changed(x, prev, text) \ {x} :
         rows' = (rows \ {x}) \cup {y}
    /\ edits' = edits \cup {x.id}
    /\ req' = ReadsAreStale
    /\ UNCHANGED <<config, lastId, now, clean, cold, before, sealed, clashed>>

RemoveRow(x) ==
    /\ Cardinality(edits) < MaxEdits[config] /\ ~Locked(x.id)
    /\ rows' = rows \ {x}
    /\ edits' = edits \cup {x.id}
    /\ req' = ReadsAreStale
    /\ UNCHANGED <<config, lastId, now, clean, cold, before, sealed, clashed>>

Next ==
    \/ \E r \in Requests : BeginRecord(r) \/ ChainTail(r) \/ CreateRow(r) \/ RecordFails(r)
    \/ \E c \in Cleaners :
         \/ \E cutoff \in 1 .. now : StartCleanup(c, cutoff)
         \/ ReadNextBatch(c) \/ OpenTemporary(c) \/ WriteTemporary(c) \/ Rename(c)
         \/ RenameFails(c) \/ DeleteBatch(c) \/ CleanupFails(c)
    \/ \E x \in rows : EditRow(x) \/ RemoveRow(x)

Spec == Init /\ [][Next]_vars

----------------------------------------------------------------------------
(* The check of the chain *)

\* x is the row before y in the order of ids.
Precedes(x, y) == x.id < y.id /\ \A z \in rows : ~(x.id < z.id /\ z.id < y.id)

\* Mutant: a check that looks at each row alone.
BrokenAlone(y) == y.hashed /\ y.entry # ComputeEntryHash(y.prev, y.id, y.text)

\* A row is a break when its hash is not that of its fields, or when it does
\* not follow on the hashed row before it.
Broken(y) ==
    /\ y.hashed
    /\ \/ y.entry # ComputeEntryHash(y.prev, y.id, y.text)
       \/ \E x \in rows : Precedes(x, y) /\ x.hashed /\ y.prev # x.entry

VerifyChain == \A y \in rows : ~Broken(y)

----------------------------------------------------------------------------
(* Properties *)

\* Types, and where the jobs stand: what a job is about to archive or delete is
\* a batch, and the rows of a table have one id each.
FileNames == [dir : SUBSET Cleaners, second : Nat, ids : SUBSET Nat]
TypeOK ==
    /\ config \in Configurations
    /\ rows \subseteq Row /\ cold \subseteq FileNames
    /\ \A x, y \in rows : x.id = y.id => x = y
    /\ lastId \in Nat /\ now \in Nat \ {0}
    /\ req \in [Requests -> [pc : {"idle", "tail", "insert"}, top : Nat, tail : Nat,
                             prev : Seq(Nat \X BOOLEAN), at : Nat, fresh : BOOLEAN]]
    /\ clean \in [Cleaners -> [pc : {"idle", "archive", "write", "rename", "delete", "next"},
                               cutoff : Nat, batch : SUBSET Nat, second : Nat,
                               handle : {"none", "tmp", "final", "gone"}, whole : BOOLEAN]]
    /\ before \in [1 .. MaxRows[config] -> Nat] /\ sealed \in Nat
    /\ edits \subseteq Nat /\ clashed \subseteq Nat

\* archive.go:20-21: with an archive, no entry is gone from the table before it
\* is in a file that is whole, wherever a round fails and however many replicas
\* clean up.  Except where two replicas wrote one batch to one directory in one
\* second: their temporary file is the same, and may get its name half-written.
NothingLost ==
    archiver # "none" => \A id \in 1 .. lastId :
        id \in Ids(rows) \cup Archived \cup edits \cup clashed

\* No false alarm: as long as nobody has touched a row by hand, the chain
\* verifies, with rows from before the chain and while a retention round has
\* deleted some of its batches and not the others.
ChainVerifies == edits = {} => VerifyChain

\* The same where the database lets one transaction at a time read and write.
SerialWritersVerify == dialect = "sqlite" => ChainVerifies

\* What the check of the chain shows: in a chain that verifies, a row nobody has
\* touched vouches for all the rows before it that the chain leads to without a
\* gap of rows that have no hash.  They say what they said, and none is missing.
\* The newest rows, rewritten up to the last one, show nothing, nor does what
\* comes before a row whose hash was blanked.
Vouched(y) ==
    {x \in rows : /\ x.id <= y.id
                  /\ \A z \in rows : x.id <= z.id /\ z.id <= y.id => z.hashed}
TamperingShows ==
    dialect = "sqlite" /\ VerifyChain =>
        \A y \in rows : y.id <= sealed /\ y.id \notin edits =>
            \A x \in Vouched(y) :
                /\ x.text
                /\ \A w \in rows : Precedes(w, x) /\ w.hashed => before[x.id] = w.id
=============================================================================

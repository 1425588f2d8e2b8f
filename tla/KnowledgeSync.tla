------------------------------ MODULE KnowledgeSync ------------------------------
(***************************************************************************)
(* The knowledge index of knowledge_base/index.py: a run of the sync walks *)
(* the files of the operator's folder in path order and keeps, in one      *)
(* SQLite file, a row per path, a row per distinct content (checksum), the *)
(* segments of each document and one vector per segment.  Each action is   *)
(* one transaction, or one read whose result is used after it.  Runs can   *)
(* overlap (the start-up thread, the /sync endpoint, the command line),    *)
(* files change while a run goes on, and a run can fail or be killed       *)
(* between any two transactions.                                           *)
(*                                                                         *)
(* A checksum is identified with the content it is of, a Doc; SourceOf and *)
(* TextOf are what identification and segmentation make of the content.    *)
(***************************************************************************)
EXTENDS Integers, FiniteSets

CONSTANTS
    Paths,      \* discovery order of the files
    Docs,       \* contents a file may have
    Ids,        \* source ids found inside contents
    Texts,      \* segment texts, as their hashes
    MaxSegments,
    SourceOf,   \* the source id of a content
    TextOf,     \* its segments: ordinal -> text, or None past the last one
    Blocked,    \* contents whose classification forbids external embedding
    Runs,       \* runs that can be active at once
    None,
    Mixture,    \* segments under one id that no content spells
    MayReindex, \* whether a run may be started with the reindex option
    MaxTrouble  \* bound: changes of files, failures, and runs that start
                \* while another is active

Ordinals == 1 .. MaxSegments
Slots    == Ids \X Ordinals

ASSUME PathsAssumption == Paths \subseteq Nat /\ IsFiniteSet(Paths)
ASSUME NoneAssumption ==
    /\ None \notin Docs \cup Ids \cup Texts \cup Runs \cup Paths
    /\ Mixture \notin Docs \cup {None}
ASSUME DocsAssumption ==
    /\ SourceOf \in [Docs -> Ids]
    /\ TextOf \in [Docs -> [Ordinals -> Texts \cup {None}]]
    /\ Blocked \subseteq Docs
ASSUME BoundAssumption ==
    /\ MaxSegments \in Nat /\ MaxTrouble \in Nat
    /\ MayReindex \subseteq BOOLEAN /\ FALSE \in MayReindex

VARIABLES
    disk,     \* the folder
    path,     \* knowledge_source_path
    source,   \* knowledge_source
    segment,  \* knowledge_segment, keyed by source id and ordinal
    vector,   \* knowledge_embedding: the hash each slot's vector was made of
    corpus,   \* the corpus version: what its digest was computed over
    run,      \* the runs and the rows they carry between transactions
    gaps,     \* which known gaps of the code the history went through
    trouble   \* how much of MaxTrouble is used

tables == <<path, source, segment, vector, corpus>>
vars   == <<disk, path, source, segment, vector, corpus, run, gaps, trouble>>

\* IngestionState; ABSENT stands for no row, DELETED for deleted = 1
States == {"ABSENT", "INDEXED", "EMBEDDED", "BLOCKED", "FAILED", "DELETED"}
Live   == {"INDEXED", "EMBEDDED", "BLOCKED"}

\* body is the content the row was parsed from, which names the source id
SourceRow  == [state : States, body : Docs \cup {None}]
PathRow    == [sum : Docs \cup {None}, seen : Runs \cup {None}]
SegmentRow == [sum : Docs \cup {None}, text : Texts \cup {None}]
Steps == {"idle", "scan", "parse", "store", "touch", "embed", "split", "call", "finish",
          "publish", "completed"}
RunRow == [step : Steps, todo : SUBSET Paths, sum : Docs \cup {None},
           record : SourceRow, rows : [Ordinals -> Texts \cup {None}],
           pending : SUBSET Ordinals, reindex : BOOLEAN, clean : BOOLEAN]
Gaps == {"overlap", "torn", "shared", "orphan", "failed", "stripped"}

NoSource  == [state |-> "ABSENT", body |-> None]
NoPath    == [sum |-> None, seen |-> None]
NoSegment == [sum |-> None, text |-> None]
NoRows    == [i \in Ordinals |-> None]
NoRun     == [step |-> "idle", todo |-> {}, sum |-> None, record |-> NoSource,
              rows |-> NoRows, pending |-> {}, reindex |-> FALSE, clean |-> FALSE]

TypeOK ==
    /\ disk \in [Paths -> Docs \cup {None}]
    /\ path \in [Paths -> PathRow]
    /\ source \in [Docs -> SourceRow]
    /\ segment \in [Slots -> SegmentRow]
    /\ vector \in [Slots -> Texts \cup {None}]
    /\ corpus \subseteq Docs \X (Docs \cup {None})
    /\ run \in [Runs -> RunRow]
    /\ gaps \subseteq Gaps
    /\ trouble \in 0 .. MaxTrouble

\* two files with one source id at the same time
Shared(files) ==
    \E p, q \in Paths : /\ p # q /\ files[p] # None /\ files[q] # None
                        /\ SourceOf[files[p]] = SourceOf[files[q]]

Init ==
    /\ disk \in [Paths -> Docs \cup {None}]
    /\ path = [p \in Paths |-> NoPath]
    /\ source = [d \in Docs |-> NoSource]
    /\ segment = [k \in Slots |-> NoSegment]
    /\ vector = [k \in Slots |-> None]
    /\ corpus = {}
    /\ run = [r \in Runs |-> NoRun]
    /\ gaps = IF Shared(disk) THEN {"shared"} ELSE {}
    /\ trouble = 0

--------------------------------------------------------------------------------
(***************************************************************************)
(* The statements of db.py that the transactions are built from.           *)
(***************************************************************************)

Active(r) == run[r].step \notin {"idle", "completed"}

Next1(todo) == CHOOSE p \in todo : \A q \in todo : p <= q
At(r) == Next1(run[r].todo)

\* record_path: the row of the path, and the checksum no path holds any more
FaultSwapsColumns(p, d, r) == [path EXCEPT ![p] = [sum |-> r, seen |-> d]]
Recorded(p, d, r) == [path EXCEPT ![p] = [sum |-> d, seen |-> r]]
FaultForgetsCopies(p, d, r) == {path[p].sum} \ {None, d}
Orphans(p, d, r) ==
    {o \in {path[p].sum} \ {None, d} :
        \A q \in Paths \ {p} : path[q].sum # o}

\* delete_segments, of several checksums; the vectors go with the segments
Kept(sums, k) == segment[k].sum \notin sums
FaultVectorsStay(sums) == vector
WithoutVectors(sums) == [k \in Slots |-> IF Kept(sums, k) THEN vector[k] ELSE None]
FaultSegmentsStay(sums) == segment
WithoutSegments(sums) ==
    [k \in Slots |-> IF Kept(sums, k) THEN segment[k] ELSE NoSegment]

\* delete_segments_for_source_id: the checksums that have segments of the id
FaultHoldsNothing(id) == {}
HoldersOf(id) == {segment[<<id, i>>].sum : i \in Ordinals} \ {None}

\* tombstone_source: the row stays, marked; a missing row is left missing
Tombstoned(sums) ==
    [d \in Docs |-> IF d \in sums /\ source[d].state # "ABSENT"
                    THEN [source[d] EXCEPT !.state = "DELETED"] ELSE source[d]]

\* how a document's handling ends: the run goes on with the next file
GoOn(r) == run' = [run EXCEPT ![r].step = "scan", ![r].todo = @ \ {At(r)},
                              ![r].sum = None, ![r].record = NoSource,
                              ![r].rows = NoRows, ![r].pending = {}]
GoTo(r, step) == run' = [run EXCEPT ![r].step = step]

Costs(n) == trouble + n <= MaxTrouble /\ trouble' = trouble + n

--------------------------------------------------------------------------------
(***************************************************************************)
(* The run: sync and _sync_one.                                            *)
(***************************************************************************)

\* start_run, and the discovery of the files there are
Start(r, reindex) ==
    LET others == {q \in Runs : Active(q)} IN
    /\ ~Active(r)
    /\ run' = [q \in Runs |->
          IF q = r THEN [run[r] EXCEPT !.step = "scan", !.reindex = reindex,
                             !.todo = {p \in Paths : disk[p] # None},
                             !.clean = (others = {})]
                   ELSE [run[q] EXCEPT !.clean = FALSE]]
    \* the fresh run id: no path counts as seen by it yet
    /\ path' = [p \in Paths |->
                  IF path[p].seen = r THEN [path[p] EXCEPT !.seen = None] ELSE path[p]]
    /\ gaps' = IF others # {} THEN gaps \cup {"overlap"} ELSE gaps
    /\ IF others # {} THEN Costs(1) ELSE UNCHANGED trouble
    /\ UNCHANGED <<disk, source, segment, vector, corpus>>

\* the file is gone: reported, and its path is not recorded
CannotHash(r) ==
    /\ run[r].step = "scan" /\ run[r].todo # {}
    /\ disk[At(r)] = None
    /\ GoOn(r)
    /\ UNCHANGED <<disk, tables, gaps, trouble>>

FaultTrustsTombstones(r, d) ==
    source[d].body # None /\ source[d].state \in Live \cup {"DELETED"} /\ ~run[r].reindex
Unchanged(r, d) == source[d].state \in Live /\ ~run[r].reindex

\* sha256_of_file and the look-up that decides whether the content is known
Hash(r) ==
    /\ run[r].step = "scan" /\ run[r].todo # {}
    /\ disk[At(r)] # None
    /\ LET d == disk[At(r)] IN
       run' = [run EXCEPT ![r].sum = d, ![r].record = source[d],
                          ![r].step = IF Unchanged(r, d) THEN "touch" ELSE "parse"]
    /\ UNCHANGED <<disk, tables, gaps, trouble>>

\* segments_for_source
RowsOf(id) == [i \in Ordinals |-> segment[<<id, i>>].text]

\* the content is known as live, but a version of the same document that another
\* path brought took its segments (delete_segments_for_source_id)
Stripped(d) ==
    /\ source[d].state \in Live
    /\ RowsOf(SourceOf[d]) # TextOf[d] \/ ~(HoldersOf(SourceOf[d]) \subseteq {d})

\* an unchanged content: only the path is recorded; what record_path returns,
\* the content the path held before, is not looked at
Touch(r) ==
    LET p == At(r)  d == run[r].sum IN
    /\ run[r].step = "touch"
    /\ path' = Recorded(p, d, r)
    /\ gaps' = gaps \cup (IF Orphans(p, d, r) # {} THEN {"orphan"} ELSE {})
                    \cup (IF Stripped(d) THEN {"stripped"} ELSE {})
    /\ GoTo(r, "embed")
    /\ UNCHANGED <<disk, source, segment, vector, corpus, trouble>>

\* the file is read again and cannot be parsed, or is gone; SourceUnreadable
\* also drops the segments of the checksum, any other exception leaves them; the
\* content the path held before is not looked at here either
ParseFails(r, unreadable) ==
    LET p == At(r)  d == run[r].sum  sums == IF unreadable THEN {d} ELSE {} IN
    /\ run[r].step = "parse"
    /\ IF disk[p] = None THEN ~unreadable /\ UNCHANGED trouble ELSE Costs(1)
    /\ segment' = WithoutSegments(sums)
    /\ vector' = WithoutVectors(sums)
    /\ source' = [source EXCEPT ![d] = [state |-> "FAILED", body |-> None]]
    /\ path' = Recorded(p, d, r)
    /\ gaps' = IF Orphans(p, d, r) # {} THEN gaps \cup {"failed"} ELSE gaps
    /\ run' = [run EXCEPT ![r].step = "scan", ![r].todo = @ \ {p}, ![r].sum = None,
                          ![r].record = NoSource, ![r].clean = FALSE]
    /\ UNCHANGED <<disk, corpus>>

\* the bytes are read for the second time, identified and segmented
Parse(r) ==
    /\ run[r].step = "parse" /\ disk[At(r)] # None
    /\ run' = [run EXCEPT ![r].step = "store",
                          ![r].record = [state |-> "INDEXED", body |-> disk[At(r)]]]
    /\ gaps' = IF disk[At(r)] # run[r].sum THEN gaps \cup {"torn"} ELSE gaps
    /\ UNCHANGED <<disk, tables, trouble>>

\* one transaction replaces every earlier version of the document, and tombstones
\* the content that its path held before
Store(r) ==
    LET p == At(r)  d == run[r].sum  body == run[r].record.body
        id == SourceOf[body]
        orphans == Orphans(p, d, r)
        shed == {d} \cup HoldersOf(id) \cup orphans
    IN
    /\ run[r].step = "store"
    /\ segment' = [k \in Slots |->
          IF k[1] = id /\ TextOf[body][k[2]] # None
          THEN [sum |-> d, text |-> TextOf[body][k[2]]]
          ELSE WithoutSegments(shed)[k]]
    /\ vector' = WithoutVectors(shed)
    /\ source' = [Tombstoned(orphans) EXCEPT ![d] = run[r].record]
    /\ path' = Recorded(p, d, r)
    /\ GoTo(r, "embed")
    /\ UNCHANGED <<disk, corpus, gaps, trouble>>

--------------------------------------------------------------------------------
(***************************************************************************)
(* Embedding: _embed_source and _finish_embedding.                         *)
(***************************************************************************)

IdOf(r) == SourceOf[run[r].record.body]
\* the segments of the source are read; none, or a provider that is not there,
\* ends the document; a blocked classification is written down and ends it too
ReadSegments(r, available) ==
    LET rows == RowsOf(IdOf(r))
        record == run[r].record
        blocked == record.body \in Blocked
    IN
    /\ run[r].step = "embed"
    /\ source' = IF rows # NoRows /\ blocked /\ record.state # "BLOCKED"
                 THEN [source EXCEPT ![run[r].sum] = [record EXCEPT !.state = "BLOCKED"]]
                 ELSE source
    /\ IF rows = NoRows \/ blocked THEN GoOn(r)
       ELSE IF available THEN run' = [run EXCEPT ![r].step = "split", ![r].rows = rows]
       ELSE run' = [run EXCEPT ![r].step = "scan", ![r].todo = @ \ {At(r)}, ![r].sum = None,
                               ![r].record = NoSource, ![r].clean = FALSE]
    /\ UNCHANGED <<disk, path, segment, vector, corpus, gaps, trouble>>

\* the vectors after the first n rows: one of the same hash, of any segment, is
\* copied; the row is left pending when there is none
Copied(id, rows) ==
    LET after[n \in 0 .. MaxSegments] ==
        IF n = 0 THEN vector
        ELSE LET before == after[n - 1] IN
             IF rows[n] # None /\ \E k \in Slots : before[k] = rows[n]
             THEN [before EXCEPT ![<<id, n>>] = rows[n]] ELSE before
    IN after
Split(r) ==
    LET id == IdOf(r)  rows == run[r].rows  after == Copied(id, rows)
        pending == {i \in Ordinals : rows[i] # None /\ after[i][<<id, i>>] # rows[i]}
    IN
    /\ run[r].step = "split"
    /\ vector' = after[MaxSegments]
    /\ run' = [run EXCEPT ![r].pending = pending,
                          ![r].step = IF pending = {} THEN "finish" ELSE "call"]
    /\ UNCHANGED <<disk, path, source, segment, corpus, gaps, trouble>>

\* EmbeddingError: reported, the document stays INDEXED
EmbedFails(r) ==
    /\ run[r].step = "call"
    /\ Costs(1)
    /\ run' = [run EXCEPT ![r].step = "scan", ![r].todo = @ \ {At(r)}, ![r].sum = None,
                          ![r].record = NoSource, ![r].rows = NoRows,
                          ![r].pending = {}, ![r].clean = FALSE]
    /\ UNCHANGED <<disk, tables, gaps>>

\* the provider's vectors are stored under the segment ids read before the call
StoreVectors(r) ==
    /\ run[r].step = "call"
    /\ vector' = [k \in Slots |-> IF k[1] = IdOf(r) /\ k[2] \in run[r].pending
                                  THEN run[r].rows[k[2]] ELSE vector[k]]
    /\ GoTo(r, "finish")
    /\ UNCHANGED <<disk, path, source, segment, corpus, gaps, trouble>>

\* the record read when the document's turn came is written again, not deleted
Finish(r) ==
    LET id == IdOf(r)
        embedded == {i \in Ordinals : segment[<<id, i>>] # NoSegment /\ vector[<<id, i>>] # None}
        total == {i \in Ordinals : run[r].rows[i] # None}
        state == IF Cardinality(embedded) >= Cardinality(total) THEN "EMBEDDED" ELSE "INDEXED"
    IN
    /\ run[r].step = "finish"
    /\ source' = [source EXCEPT ![run[r].sum] = [run[r].record EXCEPT !.state = state]]
    /\ GoOn(r)
    /\ UNCHANGED <<disk, path, segment, vector, corpus, gaps, trouble>>

--------------------------------------------------------------------------------
(***************************************************************************)
(* The end of a run.                                                       *)
(***************************************************************************)

\* one transaction forgets every path the run has not seen and tombstones the
\* contents that no path holds then
TombstoneMissing(r) ==
    LET missing == {p \in Paths : path[p].sum # None /\ path[p].seen # r}
        orphans == {path[p].sum : p \in missing} \ {path[q].sum : q \in Paths \ missing}
    IN
    /\ run[r].step = "scan" /\ run[r].todo = {}
    /\ path' = [p \in Paths |-> IF p \in missing THEN NoPath ELSE path[p]]
    /\ segment' = WithoutSegments(orphans)
    /\ vector' = WithoutVectors(orphans)
    /\ source' = Tombstoned(orphans)
    /\ GoTo(r, "publish")
    /\ UNCHANGED <<disk, corpus, gaps, trouble>>

\* _write_corpus_version, and finish_run
PublishCorpus(r) ==
    /\ run[r].step = "publish"
    /\ corpus' = {<<d, source[d].body>> : d \in {e \in Docs :
                                    source[e].state \notin {"ABSENT", "DELETED"}}}
    /\ GoTo(r, "completed")
    /\ UNCHANGED <<disk, path, source, segment, vector, gaps, trouble>>

\* an exception ends the run, or the process is killed; what the run carried is
\* lost, what it committed stays (the run row, INTERRUPTED or still RUNNING, is
\* only shown)
Stops(r) ==
    /\ Active(r) /\ Costs(1)
    /\ run' = [run EXCEPT ![r] = NoRun]
    /\ UNCHANGED <<disk, tables, gaps>>

\* the operator writes, replaces or removes a file
Edit(p, content) ==
    LET files == [disk EXCEPT ![p] = content] IN
    /\ Costs(1)
    /\ disk[p] # content
    /\ disk' = files
    /\ gaps' = IF Shared(files) THEN gaps \cup {"shared"} ELSE gaps
    /\ run' = [r \in Runs |-> [run[r] EXCEPT !.clean = FALSE]]
    /\ UNCHANGED tables

Step(r) ==
    \/ CannotHash(r) \/ Hash(r) \/ Touch(r)
    \/ \E unreadable \in BOOLEAN : ParseFails(r, unreadable)
    \/ Parse(r) \/ Store(r)
    \/ \E available \in BOOLEAN : ReadSegments(r, available)
    \/ Split(r) \/ EmbedFails(r) \/ StoreVectors(r) \/ Finish(r)
    \/ TombstoneMissing(r) \/ PublishCorpus(r)

Next ==
    \/ \E r \in Runs : \/ \E reindex \in MayReindex : Start(r, reindex)
                       \/ Step(r)
                       \/ Stops(r)
    \/ \E p \in Paths, content \in Docs \cup {None} : Edit(p, content)

Spec == Init /\ [][Next]_vars

--------------------------------------------------------------------------------
(***************************************************************************)
(* Properties.                                                             *)
(***************************************************************************)

\* Every segment that a search can find belongs to a source that is not deleted
\* and not missing, however runs overlap: the tombstone and the segments of a
\* document are written in one transaction (tombstone_source, _sync_one).
SegmentsHaveSources ==
    \A k \in Slots : segment[k].sum # None =>
                        source[segment[k].sum].state \notin {"ABSENT", "DELETED"}

\* Without overlapping runs a recorded path never points to a tombstoned or
\* missing source: record_path and forget_path report a content as orphaned only
\* when no other path holds it.
PathsHaveSources ==
    "overlap" \notin gaps =>
        \A p \in Paths : path[p].sum # None =>
                            source[path[p].sum].state \notin {"ABSENT", "DELETED"}

\* Without overlapping runs a vector is always that of the text its segment has
\* now: a search joins the two tables by segment id alone, and segment ids are
\* reused by the next version of a document.
VectorsMatchText ==
    "overlap" \notin gaps =>
        \A k \in Slots : vector[k] \in {None, segment[k].text}

\* what the index holds for a content that a path holds
Complete(d) ==
    /\ source[d].state = IF TextOf[d] = NoRows THEN "INDEXED"
                         ELSE IF d \in Blocked THEN "BLOCKED" ELSE "EMBEDDED"
    /\ \A i \in Ordinals :
          LET k == <<SourceOf[d], i>> IN
          /\ segment[k].text = TextOf[d][i]
          /\ TextOf[d][i] # None => segment[k].sum = d
          /\ d \notin Blocked => vector[k] = TextOf[d][i]

\* no source is live, and so no segment findable, of a content no file has any more
NothingLingers == \A d \in Docs : source[d].state \in Live => \E p \in Paths : path[p].sum = d

\* A run that ran alone, with nothing failing and no file changing, leaves the
\* index equal to the folder, whatever earlier runs were interrupted or killed
\* between any two transactions: the paths are the files, every file's document is
\* complete, and the corpus version is that of the sources.  ("a rerun after an
\* interruption simply continues with what has not been indexed", index.py.)  It
\* holds unless the history went through one of six gaps of the code: runs
\* overlapped, a file changed between its hash and its parse, two files had one
\* source id, a recorded path changed to a content already known, a recorded path
\* changed to a content that could not be parsed, or a content was taken as
\* unchanged after another path's version of the document had taken its segments.
CleanRunMirrorsTheFolder ==
    \A r \in Runs : run[r].step = "completed" /\ run[r].clean /\ gaps = {} =>
        /\ \A p \in Paths : path[p].sum = disk[p]
        /\ \A p \in Paths : disk[p] # None => Complete(disk[p])
        /\ NothingLingers
        /\ corpus = {<<d, source[d].body>> : d \in {e \in Docs : source[e].state \in Live}}

\* A clean run leaves nothing behind of a content that a known one replaced.
\* (db.py record_path: "the previous version of a changed document, which the
\* caller tombstones so its segments and embeddings do not linger beside the new
\* ones".)
PreviousVersionsAreTombstoned ==
    \A r \in Runs :
        run[r].step = "completed" /\ run[r].clean /\ gaps \subseteq {"orphan"} => NothingLingers

\* A clean run leaves nothing behind of a content that one replaced which could
\* not be parsed at first.  (The same promise of db.py record_path, whose result
\* the two failure branches of _sync_one drop.)
UnreadVersionsAreTombstoned ==
    \A r \in Runs :
        run[r].step = "completed" /\ run[r].clean /\ gaps \subseteq {"failed"} => NothingLingers

\* the document found under a source id: the one whose segments are all there
Found(id) ==
    LET spelled == {d \in Docs : /\ SourceOf[d] = id
                                 /\ \A i \in Ordinals : segment[<<id, i>>].text = TextOf[d][i]}
    IN IF RowsOf(id) = NoRows THEN None
       ELSE IF spelled = {} THEN Mixture ELSE CHOOSE d \in spelled : TRUE
Promise == INSTANCE DocumentIndex WITH content <- [id \in Ids |-> Found(id)]

\* The index implements DocumentIndex: what is found under a source id is always
\* one whole document, also while runs overlap and die.
FindsWholeDocuments == Promise!Spec

================================================================================

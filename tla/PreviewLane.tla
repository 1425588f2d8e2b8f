-------------------------------- MODULE PreviewLane --------------------------------
(***************************************************************************)
(* One message of the KNOWLEDGE_PREVIEW lane, from the structure that a    *)
(* sync compiles (knowledge_base/structures/mx_pack.py) to what requests   *)
(* read: the process-wide registries (preview.py), the lru_caches over     *)
(* them (studio/catalogue.py, studio/routes.py) and the AI sample cache    *)
(* (ai_authoring/service.py).  Requests are threads that interleave with a *)
(* sync's steps; an lru_cache computes outside its lock, so a value that   *)
(* was being computed when the cache was cleared is stored afterwards.     *)
(*                                                                         *)
(* A content stands for the schema file, for the identity it is compiled   *)
(* under and for the structure it compiles to.                             *)
(***************************************************************************)
EXTENDS Naturals

CONSTANTS
    Contents,   \* contents of the message's schema file
    Ready,      \* contents whose pack passes every gate
    Broken,     \* contents that do not compile
    Syncs,      \* sync threads of the server
    Requests,   \* request threads
    None,
    MaxTrouble  \* bound: changes of the source and clean-caches

ASSUME PreviewContents == Ready \cup Broken \subseteq Contents /\ Ready \cap Broken = {}
ASSUME PreviewNone == None \notin Contents
ASSUME PreviewBound == MaxTrouble \in Nat

VARIABLES
    indexed,    \* the content the knowledge tables hold for the message
    cached,     \* contents whose schema is in source-cache/
    row,        \* knowledge_structure
    pack,       \* the pack file: the content it was compiled from
    registry,   \* preview._REGISTRIES: the row and the pack it was loaded with
    spec,       \* message_spec.cache
    catalogue,  \* build_catalogue.cache
    response,   \* _catalogue_response.cache
    sample,     \* knowledge_sample_cache: the structure each payload was valid in
    sync,       \* the sync threads
    request,    \* the request threads
    known,      \* which known gaps of the code the history went through
    used        \* how much of MaxTrouble is used

store == <<indexed, cached, row, pack>>
views == <<spec, catalogue, response>>
previewVars == <<store, registry, views, sample, sync, request, known, used>>

Content == Contents \cup {None}
\* packed: pack_path is not NULL; ready: readiness is GENERATION_READY
Row  == [of : Content, packed : BOOLEAN, ready : BOOLEAN]
Loaded == [row : Row, pack : Content, there : BOOLEAN]
\* an entry of the catalogue: its row, the count of its sources, its structure, and
\* whether it says that an AI sample is stored (ai_sample_ready)
View == [row : Row, sources : Content, spec : Content, sampled : BOOLEAN, there : BOOLEAN]
SyncRow == [step : {"idle", "compile", "write", "record", "reset", "load", "view", "answer",
                    "spec", "view2", "answer2", "completed"},
            of : Content, clean : BOOLEAN]
RequestRow == [step : {"idle", "count", "find", "project", "keep", "list", "respond", "resolve",
                       "hold", "look", "generate", "call", "put"},
               view : View, made : Content, index : Content]

NoRow     == [of |-> None, packed |-> FALSE, ready |-> FALSE]
Unloaded  == [row |-> NoRow, pack |-> None, there |-> FALSE]
NoView    == [row |-> NoRow, sources |-> None, spec |-> None, sampled |-> FALSE,
              there |-> FALSE]
NoSync    == [step |-> "idle", of |-> None, clean |-> FALSE]
NoRequest == [step |-> "idle", view |-> NoView, made |-> None, index |-> None]

PreviewTypeOK ==
    /\ indexed \in Content /\ cached \subseteq Contents
    /\ row \in Row /\ pack \in Content /\ registry \in Loaded
    /\ spec \in Content /\ catalogue \in View /\ response \in View
    /\ DOMAIN sample \subseteq Contents \X Content
    /\ sample \in [DOMAIN sample -> Contents]
    /\ sync \in [Syncs -> SyncRow] /\ request \in [Requests -> RequestRow]
    /\ known \subseteq {"overlap", "crossed", "cleaned"}
    /\ used \in 0 .. MaxTrouble

PreviewInit ==
    /\ indexed = None /\ cached = {} /\ row = NoRow /\ pack = None
    /\ registry = Unloaded /\ spec = None /\ catalogue = NoView /\ response = NoView
    /\ sample = [k \in {} |-> None]
    /\ sync = [s \in Syncs |-> NoSync]
    /\ request = [q \in Requests |-> NoRequest]
    /\ known = {} /\ used = 0

--------------------------------------------------------------------------------
(***************************************************************************)
(* Registries.                                                             *)
(***************************************************************************)

\* preview_registries: loaded on first use, under the lock
Load == [row |-> row, pack |-> pack, there |-> TRUE]
Registries == IF registry.there THEN registry ELSE Load

\* resolve_mx, resolve_mt: a pack without a row is not refused
Resolved(loaded) ==
    IF loaded.row # NoRow /\ ~loaded.row.ready THEN None ELSE loaded.pack

Syncing(s) == sync[s].step \notin {"idle", "completed"}
Busy == \E q \in Requests : request[q].step # "idle"
Reload == \E s \in Syncs : sync[s].step \in {"load", "view", "answer", "spec", "view2", "answer2"}
Crossing == IF Reload THEN known \cup {"crossed"} ELSE known
Spend(n) == used + n <= MaxTrouble /\ used' = used + n

--------------------------------------------------------------------------------
(***************************************************************************)
(* A sync: the transactions for the message's source, the compilation of   *)
(* its structure, and the reload that knowledge_sync and run_background_   *)
(* sync do after it.                                                       *)
(***************************************************************************)

\* tombstone_source deletes the structures that were compiled from the content
FaultRowStays(gone) == row
FaultNullRow(gone) == None
WithoutRowOf(gone) == IF gone # None /\ row.of = gone THEN NoRow ELSE row

\* the file is new, changed, gone or to be parsed again; parsing copies the schema
IndexSource(s, c, reindex) ==
    LET parsed == c # None /\ (c # indexed \/ reindex)
        alone == \A t \in Syncs \ {s} : ~Syncing(t)
    IN
    /\ ~Syncing(s)
    /\ Spend(IF c # indexed \/ reindex THEN 1 ELSE 0)
    /\ indexed' = c
    /\ row' = IF c # indexed THEN WithoutRowOf(indexed) ELSE row
    /\ cached' = IF parsed THEN cached \cup {c} ELSE cached
    /\ sync' = [t \in Syncs |-> IF t = s THEN [step |-> "compile", of |-> None, clean |-> alone]
                                ELSE [sync[t] EXCEPT !.clean = FALSE]]
    /\ known' = IF alone THEN known ELSE known \cup {"overlap"}
    /\ UNCHANGED <<pack, registry, views, sample, request>>

\* the identity is that of the row and the path of the row exists: reused.  A row
\* of a failure has no path, and Path("") is the current directory, which exists
Reuses(c) == row.of = c /\ (row.packed => pack # None)

Compile(s) ==
    LET c == indexed
        goTo(step) == sync' = [sync EXCEPT ![s].step = step, ![s].of = c]
        failed == c # None /\ ~Reuses(c) /\ (c \notin cached \/ c \in Broken)
    IN
    /\ sync[s].step = "compile"
    /\ row' = IF failed THEN [of |-> c, packed |-> FALSE, ready |-> FALSE] ELSE row
    /\ goTo(IF c = None \/ Reuses(c) \/ failed THEN "reset" ELSE "write")
    /\ UNCHANGED <<indexed, cached, pack, registry, views, sample, request, known, used>>

WritePack(s) ==
    /\ sync[s].step = "write"
    /\ pack' = sync[s].of
    /\ sync' = [sync EXCEPT ![s].step = "record"]
    /\ UNCHANGED <<indexed, cached, row, registry, views, sample, request, known, used>>

FaultRecordsReady(s) ==
    /\ sync[s].step = "record"
    /\ row' = [of |-> sync[s].of, packed |-> TRUE, ready |-> TRUE]
    /\ sync' = [sync EXCEPT ![s].step = "reset"]
    /\ UNCHANGED <<indexed, cached, pack, registry, views, sample, request, known, used>>
RecordStructure(s) ==
    /\ sync[s].step = "record"
    /\ row' = [of |-> sync[s].of, packed |-> TRUE, ready |-> sync[s].of \in Ready]
    /\ sync' = [sync EXCEPT ![s].step = "reset"]
    /\ UNCHANGED <<indexed, cached, pack, registry, views, sample, request, known, used>>

\* a step of the reload: what is being computed while it goes on may be stored after
Reloading(s, from, to) ==
    /\ sync[s].step = from
    /\ sync' = [sync EXCEPT ![s].step = to]
    /\ known' = IF Busy THEN known \cup {"crossed"} ELSE known
    /\ UNCHANGED <<store, sample, request, used>>

ResetRegistries(s) ==
    /\ Reloading(s, "reset", "load")
    /\ registry' = Unloaded /\ UNCHANGED views
FaultLoadsReadyRows(s) ==
    /\ Reloading(s, "load", "view")
    /\ registry' = [Load EXCEPT !.row = IF row.ready THEN row ELSE NoRow] /\ UNCHANGED views
LoadRegistries(s) ==
    /\ Reloading(s, "load", "view")
    /\ registry' = Registries /\ UNCHANGED views
ClearCatalogue(s) ==
    /\ Reloading(s, "view", "answer") \/ Reloading(s, "view2", "answer2")
    /\ catalogue' = NoView /\ UNCHANGED <<registry, spec, response>>
ClearResponse(s) ==
    /\ Reloading(s, "answer", "spec") \/ Reloading(s, "answer2", "completed")
    /\ response' = NoView /\ UNCHANGED <<registry, spec, catalogue>>
ClearSpec(s) ==
    /\ Reloading(s, "spec", "view2")
    /\ spec' = None /\ UNCHANGED <<registry, catalogue, response>>

--------------------------------------------------------------------------------
(***************************************************************************)
(* get_catalogue: the response over the catalogue over message_spec.       *)
(***************************************************************************)

Goes(q, step, view) == request' = [request EXCEPT ![q].step = step, ![q].view = view]
Done(q) == request' = [request EXCEPT ![q] = NoRequest]
Reads == UNCHANGED <<store, sample, sync, known, used>>

\* the registries are taken when neither cache has an entry
AskCatalogue(q) ==
    /\ request[q].step = "idle" /\ ~response.there
    /\ IF catalogue.there THEN Goes(q, "respond", catalogue) /\ UNCHANGED registry
       ELSE /\ registry' = Registries
            /\ Goes(q, "count", [NoView EXCEPT !.row = Registries.row])
    /\ known' = Crossing
    /\ UNCHANGED <<store, views, sample, sync, used>>

\* source_counts
CountSources(q) ==
    /\ request[q].step = "count"
    /\ Goes(q, "find", [request[q].view EXCEPT !.sources = indexed])
    /\ Reads /\ UNCHANGED <<registry, views>>

\* cached_sample_identities: samples of any structure and corpus count.  The
\* structure is only asked for when the row is ready
AnySample == DOMAIN sample # {}
FindSamples(q) ==
    LET view == [request[q].view EXCEPT !.sampled = AnySample] IN
    /\ request[q].step = "find"
    /\ Goes(q, IF view.row.ready THEN "project" ELSE "list", view)
    /\ Reads /\ UNCHANGED <<registry, views>>

\* message_spec: from its cache, or from the registries there are now
Project(q, from, to, after) ==
    LET answer == IF spec # None THEN spec ELSE Resolved(Registries)
        view == [request[q].view EXCEPT !.spec = answer]
    IN
    /\ request[q].step = from
    /\ registry' = IF spec # None THEN registry ELSE Registries
    /\ Goes(q, IF spec = None /\ answer # None THEN to ELSE after, view)
    /\ Reads /\ UNCHANGED views

\* a computed value is kept unless another thread was faster
KeepSpec(q, from, to) ==
    /\ request[q].step = from
    /\ spec' = IF spec = None THEN request[q].view.spec ELSE spec
    /\ Goes(q, to, request[q].view)
    /\ Reads /\ UNCHANGED <<registry, catalogue, response>>

\* an entry without a structure is knowledge-only, and never says it has a sample
KeepCatalogue(q) ==
    LET view == [request[q].view EXCEPT !.there = TRUE,
                     !.sampled = request[q].view.sampled /\ request[q].view.spec # None]
    IN
    /\ request[q].step = "list"
    /\ catalogue' = IF catalogue.there THEN catalogue ELSE view
    /\ Goes(q, "respond", view)
    /\ Reads /\ UNCHANGED <<registry, spec, response>>

KeepResponse(q) ==
    /\ request[q].step = "respond"
    /\ response' = IF response.there THEN response ELSE request[q].view
    /\ Done(q)
    /\ Reads /\ UNCHANGED <<registry, spec, catalogue>>

--------------------------------------------------------------------------------
(***************************************************************************)
(* ai_sample: the key names the structure and the corpus; a miss composes  *)
(* through the registries, asks the provider, composes again and stores.   *)
(***************************************************************************)

AskSample(q) ==
    /\ request[q].step = "idle"
    /\ Goes(q, "resolve", NoView)
    /\ known' = Crossing
    /\ UNCHANGED <<store, registry, views, sample, sync, used>>

\* message_corpus_version, and the look-up, which refresh skips
LookUp(q, refresh) ==
    LET made == request[q].view.spec IN
    /\ request[q].step = "look"
    /\ IF made = None \/ (~refresh /\ <<made, indexed>> \in DOMAIN sample) THEN Done(q)
       ELSE request' = [request EXCEPT ![q].step = "generate", ![q].index = indexed]
    /\ Reads /\ UNCHANGED <<registry, views>>

\* the seed, or the model's values, composed with the structure there is now; in
\* another structure than they were made for they are valid or not
Composed(q, from, to) ==
    LET now == Resolved(Registries) IN
    /\ request[q].step = from
    /\ registry' = Registries
    /\ \/ now # None /\ request' = [request EXCEPT ![q].step = to, ![q].made = now]
       \/ now # request[q].view.spec /\ Done(q)
    /\ Reads /\ UNCHANGED views

Generate(q)  == Composed(q, "generate", "call") \/ Composed(q, "generate", "put")
Candidate(q) == Composed(q, "call", "put")

FaultKeyForgetsStructure(q) ==
    {k \in Contents \X Content : k[2] = request[q].index}
KeysOf(q) == {<<request[q].view.spec, request[q].index>>}

PutSample(q) ==
    /\ request[q].step = "put"
    /\ sample' = [k \in DOMAIN sample \cup KeysOf(q) |->
                    IF k \in KeysOf(q) THEN request[q].made ELSE sample[k]]
    /\ Done(q)
    /\ UNCHANGED <<store, registry, views, sync, known, used>>

--------------------------------------------------------------------------------
\* a sync fails, or is a command-line sync, which ends without a reload of the
\* server; what it has done stays
SyncStops(s) ==
    /\ sync[s].step \in {"compile", "write", "record", "reset"}
    /\ sync' = [sync EXCEPT ![s] = NoSync]
    /\ UNCHANGED <<store, registry, views, sample, request, known, used>>

\* the process ends: what is not on disk is lost
Restart ==
    /\ registry' = Unloaded /\ spec' = None /\ catalogue' = NoView /\ response' = NoView
    /\ sync' = [s \in Syncs |-> NoSync] /\ request' = [q \in Requests |-> NoRequest]
    /\ UNCHANGED <<store, sample, known, used>>

\* make knowledge-clean-cache, between syncs
CleanCache ==
    /\ \A s \in Syncs : ~Syncing(s)
    /\ Spend(1)
    /\ cached' = {} /\ pack' = None
    /\ known' = known \cup {"cleaned"}
    /\ UNCHANGED <<indexed, row, registry, views, sample, sync, request>>

SyncStep(s) ==
    \/ \E c \in Content, reindex \in BOOLEAN : IndexSource(s, c, reindex)
    \/ Compile(s) \/ WritePack(s) \/ RecordStructure(s)
    \/ ResetRegistries(s) \/ LoadRegistries(s)
    \/ ClearCatalogue(s) \/ ClearResponse(s) \/ ClearSpec(s)
    \/ SyncStops(s)

RequestStep(q) ==
    \/ AskCatalogue(q) \/ CountSources(q) \/ FindSamples(q)
    \/ Project(q, "project", "keep", "list") \/ KeepSpec(q, "keep", "list")
    \/ KeepCatalogue(q) \/ KeepResponse(q)
    \/ AskSample(q)
    \/ Project(q, "resolve", "hold", "look") \/ KeepSpec(q, "hold", "look")
    \/ \E refresh \in BOOLEAN : LookUp(q, refresh)
    \/ Generate(q) \/ Candidate(q) \/ PutSample(q)

PreviewNext ==
    \/ \E s \in Syncs : SyncStep(s)
    \/ \E q \in Requests : RequestStep(q)
    \/ Restart \/ CleanCache

PreviewSpec == PreviewInit /\ [][PreviewNext]_previewVars

\* the same without what breaks a sync off: every sync runs to its end
UninterruptedNext ==
    /\ PreviewNext
    /\ \A s \in Syncs : Syncing(s) => sync'[s] # NoSync
UninterruptedSpec == PreviewInit /\ [][UninterruptedNext]_previewVars

--------------------------------------------------------------------------------
(***************************************************************************)
(* Properties.                                                             *)
(***************************************************************************)

\* A row that claims a pack has the pack of its own content on disk, whatever sync
\* was killed between the file and its row: a changed source's row is deleted with
\* the old content, long before the file is overwritten.  (Not when syncs overlap,
\* and not after clean-cache, which removes the file.)
PackIsOfItsRow ==
    row.packed /\ known \cap {"overlap", "cleaned"} = {} => pack = row.of

\* After a sync that ran alone to its end, the lane serves the content of the
\* source if its pack passed every gate and refuses it otherwise, whatever earlier
\* syncs were killed between.  (Not after clean-cache: the schema copies are gone,
\* unchanged sources are not parsed again, and the failure this records is reused
\* for ever; nor once syncs overlapped, when the row of one content can name the
\* pack file of another and is reused like that.)
CleanSyncServesTheSource ==
    \A s \in Syncs :
        (/\ sync[s].step = "completed" /\ sync[s].clean /\ indexed # None
         /\ known \cap {"overlap", "cleaned"} = {})
            => Resolved(Load) = IF indexed \in Ready THEN indexed ELSE None

\* After a completed sync every cached view is the one that would be computed now,
\* unless a request overlapped a reload.  Only ai_sample_ready may be older: storing
\* a sample clears no cache (PutSample), so a view computed before it goes on saying
\* no; it never says yes of a message that has no stored sample or no structure.
CachesFollowTheSync ==
    LET entry(mark) == [row |-> row, sources |-> indexed, there |-> TRUE,
                        spec |-> IF row.ready THEN pack ELSE None, sampled |-> mark]
        fresh == {entry(FALSE), entry(AnySample /\ row.ready /\ pack # None)}
    IN (/\ known \cap {"overlap", "crossed", "cleaned"} = {}
        /\ \E s \in Syncs : sync[s].step = "completed" /\ sync[s].clean)
          => /\ registry \in {Unloaded, Load}
             /\ spec \in {None, Resolved(Load)}
             /\ catalogue \in {NoView} \cup fresh
             /\ response \in {NoView} \cup fresh

\* A cached AI sample was composed in the structure its key names, unless a request
\* overlapped a reload: so a hit reproduces the miss that filled it
\* (docs/automation-api.md), and a sample of the old structure is not served for
\* the new one even between the sync's commit and its reload.
SamplesAreOfTheirKey ==
    "crossed" \notin known =>
        \A k \in DOMAIN sample : sample[k] = k[1]

\* After a sync that ran alone to its end the lane refuses a message that is not
\* generation-ready.  ("refuse a preview
\* message that is not generation-ready with MESSAGE_GENERATION_NOT_READY",
\* docs/universal-financial-message-rag.md.)
RefusesWhatIsNotReady ==
    (\E s \in Syncs : sync[s].step = "completed" /\ sync[s].clean)
        => Resolved(Registries) \in Ready \cup {None}

================================================================================

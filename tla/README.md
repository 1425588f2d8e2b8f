# Verification of the Financial Message Studio backend

The repository (SwiftGenerator, "Financial Message Studio") generates, validates and
exchanges SWIFT MT/MX test messages: a FastAPI backend (`src/backend/app`, Python) and
a Next.js frontend.  This directory holds TLA+ models of the parts of the backend whose
correctness depends on the order in which things happen, TLC configurations that check
them on small instances, and TLAPS proofs for every value of the constants.

    tlc -config DraftRaces.cfg MCDraftApproval.tla
    tlc -config Backend.cfg MCBackend.tla
    tlapm KnowledgeSync_proofs.tla

## The system

| Component (`src/backend/app/…`) | State | Operations | Hard behaviour | What makes it correct |
|---|---|---|---|---|
| `authoring/` repository, service, operations, routes | `message_drafts`, `draft_sequences`, `draft_fields`, `draft_versions`, `message_reviews`, `message_approvals`, `external_validation_results`, `message_submissions`, audit rows | create, edit fields/sequences/profile, compose/validate/download, request review, approve, import evidence, submit | each endpoint is a worker thread with several database sessions; nothing is locked or version-checked between a read and its commit | only what a checker approved is submitted; a status says what is true of the current text |
| `agents/` service, cache, budgets, circuit_breaker, providers | single-flight lock table, two cache levels, daily counters, breaker state (all per process, the cache's second level in the database) | `interpret` and what it calls | coroutines interleave at every real `await`; lock waits and provider calls time out; calls outlive state changes of the breaker and midnight | one request per key asks the provider; nothing leaks; limits hold; every request is answered |
| `knowledge_base/` index, db, catalogue, retrieval | SQLite tables of paths, sources, segments, embeddings, runs and a corpus version | `sync` (background thread at start, endpoint, command line), search, `clean-cache` | runs overlap; files change between hash and parse; a run fails or is killed between two transactions | what a search finds is one whole document that a file has; a clean run leaves the tables as the folder is |
| `knowledge_base/structures/`, `preview.py` and the caches over them in `studio/catalogue.py`, `studio/routes.py`, `ai_authoring/service.py` | structure rows, pack files, registries, three `lru_cache`s, the AI sample cache | compile, record, reload, answer, compose | a sync is killed between file and row; requests compute during a reload and store afterwards | a row has the pack of its own content; what is served is what a sync left; a cached sample is of the structure it is keyed by |
| `services/`, `workflows/settlement_processing.py` | settlement messages | generate, respond, cancel, cancel and rebook, amend | checks and saves in sessions of their own, several saves in one request | no replacement without its own accepted cancellation; one active cancellation; references used once |
| `workflows/corporate_actions.py`, `penalties.py` | workflow messages | notify, instruct, narrate, status, confirm, state penalties | the same, with references looked up in documents | every message belongs to its event and moves no more than was eligible |
| `authoring/` composer, parser, import | rows of one draft, no state besides | compose, parse, import, load a sample | edits race; an import adds sequences in transactions of their own | text that passes is complete; an import rebuilds the same message |
| `studio/mt/` parser, generator | none (registries read at start) | read a text block, plan sequences, write | tags that belong to several sequences; flat addresses | the reader is the inverse of the generator, and refuses what it would reshape |
| `studio/mx/` parser, generator | none (registries read at start) | read a document, validate, write | one occurrence index addresses nested elements | what is imported is written again; what is generated is read back |
| `ai_authoring/`, `mapping/`, `bulk/` | JSON record store | generate, convert, suggest | – | generated messages validate |
| `rule_engine/`, `spec_engine/`, `composers/`, `raw/`, `domain/` | none (registries read at start) | compile and evaluate rules, import specifications, render and parse text | three-valued evaluation | rendering and parsing agree; evaluation agrees with its definition |
| `security/`, `main.py`, `api/` | rate-limiter windows, sessions | middleware | a lock per limiter | limits per client hold |
| `persistence/`, `config.py`, `profiles/`, `knowledge/`, `specifications/`, `samples/`, `demo/`, `alembic/` | tables and configuration | load, insert, read | – | – |
| `frontend/`, `scripts/`, `tools/` | – | user interface, offline tooling | – | – |

Components meet in three ways: the authoring service calls the composer and the
repository, and the operations service calls the authoring service (`submit` composes
first); `interpret` holds a cache lock while it reserves the budget, asks the breaker
and calls the provider; a sync reloads registries and clears caches that requests are
filling; everything persistent meets in the database.
`PROJECT.json` lists every component with its status, and every hazard at the line
where it bites, with the properties that are about it.

## Modules

| Module | What it is |
|---|---|
| `MakerChecker` | abstract specification: what the approval workflow promises, without requests, sessions or tables |
| `DraftApproval` | the authoring workflow of one draft, one action per database read and per commit; refines `MakerChecker` |
| `MCDraftApproval` | small instances of it |
| `DraftApproval_proofs` | theorems about it |
| `CircuitBreaker`, `DailyBudget` | the breaker and the daily counters as operators from the state before a method to the state after it |
| `AiInterpretation` | `interpret`: coroutines over the single flight and the cache, composed with the breaker and the budget |
| `MCAiInterpretation` | small instances of it |
| `AiInterpretation_proofs` | theorems about it |
| `DocumentIndex` | abstract specification: what the knowledge index promises to a search |
| `KnowledgeSync` | the indexer: overlapping runs over the folder and the tables; refines `DocumentIndex` |
| `MCKnowledgeSync`, `KnowledgeSync_proofs` | small instances of it; theorems about it, the last that a clean run leaves the index equal to the folder |
| `PreviewLane` | one message of the preview lane: structure, pack, registries, caches, AI samples |
| `MCPreviewLane`, `PreviewLane_proofs` | small instances of it; theorems about it |
| `SettlementAmendment` | cancelling, amending and rebooking settlement instructions |
| `WorkflowMessages` | corporate actions and penalty statements |
| `Workflows_proofs` | theorems about the two |
| `Listing`, `Listing_proofs` | sorted lists and text put together from pieces, as the two composers use them; lemmas about them, about recursive functions and about induction |
| `DraftStructure`, `DraftStructure_proofs` | the rows of one draft, the composer's checks and rendering, the parser and the import; theorems about the rows and their text |
| `MtImport` | the reader of an MT text block and the sequence planner it is the inverse of |
| `MxDocument`, `MxDocument_proofs` | the composer, the structure validation and the reader of ISO 20022 documents; theorems about them |
| `MCBackend` | small instances of the six from `PreviewLane` to `MxDocument`, each moved by its own steps |

Operators named `Fault…` are never used by a specification.  Each is the operator below
it with a plausible bug (a dropped guard, a missing reset) and shows that the property
it is paired with in `PROJECT.json` would notice.

### DraftApproval

One draft of one tenant.  `draft` is its row in `message_drafts`, the other variables
are the tables beside it; `creator` is `created_by`.  A request is a worker thread and
`session[p]` is what it has read and not yet acted on.  The code opens a session, reads
the row, checks, writes and commits, and takes no lock, so every operation is a `Begin…`
action (the reads and the guards) and a `Commit…` action (the flush and the commit), and
other requests may commit between them:

| Code | Actions |
|---|---|
| `create_draft` | `Init` |
| `add_sequence`, `remove_sequence`, `upsert_field`, `delete_field` | `BeginEdit`, `CommitEdit` |
| `update_profile` | `BeginProfile`, `CommitProfile` |
| `compose` = `load_for_composition`, composer, `save_composition` | `Load`, `BeginSave`, `CommitSave` |
| `request_review`, `approve` | `BeginReview`, `CommitReview`, `BeginApprove`, `CommitApprove` |
| `import_external_validation` | `ImportEvidence` |
| `submit` | `Load` … `CommitSave` with a key, then `ReplaySubmit` or `BeginSubmit`, `CommitSubmit` |
| a failed guard, a refused commit, a crash | `Abort` |

`Flush` models what the ORM does and the source does not show: an UPDATE names only the
columns whose value changed in the session, so a column that another request has
committed survives if this session leaves its own copy as it was.

Abstractions.  A message text is a model value and its own checksum (the profile is not
part of the checksum in the code either); `Valid` is the set of text/profile pairs that
pass the four local levels.  A session's reads are one step.  An edit leaves any
content, the same one included.  Only the mock UAT connector is operational in the code,
and connector administration is left out, so a submission that passes its guards is
acknowledged.  Duplicate rows that differ only in their identifier are one, and the name
of whoever requests a review is dropped.  `MaxRevision` bounds the edits.

### AiInterpretation

The requests are coroutines of one event loop.  A coroutine runs alone until it really
suspends: waiting for a key's lock, in a thread of the cache repository, or in the
provider call.  The locks of the breaker, the budget and the lock table are held over no
suspension and are never contended, which makes their methods steps of the coroutine
that calls them; an action is what runs between two suspension points.
`request[p].step` is where the coroutine is suspended:

| Step | Suspended in | Left by |
|---|---|---|
| `idle` | not yet there, or answered | `Arrive`, `RefuseInput` |
| `waiting` | `wait_for(lock.acquire())` | `AcquireLock`, `StampedeTimeout` |
| `looking` | cache look-up | `Hit`, `Miss`, `LookupFails`, `Crash` |
| `ready` | about to reserve and to ask the breaker | `OverBudget`, `CircuitRefuses`, `StartCall` |
| `calling` | `wait_for(provider operation)` | `CallSucceeds`, `CallFails`, `UnusableAnswer`, `CallTimesOut`, `Crash` |
| `storing` | cache write | `Store` |

`table` is `_singleflight` together with `_singleflight_users`.  A lock object that the
table has dropped may still be held, so lock objects have an identity and `LockFor` is
`setdefault`.  `Expire`, `CoolDown` and `Midnight` are the clock.

Abstractions.  Both cache levels are one set of keys with a valid entry.  The retries
and the escalation inside one provider operation are one call with one outcome.  Any
waiter may get a free lock (the code's order of arrival is one of those).  The failure
counter stops at the threshold, beyond which the code never distinguishes values.  The
cooldown is one bit.  Every request has the same estimate, and both limits are
configured.  `spent` and `carried` are history variables and decide nothing.

### KnowledgeSync

One action is one transaction of `knowledge_base/db.py`, or one read whose result is used
after it.  `run[r].step` is where a run is:

| Step | Code | Left by |
|---|---|---|
| `idle`, `completed` | `start_run` and the discovery of files | `Start` |
| `scan` | hash a file, look its content up | `Hash`, `CannotHash`; `TombstoneMissing` when no file is left |
| `touch` | a known content: `record_path` alone | `Touch` |
| `parse` | read the file again, identify, segment | `Parse`, `ParseFails` |
| `store` | one transaction: segments, source, path, tombstones | `Store` |
| `embed` | read the segments | `ReadSegments` |
| `split` | copy the vectors that are known by hash | `Split` |
| `call` | the embedding provider | `StoreVectors`, `EmbedFails` |
| `finish` | write the source's state | `Finish` |
| `publish` | corpus version, end of the run | `PublishCorpus` |

`Stops` is a kill between any two of them; `Edit` is the operator's folder changing.
A run carries the rows it has read (`record`, `rows`, `pending`) across transactions, and
writes them again later, as the code does.  A checksum is the content it is of; `SourceOf` and
`TextOf` are what identification and segmentation make of it.  `gaps` is a history
variable: which of six known gaps of the code the history went through (`overlap`: two
runs at once; `torn`: a file changed between its hash and its parse; `shared`: two files
with one source id; `orphan`: a recorded path changed to a content already known, and
nothing else has the content it held; `failed`: the same, but the new content could not be
extracted; `stripped`: a content was taken as unchanged after another version of its document, from
another path, had taken its segments).  Properties that the code keeps only without some
of them name those, and no others.  The last gap was found by proving: at the bounds of
the run `CleanRunMirrorsTheFolder` held without it, and its invariant was not inductive.

### PreviewLane

`indexed`, `cached`, `row`, `pack` are what a sync leaves on disk (`IndexSource`,
`Compile`, `WritePack`, `RecordStructure`); `registry` and the three caches are what the
process holds (`ResetRegistries` … `ClearSpec`, in the order of the reload, which clears
two of the caches twice because the catalogue may have been rebuilt in between).  A request takes the
values it needs step by step and stores what it computed at the end: `lru_cache` computes
outside its lock, so the store may follow the clearing.  `AskSample` … `PutSample` are
`ai_sample`; a catalogue entry also says whether a sample of the message is stored
(`sampled`, the code's `ai_sample_ready`, set by `FindSamples`), and no sample that is stored later
clears it.  `Restart` empties what the process holds and kills its syncs; `CleanCache` is the command.
`UninterruptedSpec` leaves out `Restart` and the failure of a sync, for `PreviewNotReady`.  `known` is a history variable like `gaps`: `overlap` (two syncs at once), `crossed` (a
request overlapped a reload), `cleaned` (the cache directory was emptied).

### SettlementAmendment and WorkflowMessages

Both keep an append-only table.  A request checks what it must (`CheckCancellation`,
`CheckCommand`, `Decide`, `CheckRebook`; the five kinds of workflow message) and saves in
an action of its own; `cancel_and_rebook` saves cancellation, acceptance and replacement
one after the other, and `Fails` may stop it between any two.  `overlapped` and `crossed`
record whether two requests were ever in progress at once.  A response has whatever reference its
caller chooses, unchecked, or a synthetic one (`Respond`); no look-up of a reference asks what kind of message
has it, so the bound `OwnReference` lets callers choose for one kind only and makes the others synthetic.  The demo's `reset_synthetic`,
which deletes the demo's messages, is not modelled.  Quantities are kept where a
check looks at them (an election against the eligible quantity) and dropped where none does.

### DraftStructure

`occurrence` and `field` are the rows of `draft_sequences` and `draft_fields`; each edit is
a `Begin…` action (its reads and guards) and a `Commit…` action.  `Passes` is the
composer's structure findings, `Lines` its rendering, `Parsed` and `Imported` the way
back.  `Created` gives the mandatory paths their rows in the configured order: a row's
number (`RowOf`) is how many mandatory paths come up to its own.  A path has one field row, mandatory or
not (`required`; RELTRAN of MT537 has only an optional one); formats and qualifiers are left out.
The parent that a request names is any id: a row's, that of a row since removed, none (0), or one
that no row ever had (`Unknown`).

### MtImport

`Scanned` is `_scan`, `Resolves` and `Nested` the checks after it (`_check_structure`),
`Planned` is `plan_sequences` and `Written` the composer.  The state is only the text or
the message typed in so far, so that TLC visits all of them.  `Layouts` holds three
small specifications, each with an ambiguity taken from a real message (`MCBackend`).

### MxDocument

An element stands for its path (`_flatten`), a document is the sequence of its nodes as they
open, and a message a set of values with their element and occurrence.  `Sound` is what
`_walk`, `_read_container` and `_read_leaf` accept of a node, `Occurrences` the index that
they hand down, `Accepted` and `Read` the outcome of `parse_message`; `Document` is
`compose_document_with_paths` (`Visits` are the elements and occurrences that its `write` opens inside another), `Valid` is `validate_structure`.  The state is the document or the message
typed in so far.  Left out: the application header, formats, currencies, and the
business rules of single messages.

### MCBackend

These six share no state, so they are not interleaved: `focus` picks the part that moves and the others
stay as they began (those of a draft as before `create_draft`, `NoDraft`).  The state count is the sum of theirs, and what holds of each part
alone holds of this composition.

## What the runs check

| Run | Instance | Properties |
|---|---|---|
| `DraftSerial` | 1 request at a time, 3 texts, 2 profiles, 2 keys, evidence required, 3 revisions | `StatusDescribesContent`, `ApprovedIsApproved`, `ActiveApprovalsAreCurrent`, `VersionsAreImmutable` |
| `DraftRaces` | 2 requests, 3 texts, 1 profile, 1 key, 2 revisions | `TypeOK`, `SubmissionsWereApproved`, `SubmissionsAreValid`, `KeepsPromise` |
| `AiFlight` | 3 requests, 1 key, 2 lock objects, threshold 2, 3 calls and 2 tokens a day, 2 days | `TypeOK`, `OneHolderPerKey`, `CallsMissedTheCache`, `TableHoldsLiveKeys`, `ClosedBelowThreshold`, `HardStopWithinADay`, `EveryRequestIsAnswered` |
| `KnowledgeSync` | 2 runs, 2 files, 3 contents of 2 documents (one of them not to be embedded), 2 segments, 2 troubles; about a million states | `TypeOK`, `SegmentsHaveSources`, `PathsHaveSources`, `VectorsMatchText`, `CleanRunMirrorsTheFolder`, `FindsWholeDocuments` |
| `Backend`, part `preview` | 1 sync, 1 request, 4 contents (two ready, one incomplete, one that does not compile), 2 troubles | `PackIsOfItsRow`, `CleanSyncServesTheSource`, `CachesFollowTheSync`, `SamplesAreOfTheirKey` |
| – part `settlement` | 2 clients, 2 references, 5 messages of which 1 is a new instruction | `RebookedWasCancelled`, `OneActiveCancellation`, `AmendmentReferencesAreNew`, `SettledIsNotRebooked` |
| – part `structure` | 2 editors; a mandatory sequence without a mandatory field and an optional one below it with one, both repeating; 3 sequence and 2 field rows, 2 values | `SerialEditsKeepTheLayout`, `PassingTextIsComplete`, `RoundTripsBelowFirstParents` |
| – part `workflow` | 2 requests, 2 workflows, 2 names, eligible quantity 2, 4 messages | `ChainsAreOfOneEvent`, `EventsAndStatementsAreDistinct`, `AnsweredReferencesAreTaken` |
| – part `import` | 3 layouts; bracketed texts of up to 6 lines, and of up to 12 that begin with a given block inside a block; texts of up to 6 lines without brackets; messages of up to 8 values, occurrences up to 2 | `NothingIsReshaped`, `WrittenIsReadBack` |
| – part `document` | 3 schemas of 5 or 6 elements, documents of up to 7 nodes, messages of up to 6 values, occurrences up to 3 | `DocumentsRoundTrip` |
| `DraftAuthorApproves`, `DraftEvidenceOfProfile`, `DraftReviewRace`, `AiMidnight`, `KbOrphan`, `KbUnread`, `PreviewNotReady` | as small as the behaviour allows | one statement of the documentation or of the code's own messages each, which the code does not keep |

The serial properties of a draft are lost when requests race (an approval committed
after an edit stays active, for one); what survives any interleaving is what
`DraftRaces` checks, and it is what matters at the door: a submission names a revision
and checksum that somebody other than the creator approved.  In the same way
`OneActiveCancellation`, `AmendmentReferencesAreNew`, `SettledIsNotRebooked`,
`EventsAndStatementsAreDistinct`, `AnsweredReferencesAreTaken` and
`SerialEditsKeepTheLayout` are promised only while requests do not overlap, since nothing
but a read before the write enforces them; `RebookedWasCancelled`,
`ChainsAreOfOneEvent`, `PassingTextIsComplete` and `RoundTripsBelowFirstParents` hold in
any interleaving.

`Backend` has about 1.9 million states.  All six parts are in its one specification; the
properties of a part are trivially kept while another part moves, so a property is
checked on the instance of its part.

Why the bounds are enough.  A race needs one request between the read and the commit of
another, and requests are taken up again after they end, so two of them produce every
pairwise interleaving of any number of operations.  Two revisions give an edit
before and after an approval, three let the serial run approve, edit, and approve again.
The three texts differ in validity: valid under each profile, under one, under none.
In `AiFlight` three requests are a holder, a waiter and a newcomer; two lock objects are a
dropped one and its successor; a threshold of two separates the first failure from
the one that opens the breaker; three calls a day let the tokens, not the calls, refuse the third one in
flight, and with two tokens estimate and usage (0, 2 or unknown) differ both ways.  In `KnowledgeSync` the three contents are two versions of one
document that share a segment at different ordinals (so vectors are copied, and a new
version is shorter or longer than the old one) and an unrelated one; two files can hold
the same content, two versions, or swap contents.  `MaxTrouble` bounds together the
changes of files, the failures and the overlapping starts; two of them give an edit
followed by a failed run, or an edit under an overlap, and kills are not
counted at all.  In `settlement` five messages are an instruction, a cancellation, its
acceptance, a replacement and one message that interferes.  In `structure` three sequence
rows are two roots with a child below one of them, a root with two children, or a root without a
parent's row; two field rows are one field twice, or a sequence with and one without.  In
`import` a bracketed block in a block, each with its value, takes six lines; from there on (the layout
`repeated`) six more repeat the inner block, the outer one, or both, which is what a flat address can
confuse: a second inner block in the first outer one and one in the second have the same address.  Two such
texts are reached, one that is refused and one that is accepted.  Six lines without brackets are two instances of
each sequence that can be confused.  In `document` the schemas are a block
with a repeating block inside (like `SttlmTxCond` of sese.023), a repeating leaf
inside a repeating block, and a mandatory choice; seven nodes hold two repeats with a
block inside each, and three occurrences have a first, a middle and a last.

Fairness.  The authoring model, the sync and the parts of `Backend` assume none and claim no
liveness: an operator may stop any of them at any time, and a failed sync is not retried by the
code.  `EveryRequestIsAnswered` assumes weak fairness of `Answering(p)`: the event loop runs
every coroutine that can run, threads of the database end, and the two waits have a
timeout (`ai_cache_stampede_wait_seconds`, `openrouter_operation_timeout_seconds`).
Nothing is assumed of the provider: `CallSucceeds` and `CallFails` are not fair.

`CHECK_DEADLOCK FALSE` stands in `Backend` because its tables only grow up to a bound.

### Where the code departs from what it says

- *An approver cannot be the author* (`docs/security.md`): only the creator is refused,
  not an author who edited the revision (`DraftAuthorApproves`).
- *Evidence must match the profile* (the import's own check): the submission looks for
  evidence by checksum alone (`DraftEvidenceOfProfile`).
- *A locally validated revision is required for review*: an edit and a composition that
  commit after the status was read put invalid text under review (`DraftReviewRace`).
- *Hard stop on tokens per day* (`docs/ai-assistance.md`): a call across midnight is
  reconciled against the next day (`AiMidnight`).
- *The previous version, which the caller tombstones* (`knowledge_base/db.py`): a file
  replaced by content that another file already brought takes the unchanged path, which
  drops what `record_path` returns; the version before stays findable (`KbOrphan`).  So it does
  where the new content of a file cannot be extracted, which is recorded as a failure and drops it too
  (`KbUnread`).
- *Refuse a preview message that is not generation-ready*
  (`docs/universal-financial-message-rag.md`): a removed source loses its structure row
  and keeps its pack, which the next load registers without the refusal
  (`PreviewNotReady`).

One more has no run of its own, because the shortest history takes four changes of files
and the run `KnowledgeSync` allows two: *a rerun after an interruption simply continues
with what has not been indexed* (`knowledge_base/index.py:6`).  One file holds version A
of a document and is indexed; it is removed, a second file brings version B, and the
sync fails or is killed once B is stored, before the paths not seen are forgotten.  Storing B
has shed A's segments (`db.py:450`), while A's source row and its path stay.  When the second
file is removed and the first is A again, every later sync looks A up, finds it live, takes
it as unchanged (`index.py:154`) and embeds nothing, because it has no segments: A is
not searchable until a sync with the reindex option.  TLC shows it with one run and
`MaxTrouble = 5`, and with 4 where the first two changes happen while a sync goes on, after it
has seen the first file.  That is the gap `stripped` of `KnowledgeSync`, and the
theorem `MirrorsTheFolder` says that no further gap is needed at any bound.

A second is why `SerialEditsKeepTheLayout` counts siblings below a parent id and not in the draft: *this top-level sequence cannot have a
parent* (`repository.py:232`).  `add_sequence` looks the named parent up and refuses one that it finds; an id that
no row has, that of a removed sequence for one, passes, and the row is stored with it.  SQLite
keeps it, since `database.py` turns no foreign keys on; PostgreSQL's key rolls the request
back (`RollBack`).  Siblings are counted under that id, so the limit of a top-level sequence
holds for each id and not for the draft.  The composer finds such rows (`IsBelow`), and no text that passes
has one.

A third is outside what `NothingIsReshaped` compares, which is blocks between `:16R:` and `:16S:`:
*a block that would come back somewhere else is refused, never quietly reshaped*
(`studio/mt/parser.py:721`) does not hold of a sequence without brackets.  The reader counts an
instance as addressed when it holds only its value-less tag (`parser.py:905`); the
generator plans from the values alone (`generator.py:696`).  In the layout `nested`, whose first
sequence needs tag 20, the lines 20, 15B, 18A, 15B, 18A are read as two instances of B with one of B1
in each and are accepted, since the plan with both instances of B has the nesting that was
read; from the values of the import, which leave the second B without any, both
instances of B1 are written in the first: 20, 15B, 18A, 18A.  That is what TLC gives for `Scanned` and
`Written`.  B occurs at most once in that layout, which the import does not look at: the message
that comes in is not valid, and the one that goes out is.

`MxDocument` also shows where the MX side keeps less than
`docs/limitations.md` says ("refused … rather than silently reshaped"), and
`DocumentsRoundTrip` names each as a precondition:

- A document with two repeats of an element inside one repeat of another is accepted,
  because no address is claimed twice, and written as two outer repeats with both inner ones
  in each (`generator.py:778`, `parser.py:430`).  No value is lost: that is checked for every accepted
  document.
- An empty repeat before one with values (a container may be empty) makes occurrence 2 the
  first with a value; inside a block that does not repeat it is not written at all.  The same holds of a
  message whose only value for an element has occurrence 2 (`generator.py:802`).
- Mandatory elements and choices are validated for the message and not for each occurrence: the
  second repeat of a block may lack a mandatory element.

## What is proved

Assumptions: those named in the modules (`RolesAssumption`, `ConstantsAssumption`,
`ThresholdAssumption`, `LimitsAssumption`, `RequestsAssumption`, `UsageAssumption`,
`PathsAssumption`, `NoneAssumption`, `DocsAssumption`, `BoundAssumption`,
`PreviewContents`, `PreviewNone`, `PreviewBound`, `SettlementBounds`, `WorkflowBounds`,
`LayoutAssumption`, `SchemasAreTrees`):
roles are users, model values standing for "none" are not values, requests and files are
finitely many, thresholds, limits and bounds are numbers, a content that passes the gates
compiles.  `LayoutAssumption` is what `_validate_sequences` checks of a
configuration, and that a mandatory sequence stands below a mandatory one that comes first,
as in each message of `supported_subset_v1.yaml`.  `SchemasAreTrees` is what `_flatten` and
`check_leaf_or_branch` guarantee of a specification: a parent is numbered before its
children, a leaf has none, and a choice is not a leaf.

`DraftApproval_proofs`: `TypeCorrect`; `OnlyApprovedIsSubmitted`; `OnlyValidIsSubmitted`;
`PromiseKept`, the refinement of `MakerChecker`; and, for
deployments that serve one request at a time (the assumption `OneRequest`),
`StatusIsTrue`, `ApprovedHasApproval`, `ApprovalsFollowTheText`, `VersionsStay`.  Type correctness
is needed first since a session record's fields depend on its step.  `SubmissionsWereApproved` is not
inductive: a request between `BeginSubmit` and `CommitSubmit` no longer looks at the
approvals.  The strengthening `CheckedByAnother` says that every approval is by a user
other than the creator, that a request about to commit an approval has passed that
guard, and that one about to commit a submission has an approval for its revision and
checksum, active or not; approvals are deactivated and never deleted.  For
`SubmissionsAreValid` the strengthening, `ComposedIsValid`, speaks of the requests that
are composing or submitting: the text they carry passed in their own composition, so
nothing another request does to the status can matter.  The serial theorems share
`SerialInv`: what each status says of the version, the review and the approvals of the
revision (`DraftTells`), and that what the one request has read is still so
(`ReadsCurrent`), which is what an overlap breaks (`DraftReviewRace` shows one).

`AiInterpretation_proofs`: `TypeCorrect`; `BreakerOpensAtThreshold`; `FlightIsSingle`;
`NoCallForACachedAnswer`; `NoLockIsLeaked`; `HardStop`.  `FlightIsSingle`,
`NoCallForACachedAnswer` and `NoLockIsLeaked` follow from one inductive invariant, `FlightInv`:
whoever is in a flight uses the lock object of the table (so a dropped object is nobody's), the user count of a key is the number of requests in its
flight (so the last one to leave is the one that drops it), a lock object has one holder,
and a request past the look-up has a key the cache does not hold.  `LeaveKeeps` is the
heart of it: every way out of the flight, whatever else the step does.  `HardStop` has
an invariant of its own, `BudgetInv`: the day's counter covers what the day's answers
cost plus one estimate for every call in flight, unless a call crossed the last midnight. It says of each new
call that what was spent, the calls in flight and the new one fit the limit;
its lemmas count the calls in flight before and after a step.

`KnowledgeSync_proofs`: `TypeCorrect`; `VectorsFollowText`; `FoundHasSource`;
`RecordedHasSource`; `IndexKeepsPromise`, the refinement of `DocumentIndex`.
`VectorsMatchText` needs `StepVectorInv`, in which the rows that a run has read are still
those of the table while runs do not overlap.  What `Split` copies is a
recursive function of the number of segments (`Copied`); that it has a value at each step, that it changes
nothing but this document's vectors, and that each it copies is of an equal text
(`CopiedSteps`, `CopiedAreRows`, `CopiedStay`) is shown by a least counterexample, the
induction theorems being out of reach.  `SegmentsHaveSources` becomes inductive with `TypesInv`, whose part `RunCarries` says what
a run in the middle of a document holds: a tombstone drops the segments in the same
transaction, and a record that a run read long before and writes again is never a deleted
one, even when another run has tombstoned the content meanwhile.  `PathsHaveSources` holds
without overlap only, by `AloneInv`: one run is active, and a content about to be
touched is present.  The refinement needs `WholeInv`: the segments under an id are
those of one content, all of them, and their rows name one checksum; the transaction of
`Store` keeps it because it sheds every content that holds a segment under the id
(`HoldersOf`).  `SmallestPath` gives the file that comes next in a set of
files by well-founded induction on strict subsets.

The last theorem there, `MirrorsTheFolder`, is that a run without an error leaves the index equal
to the folder.  Its invariant, `MirrorInv`, has three parts, all of histories without
a gap.  `TablesFit`: what is under an id is one content whole, under its own
checksum; a live source is its own content, and one that is present has a path.
`Carries`: what a run holds in the middle of a document agrees with the tables.
`Scans`: how far a clean run has come; the files it has seen are recorded as they are on
disk (`Seen`), and those it has finished are complete in every table (`Done`), which
later files must not undo.  They would, where a second path has stripped a content
that the run then takes as unchanged: the proof stopped there, and the gap
`stripped` names it.

`PreviewLane_proofs`: `TypeCorrect`; `RowsHaveTheirPack`; `CleanSyncServes`;
`SamplesHaveTheirKey`; `CachesFollow`.  The invariant `LaneInv` says
of histories without overlap and without `clean-cache` that one sync is active, that a row is
of the content indexed and tells what became of it, that a pack is written only for a
content without a row (the old row went with the old content, long before), and that the
row is settled by the time of the reload.  `SampleInv` says that, while no request overlaps
a reload, the structure a request has read is the registry's to its end.  `CacheInv`
follows a reload through its parts: what it has cleared stays empty to its end when no
request crosses it, and every request that starts later computes from the same store.  One thing in
an entry does go stale without a crossing, and the theorem says so: samples are stored and never
deleted, so an entry may not yet say that there is one, and never says it of one that is not there.

`Workflows_proofs`, settlement: `SettlementTypeCorrect`; `RebookingIsCancelled`; `CancelledOnce`;
`AmendmentsAreNew`; `SettledStays`.  `RebookedWasCancelled` counts: `RebookInv` reserves the
cancellation of every request that has yet to accept it or to save its replacement, and
says that an instruction has no more replacements than accepted cancellations that nobody
has reserved; two requests never reserve the same one.  `SerialInv` says that what a request
has checked is still so as long as it is alone.  `SettledIsNotRebooked` speaks of roots,
a recursive function along the chain of parents.  `RootsExist` and `RootsAgree` show that
for parents that come earlier (`Earlier`) there is one such function, so that saving a
message leaves every root as it was (`SaveRoots`).  `SettledInv` then says that a
request past its decision is about a root without a full confirmation.

`Workflows_proofs`, corporate actions and penalties: `WorkflowTypeCorrect`; `ChainsHoldTogether`; `DistinctWhenSerial`;
`TakenWhenSerial`.  `ChainInv` says of the message a request is about to save what
`ChainsAreOfOneEvent` says of the saved ones: since nothing is ever changed, a check made
before an interference still stands after it.  The serial ones add that the
reference that a request is about to save is new while it is alone.

`DraftStructure_proofs`: `StructureTypeCorrect`; `SerialEditsAreSound`, for every
configuration.  The rows of a new draft are placed because `RowOf` is one to one and
onto the numbers up to how many mandatory paths there are, and increases with the order (`RowsOfPaths`).
The strengthening, `Serial`, adds for the one request in progress that its reads still hold: an
addition is below its limit and below a row that is there (or, at the top, below none), what is removed has no
children, and an insertion is into a sequence without the field.  A request may name any parent id.

`PassingTextsAreComplete` there is about every arrangement of rows that racing
edits can leave: if the checks pass, the text shows every sequence and every field once.  The text of a
row tells the row, its fields and all that is below it (`RowsTell`), by induction from the last
row to the first, since a parent is always older than its children; what is below two
different children is disjoint (`UnderDisjoint`), and counting tokens adds up over pieces that
are put together (`CountConcatenation`).  Every row is below one without a parent
(`UnderCovers`), because `Passes` has found no lost parent; that is the step that a deleted parent
would break.

`RoundTripsAreBelowFirstParents` says exactly which of those texts survive their import, in both
directions: those in which every parent is the first of its path, and every row without a field is the
first of a mandatory path, which a new draft has.  A text with any other empty sequence
passes (nothing in it is mandatory) and loses it.  It rests on three descriptions.

- *What the parser finds.*  Every part of a text is a `Piece`: it opens some rows in an order `L`, and a
  parser that comes upon it, in whatever state, appends one field for each of them and leaves the
  stack as it was (`BlockPiece`, `PiecesTogether`, `LinesArePieces`).  Of the whole text (`TextIsRead`), what is
  found is the rows that have a field, with numbers that go from one on along each path (`Numbered`); `Marks`, a history
  of the parser, has every row, empty ones included, and the address of the sequence around each.  For rows below
  one parent the numbers have the composer's order, so standing below first occurrences, and being
  the first of a path, is the same by number and by order (`FirstParentsAreFirst`).
- *What the import rebuilds.*  When all rows without a field are first ones of mandatory paths, the addresses
  along each path come in turn, after the first of the parent's path, but for those that a new draft
  has anyway (`Addressed`, with `MandatoryRows` from the composer's counts).  As long
  as it is not refused, an import holds one row for each address so far and each mandatory path,
  below a first occurrence (`DraftRows`, `DraftFields`, `FieldImported`), and it is refused only by an address over
  the limit of its path.
- *Where they meet.*  If the draft stands below first occurrences, all rows of a path are siblings,
  none is over the limit (`ReadWithinLimits`), and taking each imported row to the one with its number
  keeps paths, fields, parents and order (`ImportIsAlike`); such rows have the same text (`LinesAlike`).
  Conversely, if the text of the import is that of the draft, so are their `Marks`, and in an import
  parents are all first, and so is what is empty (`ImportsBelowFirsts`, `SameMarks`).

`MxDocument_proofs`: `DocumentsAlwaysRoundTrip`, for every schema, every document and every
message, from the invariant `MxInv`: nodes of a document open at most one level at a time,
and all but the last are sound; a message is a finite set of values on leaves, one for each
address.  It has two halves.

- *What is imported is written again.*  A written document *spells* a list of visits, one
  for each node: each node encloses exactly what `write` visits inside it, in that order
  (`Forest`, `DocumentSpells`, by induction from the last element down to the message root).  A value is
  reached along its path when the message is `Grounded`: an element around which nothing repeats
  has a value of occurrence 1, or none at all.  What the reader returns is grounded once no
  container is empty (`ReadIsGrounded`), hence no value is lost (`ValuesAreKept`).  If at most one element
  around each value repeats, an element and its occurrence name one place of the document
  (`PlacesAreUnique`), the places inside a node are exactly those that `write` visits there
  (`PlacesAreVisited`), and they come in the same order (`PlacesInOrder`), so the text is the
  document itself, rearranged in the schema's order (`WrittenIsRearranged`).
- *What is generated is read back.*  A valid, numbered message is grounded too.  In the
  document it spells, the index that the reader counts for a node is the occurrence that the
  writer meant (`RepeatsAreCounted`, `OccurrencesAreSpelled`); from that follow, one by one, that the
  nodes are sound, that no address is claimed twice, that the values read are those
  given, and that the mandatory elements and the choices are there.

`Listing_proofs` has what both rest on.  The induction theorems of the library take
an operator as a parameter and cannot be used here, so induction is over the numbers up to a bound, and speaks
of the *set* of numbers that have been reached (`Upwards`, `Downwards`, from a least counterexample);
`Recursion` gives a recursive function whose rule looks only at what has a smaller rank, and is
what the model's recursive functions (`Path`, `Occurrences`, `Document`, `Rearranged`, `Lines`)
are unfolded by.  `InOrderLists` says that a sorted list lists its set, each member once and in
order; `OrderCarriesOver`, that a one-to-one map that keeps the order keeps the list.

Only model-checked: `EveryRequestIsAnswered` (liveness is outside the prover's reach);
`NothingIsReshaped` and `WrittenIsReadBack` of `MtImport`.  Neither holds for every layout, so a theorem
would need conditions on the layouts that say what the corpus has.  Where two optional sequences
without brackets are led by the same tag, no reader can tell them apart, and `WrittenIsReadBack` fails;
where a bracketed sequence has a value-less tag, the gap described above reaches the
blocks, and `NothingIsReshaped` fails.  (The value-less tags of the modelled layouts stand in
sequences without brackets.)  Beyond that, both compare the outcome of one
fold over text with that of another, and a proof would have to carry an
invariant of the reader through each prefix of the text and of what is written.
`BackendTypeOK` puts together what the type theorems say of the parts.

## Not modelled

- *Rule engine, specification engine, mapping, domain model, composers, raw validator,
  bulk, prompts and policies*: functions from one input to one output over registries that
  never change while the program runs.  They have no state, no interleaving and no order
  of events; their correctness is the content of their tables (which tag, which rule,
  which code word), for which the repository has no second definition to compare
  with.  A model of them would be a transcription of those tables.
- *MX application header and business rules, AI authoring beyond samples, retrieval ranking, evaluation*: likewise; what
  a model answers is arbitrary, and the checks on its answers are such functions.
- *Security middleware and rate limiting*: cookies and tokens are functions of the request;
  the limiter is one deque per key in one event loop with no suspension inside.
- *Configuration, profiles, samples, migrations, frontend, scripts*: read once, declarative,
  or outside the program whose state is modelled.

The greater part of the repository's lines is of these kinds, and so the lines that the
definitions here stand for are a small share of all lines: they are the ones that read state,
write it, or decide between the two.

## What could come next

1. A second request or a second sync in `preview`; four sequence rows in `structure`: each is within
   reach of a longer run.
2. Partial confirmations with their quantities (`services/lifecycle.py`), once a document
   says what their sum may be.

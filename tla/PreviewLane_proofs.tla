----------------------------- MODULE PreviewLane_proofs -----------------------------
(* Theorems about the preview lane, for every set of contents, syncs and requests. *)
EXTENDS PreviewLane, TLAPS

LaneTypeOK ==
    /\ indexed \in Content /\ cached \subseteq Contents
    /\ row \in Row /\ pack \in Content
    /\ sync \in [Syncs -> SyncRow]

\* The history in which the row and the pack can be relied on.
Orderly == known \cap {"overlap", "cleaned"} = {}

(***************************************************************************)
(* A row is of the content indexed, and tells what became of it; the one   *)
(* sync that is under way writes a pack only for a content without a row,  *)
(* and has settled the row by the time it reloads.                         *)
(***************************************************************************)
OneSync ==
    /\ \A s, t \in Syncs : Syncing(s) /\ Syncing(t) => s = t
    /\ \A s \in Syncs : sync[s].step = "completed" /\ sync[s].clean => \A t \in Syncs : ~Syncing(t)
RowTells ==
    /\ indexed # None => indexed \in cached
    /\ row.of = None => row = NoRow
    /\ row.of # None => row.of = indexed
    /\ row.packed => pack = row.of /\ (row.ready <=> row.of \in Ready)
    /\ row.of # None /\ ~row.packed => ~row.ready /\ row.of \in Broken
Writes ==
    \A s \in Syncs : sync[s].step \in {"write", "record"} =>
        /\ sync[s].of = indexed /\ indexed # None /\ row = NoRow
        /\ sync[s].step = "record" => pack = indexed
Settles ==
    \A s \in Syncs :
        \/ Syncing(s) /\ sync[s].step \notin {"compile", "write", "record"}
        \/ sync[s].step = "completed" /\ sync[s].clean
        => (indexed # None => row.of = indexed)
LaneInv == LaneTypeOK /\ (Orderly => OneSync /\ RowTells /\ Writes /\ Settles)

LEMMA InitLane == PreviewInit => LaneInv
<1> SUFFICES ASSUME PreviewInit PROVE LaneInv
  OBVIOUS
<1>1. NoRow \in Row /\ NoSync \in SyncRow /\ NoRow.of = None /\ ~NoRow.packed
  BY DEF NoRow, Row, NoSync, SyncRow, Content
<1>2. LaneTypeOK
  BY <1>1 DEF PreviewInit, LaneTypeOK, Content
<1>3. \A s \in Syncs : sync[s].step = "idle"
  BY DEF PreviewInit, NoSync
<1> QED
  BY <1>1, <1>2, <1>3 DEF PreviewInit, LaneInv, OneSync, RowTells, Writes, Settles, Syncing

\* A step that leaves the store alone, and of each sync moves it on or ends it, keeps
\* the invariant when no sync comes to write.
LEMMA StoreStays ==
    ASSUME LaneInv, UNCHANGED store, sync' \in [Syncs -> SyncRow], Orderly' => Orderly,
           \A s \in Syncs : \/ sync'[s] = sync[s]
                            \/ sync'[s].step = "idle"
                            \/ /\ Syncing(s) /\ sync[s].step \notin {"compile", "write", "record"}
                               /\ sync'[s].step \notin {"compile", "write", "record"}
    PROVE  LaneInv'
<1>1. LaneTypeOK'
  BY DEF LaneInv, LaneTypeOK, store
<1> SUFFICES ASSUME Orderly' PROVE OneSync' /\ RowTells' /\ Writes' /\ Settles'
  BY <1>1 DEF LaneInv
<1>2. OneSync /\ RowTells /\ Writes /\ Settles
  BY DEF LaneInv
<1>3. \A s \in Syncs : Syncing(s)' => Syncing(s)
  BY DEF Syncing
<1>4. \A s \in Syncs : (sync[s].step = "completed" /\ sync[s].clean)'
          => (sync[s].step = "completed" /\ sync[s].clean) \/ (Syncing(s) /\ ~Syncing(s)')
  BY DEF Syncing
<1>5. OneSync'
  BY <1>2, <1>3, <1>4 DEF OneSync
<1>6. RowTells'
  BY <1>2 DEF RowTells, store
<1>7. Writes'
  BY <1>2 DEF Writes, store
<1>8. Settles'
  BY <1>2 DEF Settles, Syncing, store
<1> QED
  BY <1>5, <1>6, <1>7, <1>8

\* Reading the source changes the row only with the content.
LEMMA IndexKeeps ==
    ASSUME LaneInv, NEW s \in Syncs, NEW c \in Content, NEW reindex \in BOOLEAN,
           IndexSource(s, c, reindex)
    PROVE  LaneInv'
<1> DEFINE alone == \A t \in Syncs \ {s} : ~Syncing(t)
<1>0. LaneTypeOK
  BY DEF LaneInv
<1>1. NoRow \in Row /\ NoRow.of = None /\ ~NoRow.packed
  BY DEF NoRow, Row, Content
<1>2. row' \in Row
  BY <1>0, <1>1 DEF IndexSource, WithoutRowOf, LaneTypeOK
<1>3. [step |-> "compile", of |-> None, clean |-> alone] \in SyncRow
  BY DEF SyncRow, Content
<1>4. /\ sync' \in [Syncs -> SyncRow]
      /\ sync'[s].step = "compile"
      /\ \A t \in Syncs \ {s} : sync'[t].step = sync[t].step /\ ~sync'[t].clean
  BY <1>0, <1>3 DEF IndexSource, LaneTypeOK, SyncRow
<1>5. LaneTypeOK'
  BY <1>0, <1>2, <1>4 DEF IndexSource, LaneTypeOK, Content
<1> SUFFICES ASSUME Orderly' PROVE OneSync' /\ RowTells' /\ Writes' /\ Settles'
  BY <1>5 DEF LaneInv
<1>6. alone /\ Orderly
  BY DEF IndexSource, Orderly
<1>7. OneSync /\ RowTells
  BY <1>6 DEF LaneInv
<1>8. OneSync'
  BY <1>4, <1>6 DEF OneSync, Syncing
<1>9. Writes' /\ Settles'
  BY <1>4, <1>6 DEF Writes, Settles, Syncing
<1>10. RowTells'
  <2>1. indexed' # None => indexed' \in cached'
    BY <1>0, <1>7 DEF IndexSource, RowTells, LaneTypeOK, Content
  <2>2. CASE c = indexed
    BY <1>7, <2>1, <2>2 DEF IndexSource, RowTells
  <2>3. CASE c # indexed
    <3>1. row' = NoRow
      BY <1>7, <2>3 DEF IndexSource, RowTells, WithoutRowOf
    <3> QED
      BY <1>1, <2>1, <3>1 DEF RowTells
  <2> QED
    BY <2>2, <2>3
<1> QED
  BY <1>8, <1>9, <1>10

\* A sync that writes the store, alone.
LEMMA Lone ==
    ASSUME LaneInv, Orderly, NEW s \in Syncs, Syncing(s)
    PROVE  /\ \A t \in Syncs \ {s} : ~Syncing(t) /\ ~(sync[t].step = "completed" /\ sync[t].clean)
           /\ RowTells /\ Writes
  BY DEF LaneInv, OneSync

LEMMA LoneKeeps ==
    ASSUME LaneInv, Orderly, NEW s \in Syncs, Syncing(s),
           \A t \in Syncs \ {s} : sync'[t] = sync[t], sync'[s].step # "completed",
           sync'[s].step \in {"write", "record"} =>
               /\ (sync[s].of = indexed /\ indexed # None /\ row = NoRow)'
               /\ sync'[s].step = "record" => (pack = indexed)',
           sync'[s].step \notin {"idle", "compile", "write", "record"} =>
               (indexed # None => row.of = indexed)'
    PROVE  OneSync' /\ Writes' /\ Settles'
<1>1. \A t \in Syncs \ {s} : ~Syncing(t)' /\ ~(sync[t].step = "completed" /\ sync[t].clean)'
  BY Lone DEF Syncing
<1>2. OneSync'
  BY <1>1 DEF OneSync
<1>3. Writes'
  BY <1>1 DEF Writes, Syncing
<1>4. Settles'
  BY <1>1 DEF Settles, Syncing
<1> QED
  BY <1>2, <1>3, <1>4

LEMMA CompileKeeps ==
    ASSUME LaneInv, NEW s \in Syncs, Compile(s)
    PROVE  LaneInv'
<1>0. LaneTypeOK /\ sync \in [Syncs -> SyncRow] /\ indexed \in Content
  BY DEF LaneInv, LaneTypeOK
<1> DEFINE failed == indexed # None /\ ~Reuses(indexed)
                         /\ (indexed \notin cached \/ indexed \in Broken)
           failure == [of |-> indexed, packed |-> FALSE, ready |-> FALSE]
<1>1. PICK step \in {"reset", "write"} :
          /\ sync' = [sync EXCEPT ![s].step = step, ![s].of = indexed]
          /\ step = "write" <=> ~(indexed = None \/ Reuses(indexed) \/ failed)
  BY DEF Compile
<1>2. row' = (IF failed THEN failure ELSE row) /\ UNCHANGED <<indexed, cached, pack, known>>
  BY DEF Compile
<1>3. /\ sync' \in [Syncs -> SyncRow] /\ sync'[s].step = step /\ sync'[s].of = indexed
      /\ \A t \in Syncs \ {s} : sync'[t] = sync[t]
  BY <1>0, <1>1 DEF SyncRow
<1>4. failure \in Row /\ failure.of = indexed /\ failure.packed = FALSE /\ failure.ready = FALSE
  BY <1>0 DEF Row
<1>5. LaneTypeOK'
  BY <1>0, <1>2, <1>3, <1>4 DEF LaneTypeOK
<1> SUFFICES ASSUME Orderly' PROVE OneSync' /\ RowTells' /\ Writes' /\ Settles'
  BY <1>5 DEF LaneInv
<1>6. Orderly /\ Syncing(s)
  BY <1>2 DEF Orderly, Compile, Syncing
<1>7. RowTells
  BY <1>6, Lone
<1> HIDE DEF failure
<1>8. RowTells'
  BY <1>2, <1>4, <1>7 DEF RowTells
<1>9. ASSUME step = "write" PROVE indexed # None /\ row = NoRow /\ row' = row
  BY <1>1, <1>2, <1>7, <1>9 DEF Reuses, RowTells
<1>10. ASSUME step = "reset" PROVE indexed # None => row'.of = indexed
  BY <1>1, <1>2, <1>4, <1>10 DEF Reuses
<1>11. OneSync' /\ Writes' /\ Settles'
  BY <1>1, <1>2, <1>3, <1>6, <1>9, <1>10, LoneKeeps
<1> QED
  BY <1>8, <1>11

LEMMA WriteKeeps ==
    ASSUME LaneInv, NEW s \in Syncs, WritePack(s)
    PROVE  LaneInv'
<1>0. LaneTypeOK /\ sync \in [Syncs -> SyncRow]
  BY DEF LaneInv, LaneTypeOK
<1>1. /\ sync' \in [Syncs -> SyncRow] /\ sync'[s].step = "record" /\ sync'[s].of = sync[s].of
      /\ \A t \in Syncs \ {s} : sync'[t] = sync[t]
  BY <1>0 DEF WritePack, SyncRow
<1>2. LaneTypeOK'
  BY <1>0, <1>1 DEF WritePack, LaneTypeOK, SyncRow
<1> SUFFICES ASSUME Orderly' PROVE OneSync' /\ RowTells' /\ Writes' /\ Settles'
  BY <1>2 DEF LaneInv
<1>3. Orderly /\ Syncing(s)
  BY DEF Orderly, WritePack, Syncing
<1>4. RowTells /\ sync[s].of = indexed /\ indexed # None /\ row = NoRow
  BY <1>3, Lone DEF Writes, WritePack
<1>5. RowTells'
  BY <1>4 DEF WritePack, RowTells, NoRow
<1>6. OneSync' /\ Writes' /\ Settles'
  BY <1>1, <1>3, <1>4, LoneKeeps DEF WritePack
<1> QED
  BY <1>5, <1>6

LEMMA RecordKeeps ==
    ASSUME LaneInv, NEW s \in Syncs, RecordStructure(s)
    PROVE  LaneInv'
<1>0. LaneTypeOK /\ sync \in [Syncs -> SyncRow]
  BY DEF LaneInv, LaneTypeOK
<1>1. /\ sync' \in [Syncs -> SyncRow] /\ sync'[s].step = "reset"
      /\ \A t \in Syncs \ {s} : sync'[t] = sync[t]
  BY <1>0 DEF RecordStructure, SyncRow
<1>2. /\ row' = [of |-> sync[s].of, packed |-> TRUE, ready |-> sync[s].of \in Ready]
      /\ row' \in Row /\ row'.of = sync[s].of /\ row'.packed /\ (row'.ready <=> sync[s].of \in Ready)
  <2>1. row' = [of |-> sync[s].of, packed |-> TRUE, ready |-> sync[s].of \in Ready]
    BY DEF RecordStructure
  <2>2. sync[s].of \in Content
    BY <1>0 DEF SyncRow
  <2>3. (sync[s].of \in Ready) \in BOOLEAN
    OBVIOUS
  <2>4. row' \in Row
    BY <2>1, <2>2, <2>3 DEF Row
  <2>5. row'.of = sync[s].of /\ row'.packed
    BY <2>1
  <2>6. row'.ready <=> sync[s].of \in Ready
    BY <2>1, Zenon
  <2> QED
    BY <2>1, <2>4, <2>5, <2>6
<1>3. LaneTypeOK'
  BY <1>0, <1>1, <1>2 DEF RecordStructure, LaneTypeOK
<1> SUFFICES ASSUME Orderly' PROVE OneSync' /\ RowTells' /\ Writes' /\ Settles'
  BY <1>3 DEF LaneInv
<1>4. Orderly /\ Syncing(s)
  BY DEF Orderly, RecordStructure, Syncing
<1>5. RowTells /\ sync[s].of = indexed /\ indexed # None /\ pack = indexed
  BY <1>4, Lone DEF Writes, RecordStructure
<1>6. RowTells'
  BY <1>2, <1>5 DEF RecordStructure, RowTells
<1>7. OneSync' /\ Writes' /\ Settles'
  BY <1>1, <1>2, <1>4, <1>5, LoneKeeps DEF RecordStructure
<1> QED
  BY <1>6, <1>7

\* Every step keeps the invariant.
LEMMA StepKeepsLane == LaneInv /\ [PreviewNext]_previewVars => LaneInv'
<1> SUFFICES ASSUME LaneInv, [PreviewNext]_previewVars PROVE LaneInv'
  OBVIOUS
<1>0. sync \in [Syncs -> SyncRow] /\ LaneTypeOK
  BY DEF LaneInv, LaneTypeOK
<1>1. CASE UNCHANGED previewVars
  BY <1>0, <1>1, StoreStays DEF previewVars, Orderly
<1>2. ASSUME NEW s \in Syncs, SyncStops(s) PROVE LaneInv'
  <2>1. NoSync \in SyncRow /\ NoSync.step = "idle"
    BY DEF NoSync, SyncRow, Content
  <2> QED
    BY <1>0, <1>2, <2>1, StoreStays DEF SyncStops, Orderly
<1>3. ASSUME NEW s \in Syncs,
             NEW from \in {"reset", "load", "view", "answer", "spec", "view2", "answer2"},
             NEW to \in {"load", "view", "answer", "spec", "view2", "answer2", "completed"},
             Reloading(s, from, to)
      PROVE  LaneInv'
  <2>1. /\ sync' \in [Syncs -> SyncRow] /\ sync'[s].step = to
        /\ \A t \in Syncs \ {s} : sync'[t] = sync[t]
    BY <1>0, <1>3 DEF Reloading, SyncRow
  <2>2. Orderly' => Orderly
    BY <1>3 DEF Reloading, Orderly
  <2>3. Syncing(s) /\ sync[s].step \notin {"compile", "write", "record"} /\ UNCHANGED store
    BY <1>3 DEF Reloading, Syncing
  <2> QED
    BY <1>0, <2>1, <2>2, <2>3, StoreStays
<1>4. ASSUME NEW q \in Requests, RequestStep(q) PROVE LaneInv'
  <2>1. UNCHANGED <<store, sync>> /\ known \subseteq known'
    BY <1>4 DEF RequestStep, AskCatalogue, CountSources, FindSamples, Project, KeepSpec, KeepCatalogue,
       KeepResponse, AskSample, LookUp, Generate, Candidate, Composed, PutSample, Reads, Crossing
  <2> QED
    BY <1>0, <2>1, StoreStays DEF Orderly
<1>5. CASE Restart
  <2>1. NoSync \in SyncRow /\ NoSync.step = "idle"
    BY DEF NoSync, SyncRow, Content
  <2> QED
    BY <1>0, <1>5, <2>1, StoreStays DEF Restart, Orderly
<1>6. CASE CleanCache
  <2>1. LaneTypeOK' /\ ~Orderly'
    BY <1>0, <1>6 DEF CleanCache, LaneTypeOK, Content, Orderly
  <2> QED
    BY <2>1 DEF LaneInv
<1>7. ASSUME NEW s \in Syncs, SyncStep(s) PROVE LaneInv'
  BY <1>2, <1>3, <1>7, IndexKeeps, CompileKeeps, WriteKeeps, RecordKeeps
     DEF SyncStep, ResetRegistries, LoadRegistries, ClearCatalogue, ClearResponse, ClearSpec
<1> QED
  BY <1>1, <1>4, <1>5, <1>6, <1>7 DEF PreviewNext

\* A row that claims a pack has the pack of its own content, whatever sync was killed
\* between the file and the row: unless syncs overlapped or the cache was cleaned.
THEOREM RowsHaveTheirPack == PreviewSpec => []PackIsOfItsRow
<1>1. LaneInv => PackIsOfItsRow
  BY DEF LaneInv, Orderly, RowTells, PackIsOfItsRow
<1> QED
  BY <1>1, InitLane, StepKeepsLane, PTL DEF PreviewSpec

\* After a sync that ran alone to its end the lane serves the content of the source or
\* refuses it, as its pack passed the gates or not, whatever earlier syncs left behind.
THEOREM CleanSyncServes == PreviewSpec => []CleanSyncServesTheSource
<1>1. LaneInv => CleanSyncServesTheSource
  <2> SUFFICES ASSUME LaneInv, Orderly, indexed # None,
                      NEW s \in Syncs, sync[s].step = "completed", sync[s].clean
               PROVE  Resolved(Load) = IF indexed \in Ready THEN indexed ELSE None
    BY DEF CleanSyncServesTheSource, Orderly
  <2>1. row.of = indexed /\ RowTells /\ row \in Row
    BY DEF LaneInv, Settles, LaneTypeOK
  <2>2. Load.row = row /\ Load.pack = pack
    BY DEF Load
  <2>3. row # NoRow
    BY <2>1 DEF NoRow
  <2>4. row.ready => row.packed
    BY <2>1 DEF RowTells
  <2>5. row.ready <=> indexed \in Ready
    BY <2>1, <2>4, PreviewContents DEF RowTells, Row
  <2>6. row.ready => pack = indexed
    BY <2>1, <2>4 DEF RowTells
  <2> QED
    BY <2>2, <2>3, <2>5, <2>6 DEF Resolved
<1> QED
  BY <1>1, InitLane, StepKeepsLane, PTL DEF PreviewSpec

--------------------------------------------------------------------------------
(***************************************************************************)
(* The types of what the process holds and of what requests carry.         *)
(***************************************************************************)
CarriesSpec(row1) ==
    /\ row1.step \in {"generate", "call", "put"} => row1.view.spec \in Contents
    /\ row1.step \in {"call", "put"} => row1.made \in Contents
RequestsTypeOK ==
    request \in [Requests -> RequestRow] /\ \A q \in Requests : CarriesSpec(request[q])
CachesTypeOK ==
    /\ registry \in Loaded /\ spec \in Content /\ catalogue \in View /\ response \in View
    /\ DOMAIN sample \subseteq Contents \X Content /\ sample \in [DOMAIN sample -> Contents]
HistoryTypeOK == known \subseteq {"overlap", "crossed", "cleaned"} /\ used \in 0 .. MaxTrouble

TypesInv == LaneTypeOK /\ RequestsTypeOK /\ CachesTypeOK /\ HistoryTypeOK

LEMMA NullTypes ==
    /\ NoRow \in Row /\ Unloaded \in Loaded /\ NoView \in View /\ NoRequest \in RequestRow
    /\ None \in Content /\ CarriesSpec(NoRequest)
  BY DEF NoRow, Row, Unloaded, Loaded, NoView, View, NoRequest, RequestRow, Content, CarriesSpec

LEMMA InitTypes == PreviewInit => TypesInv
<1> SUFFICES ASSUME PreviewInit PROVE TypesInv
  OBVIOUS
<1>1. LaneTypeOK
  BY InitLane DEF LaneInv
<1>2. RequestsTypeOK
  BY NullTypes DEF PreviewInit, RequestsTypeOK
<1>3. CachesTypeOK
  BY NullTypes DEF PreviewInit, CachesTypeOK
<1>4. HistoryTypeOK
  BY PreviewBound DEF PreviewInit, HistoryTypeOK
<1> QED
  BY <1>1, <1>2, <1>3, <1>4 DEF TypesInv

LEMMA RegistryTypes ==
    ASSUME TypesInv
    PROVE  /\ Load \in Loaded /\ Registries \in Loaded
           /\ Resolved(Load) \in Content /\ Resolved(Registries) \in Content
<1>1. Load \in Loaded
  BY DEF TypesInv, LaneTypeOK, Load, Loaded
<1>2. Registries \in Loaded
  BY <1>1 DEF Registries, TypesInv, CachesTypeOK
<1>3. ASSUME NEW loaded \in Loaded PROVE Resolved(loaded) \in Content
  BY NullTypes DEF Resolved, Loaded
<1> QED
  BY <1>1, <1>2, <1>3

LEMMA EntersTypes ==
    ASSUME TypesInv, NEW q \in Requests, NEW row1 \in RequestRow, CarriesSpec(row1),
           request' = [request EXCEPT ![q] = row1]
    PROVE  RequestsTypeOK'
<1>1. request' \in [Requests -> RequestRow]
  BY DEF TypesInv, RequestsTypeOK
<1>2. \A p \in Requests : request'[p] \in {row1, request[p]}
  BY DEF TypesInv, RequestsTypeOK
<1> QED
  BY <1>1, <1>2 DEF TypesInv, RequestsTypeOK, CarriesSpec

LEMMA GoesTypes ==
    ASSUME TypesInv, NEW q \in Requests, NEW view \in View,
           NEW step \in {"count", "find", "project", "keep", "list", "respond", "resolve", "hold", "look"},
           Goes(q, step, view)
    PROVE  RequestsTypeOK'
<1> DEFINE row1 == [request[q] EXCEPT !.step = step, !.view = view]
<1>1. request[q] \in RequestRow
  BY DEF TypesInv, RequestsTypeOK
<1>2. row1 \in RequestRow /\ row1.step = step
  BY <1>1 DEF RequestRow
<1>3. request' = [request EXCEPT ![q] = row1]
  BY <1>1 DEF Goes, TypesInv, RequestsTypeOK, RequestRow
<1> QED
  BY <1>2, <1>3, EntersTypes DEF CarriesSpec

LEMMA DoneTypes ==
    ASSUME TypesInv, NEW q \in Requests, Done(q)
    PROVE  RequestsTypeOK'
  BY NullTypes, EntersTypes DEF Done

\* A step of a request keeps the types of what it carries and of what it stores.
LEMMA RequestKeepsTypes ==
    ASSUME TypesInv, NEW q \in Requests, RequestStep(q)
    PROVE  RequestsTypeOK' /\ CachesTypeOK'
<1>0. /\ request[q] \in RequestRow /\ request[q].view \in View /\ CarriesSpec(request[q])
      /\ CachesTypeOK /\ LaneTypeOK
  BY DEF TypesInv, RequestsTypeOK, RequestRow
<1>1. CASE AskCatalogue(q)
  <2>1. [NoView EXCEPT !.row = Registries.row] \in View
    BY NullTypes, RegistryTypes DEF View, Loaded
  <2>2. RequestsTypeOK'
    BY <1>0, <1>1, <2>1, GoesTypes DEF AskCatalogue, CachesTypeOK
  <2> QED
    BY <1>0, <1>1, <2>2, RegistryTypes DEF AskCatalogue, CachesTypeOK, views
<1>2. CASE CountSources(q)
  <2>1. [request[q].view EXCEPT !.sources = indexed] \in View
    BY <1>0 DEF View, LaneTypeOK
  <2>2. RequestsTypeOK'
    BY <1>2, <2>1, GoesTypes DEF CountSources
  <2> QED
    BY <1>0, <1>2, <2>2 DEF CountSources, CachesTypeOK, views, Reads
<1>11. CASE FindSamples(q)
  <2>1. [request[q].view EXCEPT !.sampled = AnySample] \in View
    BY <1>0 DEF View, AnySample
  <2>2. RequestsTypeOK'
    BY <1>11, <2>1, GoesTypes DEF FindSamples
  <2> QED
    BY <1>0, <1>11, <2>2 DEF FindSamples, CachesTypeOK, views, Reads
<1>3. ASSUME NEW from, NEW to \in {"keep", "hold"}, NEW after \in {"list", "look"},
             Project(q, from, to, after)
      PROVE  RequestsTypeOK' /\ CachesTypeOK'
  <2> DEFINE answer == IF spec # None THEN spec ELSE Resolved(Registries)
             view == [request[q].view EXCEPT !.spec = answer]
  <2>1. answer \in Content
    BY <1>0, RegistryTypes DEF CachesTypeOK
  <2>2. view \in View
    BY <1>0, <2>1 DEF View
  <2>3. RequestsTypeOK'
    <3>1. PICK step \in {"keep", "hold", "list", "look"} : Goes(q, step, view)
      BY <1>3 DEF Project
    <3> QED
      BY <2>2, <3>1, GoesTypes
  <2> QED
    BY <1>0, <1>3, <2>3, RegistryTypes DEF Project, CachesTypeOK, views, Reads
<1>4. ASSUME NEW from, NEW to \in {"list", "look"}, KeepSpec(q, from, to)
      PROVE  RequestsTypeOK' /\ CachesTypeOK'
  <2>1. RequestsTypeOK'
    BY <1>0, <1>4, GoesTypes DEF KeepSpec
  <2>2. request[q].view.spec \in Content
    BY <1>0 DEF View
  <2> QED
    BY <1>0, <1>4, <2>1, <2>2 DEF KeepSpec, CachesTypeOK, Reads
<1>5. CASE KeepCatalogue(q)
  <2> DEFINE view == [request[q].view EXCEPT !.there = TRUE,
                         !.sampled = request[q].view.sampled /\ request[q].view.spec # None]
  <2>1. view \in View
    BY <1>0 DEF View
  <2>2. RequestsTypeOK'
    BY <1>5, <2>1, GoesTypes DEF KeepCatalogue
  <2> QED
    BY <1>0, <1>5, <2>1, <2>2 DEF KeepCatalogue, CachesTypeOK, Reads
<1>6. CASE KeepResponse(q)
  BY <1>0, <1>6, DoneTypes DEF KeepResponse, CachesTypeOK, Reads
<1>7. CASE AskSample(q)
  BY <1>0, <1>7, NullTypes, GoesTypes DEF AskSample, CachesTypeOK, views
<1>8. ASSUME NEW refresh \in BOOLEAN, LookUp(q, refresh)
      PROVE  RequestsTypeOK' /\ CachesTypeOK'
  <2> DEFINE row1 == [request[q] EXCEPT !.step = "generate", !.index = indexed]
  <2>1. row1 \in RequestRow /\ row1.view = request[q].view /\ row1.step = "generate"
    BY <1>0 DEF RequestRow, LaneTypeOK
  <2>2. request' = [request EXCEPT ![q] = row1] /\ request[q].view.spec # None => RequestsTypeOK'
    BY <1>0, <2>1, EntersTypes DEF CarriesSpec, View, Content
  <2>3. Done(q) \/ (request' = [request EXCEPT ![q] = row1] /\ request[q].view.spec # None)
    BY <1>0, <1>8 DEF LookUp, TypesInv, RequestsTypeOK, RequestRow
  <2>4. RequestsTypeOK'
    BY <2>2, <2>3, DoneTypes
  <2> QED
    BY <1>0, <1>8, <2>4 DEF LookUp, CachesTypeOK, views, Reads
<1>9. ASSUME NEW from \in {"generate", "call"}, NEW to \in {"call", "put"}, Composed(q, from, to)
      PROVE  RequestsTypeOK' /\ CachesTypeOK'
  <2> DEFINE now == Resolved(Registries)
             row1 == [request[q] EXCEPT !.step = to, !.made = now]
  <2>1. now \in Content
    BY RegistryTypes
  <2>2. row1 \in RequestRow /\ row1.view = request[q].view /\ row1.step = to /\ row1.made = now
    BY <1>0, <2>1 DEF RequestRow
  <2>3. request[q].view.spec \in Contents
    BY <1>0, <1>9 DEF Composed, CarriesSpec
  <2>4. request' = [request EXCEPT ![q] = row1] /\ now # None => RequestsTypeOK'
    BY <2>1, <2>2, <2>3, EntersTypes DEF CarriesSpec, Content
  <2>5. Done(q) \/ (request' = [request EXCEPT ![q] = row1] /\ now # None)
    BY <1>0, <1>9 DEF Composed, TypesInv, RequestsTypeOK, RequestRow
  <2>6. RequestsTypeOK'
    BY <2>4, <2>5, DoneTypes
  <2> QED
    BY <1>0, <1>9, <2>6, RegistryTypes DEF Composed, CachesTypeOK, views, Reads
<1>10. CASE PutSample(q)
  <2>1. request[q].view.spec \in Contents /\ request[q].made \in Contents
        /\ request[q].index \in Content
    BY <1>0, <1>10 DEF PutSample, CarriesSpec, RequestRow
  <2>2. KeysOf(q) \subseteq Contents \X Content
    BY <2>1 DEF KeysOf
  <2>3. DOMAIN sample' = DOMAIN sample \cup KeysOf(q)
    BY <1>10 DEF PutSample
  <2>4. \A k \in DOMAIN sample' : sample'[k] \in Contents
    BY <1>0, <1>10, <2>1, <2>3 DEF PutSample, CachesTypeOK
  <2>5. sample' \in [DOMAIN sample' -> Contents]
    BY <1>10, <2>3, <2>4 DEF PutSample
  <2> QED
    BY <1>0, <1>10, <2>2, <2>3, <2>5, DoneTypes DEF PutSample, CachesTypeOK, views
<1> QED
  BY <1>1, <1>2, <1>3, <1>4, <1>5, <1>6, <1>7, <1>8, <1>9, <1>10, <1>11
     DEF RequestStep, Generate, Candidate

LEMMA StepKeepsTypes == TypesInv /\ LaneInv /\ [PreviewNext]_previewVars => TypesInv'
<1> SUFFICES ASSUME TypesInv, LaneInv, [PreviewNext]_previewVars PROVE TypesInv'
  OBVIOUS
<1>1. LaneTypeOK'
  BY StepKeepsLane DEF LaneInv
<1>2. CASE UNCHANGED previewVars
  <2>1. UNCHANGED <<request, known, used, sample, registry, spec, catalogue, response>>
    BY <1>2 DEF previewVars, views
  <2> QED
    BY <1>1, <2>1 DEF TypesInv, RequestsTypeOK, CachesTypeOK, HistoryTypeOK, CarriesSpec
<1>3. ASSUME NEW s \in Syncs, SyncStep(s)
      PROVE  RequestsTypeOK' /\ CachesTypeOK' /\ HistoryTypeOK'
  <2>1. UNCHANGED <<request, sample>>
    BY <1>3 DEF SyncStep, IndexSource, Compile, WritePack, RecordStructure, ResetRegistries,
       LoadRegistries, ClearCatalogue, ClearResponse, ClearSpec, SyncStops, Reloading
  <2>2. /\ registry' \in {registry, Unloaded, Registries}
        /\ spec' \in {spec, None} /\ catalogue' \in {catalogue, NoView}
        /\ response' \in {response, NoView}
    BY <1>3 DEF SyncStep, IndexSource, Compile, WritePack, RecordStructure, ResetRegistries,
       LoadRegistries, ClearCatalogue, ClearResponse, ClearSpec, SyncStops, views
  <2>3. known' \subseteq known \cup {"overlap", "crossed"} /\ (used' = used \/ \E n \in Nat : Spend(n))
    BY <1>3 DEF SyncStep, IndexSource, Compile, WritePack, RecordStructure, ResetRegistries,
       LoadRegistries, ClearCatalogue, ClearResponse, ClearSpec, SyncStops, Reloading
  <2>4. used' \in 0 .. MaxTrouble
    BY <2>3, PreviewBound DEF Spend, TypesInv, HistoryTypeOK
  <2> QED
    BY <2>1, <2>2, <2>3, <2>4, NullTypes, RegistryTypes
       DEF TypesInv, RequestsTypeOK, CachesTypeOK, HistoryTypeOK, CarriesSpec
<1>4. ASSUME NEW q \in Requests, RequestStep(q)
      PROVE  RequestsTypeOK' /\ CachesTypeOK' /\ HistoryTypeOK'
  <2>1. known' \subseteq known \cup {"crossed"} /\ used' = used
    BY <1>4 DEF RequestStep, AskCatalogue, CountSources, FindSamples, Project, KeepSpec, KeepCatalogue,
       KeepResponse, AskSample, LookUp, Generate, Candidate, Composed, PutSample, Reads, Crossing
  <2> QED
    BY <1>4, <2>1, RequestKeepsTypes DEF TypesInv, HistoryTypeOK
<1>5. ASSUME Restart
      PROVE  RequestsTypeOK' /\ CachesTypeOK' /\ HistoryTypeOK'
  <2>1. RequestsTypeOK'
    BY <1>5, NullTypes DEF Restart, RequestsTypeOK
  <2>2. CachesTypeOK'
    BY <1>5, NullTypes DEF Restart, TypesInv, CachesTypeOK
  <2> QED
    BY <1>5, <2>1, <2>2 DEF Restart, TypesInv, HistoryTypeOK
<1>6. ASSUME CleanCache
      PROVE  RequestsTypeOK' /\ CachesTypeOK' /\ HistoryTypeOK'
  <2>1. RequestsTypeOK' /\ CachesTypeOK'
    BY <1>6 DEF CleanCache, TypesInv, RequestsTypeOK, CachesTypeOK, views, CarriesSpec
  <2>2. used' \in 0 .. MaxTrouble
    BY <1>6, PreviewBound DEF CleanCache, Spend, TypesInv, HistoryTypeOK
  <2>3. known' = known \cup {"cleaned"}
    BY <1>6 DEF CleanCache
  <2> QED
    BY <2>1, <2>2, <2>3 DEF TypesInv, HistoryTypeOK
<1>7. CASE PreviewNext
  <2>1. RequestsTypeOK' /\ CachesTypeOK' /\ HistoryTypeOK'
    BY <1>3, <1>4, <1>5, <1>6, <1>7 DEF PreviewNext
  <2> QED
    BY <1>1, <2>1 DEF TypesInv
<1> QED
  BY <1>2, <1>7

LEMMA LaneHolds == PreviewSpec => [](LaneInv /\ TypesInv)
  BY InitLane, StepKeepsLane, InitTypes, StepKeepsTypes, PTL DEF PreviewSpec

\* What is on disk, what the process holds and what syncs and requests carry keep their
\* types: a cached sample is of a content, never of nothing.
THEOREM TypeCorrect == PreviewSpec => []PreviewTypeOK
<1>1. TypesInv => PreviewTypeOK
  BY DEF TypesInv, LaneTypeOK, RequestsTypeOK, CachesTypeOK, HistoryTypeOK, PreviewTypeOK
<1> QED
  BY <1>1, LaneHolds, PTL

--------------------------------------------------------------------------------
(***************************************************************************)
(* AI samples.  As long as no request overlaps a reload, a request that    *)
(* holds a structure holds that of the registry, which nothing replaces    *)
(* under it; and the cached structure is that of the registry, except      *)
(* while a sync is between its reset and the clearing of that cache.       *)
(***************************************************************************)
Stale(s) == sync[s].step \in {"load", "view", "answer", "spec"}
SpecFollows == spec # None => registry.there /\ spec = Resolved(registry)
HoldsRegistry(q) ==
    /\ request[q].step \in {"keep", "hold", "look", "generate", "call", "put"} =>
          registry.there /\ request[q].view.spec = Resolved(registry)
    /\ request[q].step \in {"call", "put"} => request[q].made = request[q].view.spec

Uncrossed ==
    /\ Reload => ~Busy
    /\ (\A s \in Syncs : ~Stale(s)) => SpecFollows
    /\ \A q \in Requests : HoldsRegistry(q)
    /\ \A k \in DOMAIN sample : sample[k] = k[1]
SampleInv == "crossed" \notin known => Uncrossed

LEMMA InitSamples == PreviewInit => SampleInv
<1> SUFFICES ASSUME PreviewInit PROVE Uncrossed
  BY DEF SampleInv
<1>1. \A q \in Requests : request[q].step = "idle"
  BY DEF PreviewInit, NoRequest
<1>2. spec = None /\ DOMAIN sample = {}
  BY DEF PreviewInit
<1> QED
  BY <1>1, <1>2 DEF Uncrossed, Busy, SpecFollows, HoldsRegistry

\* A step of a sync that is no reload.
LEMMA ElsewhereKeepsSamples ==
    ASSUME SampleInv, UNCHANGED <<registry, spec, sample, request>>, known \subseteq known',
           \A s \in Syncs : \/ sync'[s].step = sync[s].step
                            \/ /\ sync'[s].step \in {"idle", "compile", "write", "record", "reset"}
                               /\ sync[s].step \in {"idle", "completed", "compile", "write",
                                                    "record", "reset"}
    PROVE  SampleInv'
<1> SUFFICES ASSUME "crossed" \notin known' PROVE Uncrossed'
  BY DEF SampleInv
<1>1. Uncrossed
  BY DEF SampleInv
<1>2. Reload' = Reload /\ Busy' = Busy
  BY DEF Reload, Busy
<1>3. \A s \in Syncs : Stale(s)' = Stale(s)
  BY DEF Stale
<1>4. SpecFollows' = SpecFollows /\ \A q \in Requests : HoldsRegistry(q)' = HoldsRegistry(q)
  BY DEF SpecFollows, HoldsRegistry, Resolved
<1> QED
  BY <1>1, <1>2, <1>3, <1>4 DEF Uncrossed

\* A step of a reload, which nobody overlaps.
LEMMA ReloadKeepsSamples ==
    ASSUME TypesInv, SampleInv, NEW s \in Syncs, NEW from, NEW to, Reloading(s, from, to),
           (\A t \in Syncs : ~Stale(t))' => SpecFollows'
    PROVE  SampleInv'
<1> SUFFICES ASSUME "crossed" \notin known' PROVE Uncrossed'
  BY DEF SampleInv
<1>1. Uncrossed /\ ~Busy /\ UNCHANGED <<request, sample>>
  BY DEF SampleInv, Reloading
<1>2. ~Busy' /\ \A q \in Requests : request'[q].step = "idle"
  BY <1>1 DEF Busy
<1> QED
  BY <1>1, <1>2 DEF Uncrossed, HoldsRegistry

\* A step of a request, after which the registry is loaded or as it was.
LEMMA RequestKeepsRegistry ==
    ASSUME TypesInv, SampleInv, NEW q \in Requests, UNCHANGED sync,
           Busy \/ known' = Crossing, known \subseteq known',
           registry' \in {registry, Registries},
           \A p \in Requests \ {q} : request'[p] = request[p],
           ("crossed" \notin known' /\ Uncrossed) =>
              /\ HoldsRegistry(q)'
              /\ spec' \in {spec, None} \/ (spec' = Resolved(registry) /\ registry.there)
              /\ (\A k \in DOMAIN sample : sample[k] = k[1])'
    PROVE  SampleInv'
<1> SUFFICES ASSUME "crossed" \notin known' PROVE Uncrossed'
  BY DEF SampleInv
<1>1. Uncrossed
  BY DEF SampleInv
<1>2. registry.there => registry' = registry
  BY DEF Registries
<1>3. ~Reload /\ ~Reload' /\ \A s \in Syncs : ~Stale(s)
  BY <1>1 DEF Uncrossed, Crossing, Reload, Stale
<1>4. SpecFollows'
  BY <1>1, <1>2, <1>3 DEF Uncrossed, SpecFollows, Resolved
<1>5. \A p \in Requests : HoldsRegistry(p)'
  BY <1>1, <1>2 DEF Uncrossed, HoldsRegistry, Resolved
<1> QED
  BY <1>1, <1>3, <1>4, <1>5 DEF Uncrossed

LEMMA RequestKeepsSamples ==
    ASSUME TypesInv, SampleInv, NEW q \in Requests, RequestStep(q)
    PROVE  SampleInv'
<1>0. /\ request \in [Requests -> RequestRow] /\ request[q] \in RequestRow
      /\ request[q].view \in View /\ CachesTypeOK
  BY DEF TypesInv, RequestsTypeOK, RequestRow
<1>1. /\ UNCHANGED sync /\ known \subseteq known' /\ registry' \in {registry, Registries}
      /\ request[q].step # "idle" \/ known' = Crossing
      /\ \A p \in Requests \ {q} : request'[p] = request[p]
  BY <1>0 DEF RequestStep, AskCatalogue, CountSources, FindSamples, Project, KeepSpec, KeepCatalogue,
     KeepResponse, AskSample, LookUp, Generate, Candidate, Composed, PutSample, Reads, Crossing,
     Goes, Done
<1>2. Busy \/ known' = Crossing
  BY <1>1 DEF Busy
<1> SUFFICES ASSUME "crossed" \notin known', Uncrossed
             PROVE  /\ HoldsRegistry(q)'
                    /\ spec' \in {spec, None} \/ (spec' = Resolved(registry) /\ registry.there)
                    /\ (\A k \in DOMAIN sample : sample[k] = k[1])'
  BY <1>1, <1>2, RequestKeepsRegistry
<1>3. HoldsRegistry(q) /\ (\A k \in DOMAIN sample : sample[k] = k[1])
  BY DEF Uncrossed
<1>4. ASSUME request[q].step # "idle" PROVE SpecFollows
  BY <1>4 DEF Uncrossed, Busy, Reload, Stale
<1>5. registry' = Registries => registry'.there
  BY <1>0 DEF Registries, Load, CachesTypeOK
<1>6. ASSUME NEW view, NEW step, Goes(q, step, view) PROVE request'[q].step = step /\ request'[q].view = view
  BY <1>0, <1>6 DEF Goes, RequestRow
<1>7. Done(q) => HoldsRegistry(q)'
  BY <1>0 DEF Done, NoRequest, HoldsRegistry
<1>8. CASE \/ AskCatalogue(q) \/ CountSources(q) \/ FindSamples(q)
          \/ KeepCatalogue(q) \/ KeepResponse(q) \/ AskSample(q)
  <2>1. UNCHANGED <<spec, sample>>
    BY <1>8 DEF AskCatalogue, CountSources, FindSamples, KeepCatalogue, KeepResponse, AskSample,
       Reads, views
  <2>2. CASE Done(q)
    BY <1>3, <1>7, <2>1, <2>2
  <2>3. CASE ~Done(q)
    <3>1. request'[q].step \in {"count", "find", "project", "list", "respond", "resolve"}
      BY <1>6, <1>8, <2>3 DEF AskCatalogue, CountSources, FindSamples, KeepCatalogue, KeepResponse,
         AskSample
    <3> QED
      BY <1>3, <2>1, <3>1 DEF HoldsRegistry
  <2> QED
    BY <2>2, <2>3
<1>9. ASSUME NEW from \in {"project", "resolve"}, NEW to \in {"keep", "hold"},
             NEW after \in {"list", "look"}, Project(q, from, to, after)
      PROVE  /\ HoldsRegistry(q)' /\ spec' = spec
             /\ (\A k \in DOMAIN sample : sample[k] = k[1])'
  <2> DEFINE answer == IF spec # None THEN spec ELSE Resolved(Registries)
             view == [request[q].view EXCEPT !.spec = answer]
  <2>1. UNCHANGED <<spec, sample>>
    BY <1>9 DEF Project, Reads, views
  <2>2. SpecFollows
    BY <1>4, <1>9 DEF Project
  <2>3. view.spec = answer
    BY <1>0 DEF View
  <2>4. PICK step \in {"keep", "hold", "list", "look"} : Goes(q, step, view)
    BY <1>9 DEF Project
  <2>5. registry'.there /\ answer = Resolved(registry')
    BY <1>5, <1>9, <2>2 DEF Project, SpecFollows
  <2>6. request'[q].step = step /\ request'[q].view.spec = Resolved(registry')
    BY <1>6, <2>3, <2>4, <2>5
  <2>7. HoldsRegistry(q)'
    BY <2>5, <2>6 DEF HoldsRegistry, Resolved
  <2> QED
    BY <1>3, <2>1, <2>7
<1>10. ASSUME NEW from \in {"keep", "hold"}, NEW to \in {"list", "look"}, KeepSpec(q, from, to)
       PROVE  /\ HoldsRegistry(q)'
              /\ spec' \in {spec, None} \/ (spec' = Resolved(registry) /\ registry.there)
              /\ (\A k \in DOMAIN sample : sample[k] = k[1])'
  <2>1. /\ UNCHANGED <<registry, sample>> /\ request[q].step = from
        /\ Goes(q, to, request[q].view)
        /\ spec' \in {spec, request[q].view.spec}
    BY <1>10 DEF KeepSpec, Reads
  <2>2. registry.there /\ request[q].view.spec = Resolved(registry)
    BY <1>3, <2>1 DEF HoldsRegistry
  <2>3. HoldsRegistry(q)'
    BY <1>6, <2>1, <2>2 DEF HoldsRegistry, Resolved
  <2> QED
    BY <1>3, <2>1, <2>2, <2>3
<1>11. ASSUME NEW refresh \in BOOLEAN, LookUp(q, refresh)
       PROVE  /\ HoldsRegistry(q)' /\ spec' = spec
              /\ (\A k \in DOMAIN sample : sample[k] = k[1])'
  <2>1. UNCHANGED <<spec, registry, sample>> /\ request[q].step = "look"
    BY <1>11 DEF LookUp, Reads, views
  <2>2. ASSUME ~Done(q)
        PROVE  request'[q].step = "generate" /\ request'[q].view = request[q].view
    BY <1>0, <1>11, <2>2 DEF LookUp, RequestRow
  <2>3. HoldsRegistry(q)'
    BY <1>3, <1>7, <2>1, <2>2 DEF HoldsRegistry, Resolved
  <2> QED
    BY <1>3, <2>1, <2>3
<1>12. ASSUME NEW from \in {"generate", "call"}, NEW to \in {"call", "put"}, Composed(q, from, to)
       PROVE  /\ HoldsRegistry(q)' /\ spec' = spec
              /\ (\A k \in DOMAIN sample : sample[k] = k[1])'
  <2> DEFINE now == Resolved(Registries)
  <2>1. UNCHANGED <<spec, sample>> /\ registry' = Registries /\ request[q].step = from
    BY <1>12 DEF Composed, Reads, views
  <2>2. registry.there /\ request[q].view.spec = Resolved(registry) /\ Registries = registry
    BY <1>3, <2>1 DEF HoldsRegistry, Registries
  <2>3. ASSUME ~Done(q)
        PROVE  /\ request'[q].step = to /\ request'[q].view = request[q].view
               /\ request'[q].made = now
    BY <1>0, <1>12, <2>3 DEF Composed, RequestRow
  <2>4. HoldsRegistry(q)'
    BY <1>7, <2>1, <2>2, <2>3 DEF HoldsRegistry, Resolved
  <2> QED
    BY <1>3, <2>1, <2>4
<1>13. ASSUME PutSample(q)
       PROVE  /\ HoldsRegistry(q)' /\ spec' = spec
              /\ (\A k \in DOMAIN sample : sample[k] = k[1])'
  <2>1. request[q].made = request[q].view.spec
    BY <1>3, <1>13 DEF PutSample, HoldsRegistry
  <2>2. \A k \in KeysOf(q) : k[1] = request[q].view.spec
    BY DEF KeysOf
  <2>3. \A k \in DOMAIN sample' : sample'[k] = k[1]
    BY <1>3, <1>13, <2>1, <2>2 DEF PutSample
  <2> QED
    BY <1>7, <1>13, <2>3 DEF PutSample, views
<1> QED
  BY <1>8, <1>9, <1>10, <1>11, <1>12, <1>13 DEF RequestStep, Generate, Candidate

LEMMA StepKeepsSamples == TypesInv /\ SampleInv /\ [PreviewNext]_previewVars => SampleInv'
<1> SUFFICES ASSUME TypesInv, SampleInv, [PreviewNext]_previewVars PROVE SampleInv'
  OBVIOUS
<1>0. sync \in [Syncs -> SyncRow]
  BY DEF TypesInv, LaneTypeOK
<1>1. CASE UNCHANGED previewVars
  BY <1>1, ElsewhereKeepsSamples DEF previewVars, views
<1>2. ASSUME NEW s \in Syncs, NEW c \in Content, NEW reindex \in BOOLEAN, IndexSource(s, c, reindex)
      PROVE  SampleInv'
  <2>1. \A t \in Syncs : sync'[t].step = IF t = s THEN "compile" ELSE sync[t].step
    BY <1>0, <1>2 DEF IndexSource, SyncRow
  <2>2. sync[s].step \in {"idle", "completed"}
    BY <1>2 DEF IndexSource, Syncing
  <2>3. UNCHANGED <<registry, spec, sample, request>> /\ known \subseteq known'
    BY <1>2 DEF IndexSource, views
  <2> QED
    BY <2>1, <2>2, <2>3, ElsewhereKeepsSamples
<1>3. ASSUME NEW s \in Syncs, Compile(s) \/ WritePack(s) \/ RecordStructure(s) \/ SyncStops(s)
      PROVE  SampleInv'
  <2>1. \A t \in Syncs \ {s} : sync'[t] = sync[t]
    BY <1>0, <1>3 DEF Compile, WritePack, RecordStructure, SyncStops
  <2>2. /\ sync[s].step \in {"compile", "write", "record", "reset"}
        /\ sync'[s].step \in {"idle", "write", "record", "reset"}
    BY <1>0, <1>3 DEF Compile, WritePack, RecordStructure, SyncStops, SyncRow, NoSync
  <2>3. UNCHANGED <<registry, spec, sample, request, known>>
    BY <1>3 DEF Compile, WritePack, RecordStructure, SyncStops, views
  <2> QED
    BY <2>1, <2>2, <2>3, ElsewhereKeepsSamples
<1>4. ASSUME NEW s \in Syncs, ResetRegistries(s) \/ LoadRegistries(s) \/ ClearCatalogue(s)
                               \/ ClearResponse(s) \/ ClearSpec(s)
      PROVE  SampleInv'
  <2>1. PICK from \in {"reset", "load", "view", "answer", "spec", "view2", "answer2"},
             to \in {"load", "view", "answer", "spec", "view2", "answer2", "completed"} :
             Reloading(s, from, to)
    BY <1>4 DEF ResetRegistries, LoadRegistries, ClearCatalogue, ClearResponse, ClearSpec
  <2>2. \A t \in Syncs : sync'[t] = IF t = s THEN [sync[s] EXCEPT !.step = to] ELSE sync[t]
    BY <1>0, <2>1 DEF Reloading
  <2>3. sync'[s].step = to /\ sync[s].step = from
    BY <1>0, <2>1, <2>2 DEF Reloading, SyncRow
  <2>4. CASE to \in {"load", "view", "answer", "spec"}
    <3>1. Stale(s)'
      BY <2>3, <2>4 DEF Stale
    <3> QED
      BY <2>1, <3>1, ReloadKeepsSamples
  <2>5. CASE to = "view2"
    <3>1. ClearSpec(s)
      BY <1>0, <1>4, <2>3, <2>5 DEF ResetRegistries, LoadRegistries, ClearCatalogue,
         ClearResponse, Reloading, SyncRow
    <3>2. SpecFollows'
      BY <3>1 DEF ClearSpec, SpecFollows
    <3> QED
      BY <2>1, <3>2, ReloadKeepsSamples
  <2>6. CASE to \in {"answer2", "completed"}
    <3>1. UNCHANGED <<registry, spec>> /\ from \in {"view2", "answer2"}
      BY <1>0, <1>4, <2>3, <2>6 DEF ResetRegistries, LoadRegistries, ClearCatalogue, ClearResponse,
         ClearSpec, Reloading, SyncRow
    <3>2. (\A t \in Syncs : ~Stale(t))' => \A t \in Syncs : ~Stale(t)
      BY <2>2, <2>3, <3>1 DEF Stale
    <3>3. CASE "crossed" \in known'
      BY <3>3 DEF SampleInv
    <3>4. CASE "crossed" \notin known'
      <4>1. Uncrossed
        BY <2>1, <3>4 DEF Reloading, SampleInv
      <4>2. (\A t \in Syncs : ~Stale(t))' => SpecFollows'
        BY <3>1, <3>2, <4>1 DEF Uncrossed, SpecFollows, Resolved
      <4> QED
        BY <2>1, <4>2, ReloadKeepsSamples
    <3> QED
      BY <3>3, <3>4
  <2> QED
    BY <2>4, <2>5, <2>6
<1>5. ASSUME Restart PROVE SampleInv'
  <2>1. \A q \in Requests : request'[q].step = "idle"
    BY <1>5 DEF Restart, NoRequest
  <2>2. spec' = None /\ UNCHANGED <<sample, known>>
    BY <1>5 DEF Restart
  <2> QED
    BY <2>1, <2>2 DEF SampleInv, Uncrossed, Busy, SpecFollows, HoldsRegistry
<1>6. ASSUME CleanCache PROVE SampleInv'
  BY <1>6, ElsewhereKeepsSamples DEF CleanCache, views
<1>7. ASSUME NEW s \in Syncs, SyncStep(s) PROVE SampleInv'
  BY <1>2, <1>3, <1>4, <1>7 DEF SyncStep
<1> QED
  BY <1>1, <1>5, <1>6, <1>7, RequestKeepsSamples DEF PreviewNext

LEMMA SamplesHold == PreviewSpec => []SampleInv
  BY InitSamples, StepKeepsSamples, LaneHolds, PTL DEF PreviewSpec

\* Unless a request overlapped a reload, a cached sample was composed in the structure
\* that its key names: what is composed before and after the provider's call is composed
\* in the structure held when the request began.
THEOREM SamplesHaveTheirKey == PreviewSpec => []SamplesAreOfTheirKey
<1>1. SampleInv => SamplesAreOfTheirKey
  BY DEF SampleInv, Uncrossed, SamplesAreOfTheirKey
<1> QED
  BY <1>1, SamplesHold, PTL

--------------------------------------------------------------------------------
(***************************************************************************)
(* The caches over the registries.  In an orderly history that no request  *)
(* crosses, a reload finds everything as it left it: what it has cleared   *)
(* stays clear until its end.  From there on, every request computes from  *)
(* the same store, so what one keeps is what the others would compute.     *)
(***************************************************************************)
Serene == known \cap {"overlap", "crossed", "cleaned"} = {}
Served(s) == sync[s].step = "completed" /\ sync[s].clean

Shows(view) ==
    /\ view.row = row /\ view.sources = indexed
    /\ view.spec = IF row.ready THEN pack ELSE None

Reloads(s) ==
    /\ sync[s].step = "load" => registry = Unloaded
    /\ sync[s].step \in {"view", "answer", "spec", "view2", "answer2"} => registry = Load
    /\ sync[s].step \in {"answer", "spec", "view2", "answer2"} => catalogue = NoView
    /\ sync[s].step \in {"spec", "view2", "answer2"} => response = NoView
    /\ sync[s].step \in {"view2", "answer2"} => spec = None
Consistent(q) ==
    LET view == request[q].view IN
    /\ request[q].step \in {"count", "find", "project"} => view.row = row
    /\ request[q].step \in {"count", "find"} => view.spec = None
    /\ request[q].step \in {"find", "project"} => view.sources = indexed
    /\ request[q].step = "project" => row.ready
    /\ request[q].step = "keep" => row.ready
    /\ request[q].step \in {"keep", "list", "respond"} => Shows(view)
    /\ request[q].step = "respond" => view.there
Fresh ==
    /\ registry = Load
    /\ spec \in {None, Resolved(Load)}
    /\ catalogue = NoView \/ (catalogue.there /\ Shows(catalogue))
    /\ response = NoView \/ (response.there /\ Shows(response))
    /\ \A q \in Requests : Consistent(q)

CacheInv == Serene => \A s \in Syncs : Reloads(s) /\ (Served(s) => Fresh)

LEMMA StoreSyncKeepsCaches ==
    ASSUME LaneInv, CacheInv, NEW s \in Syncs,
           \/ \E c \in Content, reindex \in BOOLEAN : IndexSource(s, c, reindex)
           \/ Compile(s) \/ WritePack(s) \/ RecordStructure(s) \/ SyncStops(s)
    PROVE  CacheInv'
<1> SUFFICES ASSUME Serene' PROVE CacheInv'
  BY DEF CacheInv
<1>0. sync \in [Syncs -> SyncRow]
  BY DEF LaneInv, LaneTypeOK
<1>1. Orderly
  BY DEF Serene, Orderly, IndexSource, Compile, WritePack, RecordStructure, SyncStops
<1>2. OneSync
  BY <1>1 DEF LaneInv
<1>3. CASE \E c \in Content, reindex \in BOOLEAN : IndexSource(s, c, reindex)
  <2>1. \A t \in Syncs \ {s} : ~Syncing(t)
    BY <1>3 DEF IndexSource, Serene
  <2>2. /\ sync'[s].step = "compile"
        /\ \A t \in Syncs \ {s} : sync'[t].step = sync[t].step /\ ~sync'[t].clean
    BY <1>0, <1>3 DEF IndexSource, SyncRow
  <2>3. \A t \in Syncs : ~Served(t)'
    BY <2>2 DEF Served
  <2>4. ~Reload'
    BY <2>1, <2>2 DEF Reload, Syncing
  <2> QED
    BY <2>3, <2>4 DEF CacheInv, Reloads, Reload
<1>4. CASE Compile(s) \/ WritePack(s) \/ RecordStructure(s) \/ SyncStops(s)
  <2>1. sync[s].step \in {"compile", "write", "record", "reset"}
    BY <1>4 DEF Compile, WritePack, RecordStructure, SyncStops
  <2>2. \A t \in Syncs \ {s} : ~Syncing(t) /\ ~Served(t)
    BY <1>2, <2>1 DEF OneSync, Syncing, Served
  <2>3. /\ sync'[s].step \in {"idle", "write", "record", "reset"}
        /\ \A t \in Syncs \ {s} : sync'[t] = sync[t]
    BY <1>0, <1>4 DEF Compile, WritePack, RecordStructure, SyncStops, NoSync, SyncRow
  <2>4. \A t \in Syncs : ~Served(t)'
    BY <2>2, <2>3 DEF Served
  <2>5. ~Reload'
    BY <2>2, <2>3 DEF Reload, Syncing
  <2> QED
    BY <2>4, <2>5 DEF CacheInv, Reloads, Reload
<1> QED
  BY <1>3, <1>4

LEMMA ReloadKeepsCaches ==
    ASSUME LaneInv, SampleInv, TypesInv, CacheInv, NEW s \in Syncs,
           \/ ResetRegistries(s) \/ LoadRegistries(s)
           \/ ClearCatalogue(s) \/ ClearResponse(s) \/ ClearSpec(s)
    PROVE  CacheInv'
<1> SUFFICES ASSUME Serene' PROVE \A t \in Syncs : Reloads(t)' /\ (Served(t) => Fresh)'
  BY DEF CacheInv
<1>0. sync \in [Syncs -> SyncRow]
  BY DEF LaneInv, LaneTypeOK
<1>1. PICK from \in {"reset", "load", "view", "answer", "spec", "view2", "answer2"},
           to \in {"load", "view", "answer", "spec", "view2", "answer2", "completed"} :
           Reloading(s, from, to)
  BY DEF ResetRegistries, LoadRegistries, ClearCatalogue, ClearResponse, ClearSpec
<1>2. ~Busy /\ Serene /\ Orderly /\ UNCHANGED <<store, request>>
  BY <1>1 DEF Reloading, Serene, Orderly
<1>3. sync[s].step = from /\ sync'[s].step = to /\ \A t \in Syncs \ {s} : sync'[t] = sync[t]
  BY <1>0, <1>1 DEF Reloading, SyncRow
<1>4. OneSync /\ Reloads(s)
  BY <1>2 DEF LaneInv, CacheInv
<1>5. \A t \in Syncs \ {s} : ~Syncing(t) /\ ~Served(t)
  BY <1>3, <1>4 DEF OneSync, Syncing, Served
<1>6. \A t \in Syncs \ {s} : Reloads(t)' /\ ~Served(t)'
  BY <1>3, <1>5 DEF Reloads, Syncing, Served
<1>7. Load' = Load
  BY <1>2 DEF Load, store
<1>8. \A q \in Requests : Consistent(q)'
  BY <1>2 DEF Consistent, Busy
<1>9. CASE ResetRegistries(s)
  <2>1. sync'[s].step = "load" /\ registry' = Unloaded
    BY <1>0, <1>9 DEF ResetRegistries, Reloading, SyncRow
  <2> QED
    BY <1>6, <2>1 DEF Reloads, Served
<1>10. CASE LoadRegistries(s)
  <2>1. sync'[s].step = "view" /\ registry' = Registries /\ registry = Unloaded
    BY <1>0, <1>4, <1>10 DEF LoadRegistries, Reloading, Reloads, SyncRow
  <2>2. registry' = Load'
    BY <1>7, <2>1 DEF Registries, Unloaded
  <2> QED
    BY <1>6, <2>1, <2>2 DEF Reloads, Served
<1>11. CASE ClearCatalogue(s)
  <2>1. /\ UNCHANGED <<registry, spec, response>> /\ catalogue' = NoView
        /\ \/ sync[s].step = "view" /\ sync'[s].step = "answer"
           \/ sync[s].step = "view2" /\ sync'[s].step = "answer2"
    BY <1>0, <1>11 DEF ClearCatalogue, Reloading, SyncRow
  <2>2. Reloads(s)' /\ ~Served(s)'
    BY <1>4, <1>7, <2>1 DEF Reloads, Served
  <2> QED
    BY <1>6, <2>2
<1>12. CASE ClearSpec(s)
  <2>1. /\ UNCHANGED <<registry, catalogue, response>> /\ spec' = None
        /\ sync[s].step = "spec" /\ sync'[s].step = "view2"
    BY <1>0, <1>12 DEF ClearSpec, Reloading, SyncRow
  <2>2. Reloads(s)' /\ ~Served(s)'
    BY <1>4, <1>7, <2>1 DEF Reloads, Served
  <2> QED
    BY <1>6, <2>2
<1>13. CASE ClearResponse(s)
  <2>1. /\ UNCHANGED <<registry, spec, catalogue>> /\ response' = NoView
        /\ \/ sync[s].step = "answer" /\ sync'[s].step = "spec"
           \/ sync[s].step = "answer2" /\ sync'[s].step = "completed"
    BY <1>0, <1>13 DEF ClearResponse, Reloading, SyncRow
  <2>2. Reloads(s)'
    BY <1>4, <1>7, <2>1 DEF Reloads
  <2>3. Served(s)' => Fresh'
    BY <1>4, <1>7, <1>8, <2>1 DEF Reloads, Served, Fresh
  <2> QED
    BY <1>6, <2>2, <2>3
<1> QED
  BY <1>9, <1>10, <1>11, <1>12, <1>13

LEMMA RequestKeepsCaches ==
    ASSUME LaneInv, SampleInv, TypesInv, CacheInv, NEW q \in Requests, RequestStep(q)
    PROVE  CacheInv'
<1> SUFFICES ASSUME Serene' PROVE CacheInv'
  BY DEF CacheInv
<1>0. /\ request \in [Requests -> RequestRow] /\ request[q] \in RequestRow
      /\ row \in Row /\ Content = Contents \cup {None} /\ spec \in Content /\ pack \in Content
  BY DEF TypesInv, RequestsTypeOK, LaneInv, LaneTypeOK, CachesTypeOK, Content
<1>1. /\ UNCHANGED <<sync, store>> /\ known \subseteq known'
      /\ request[q].step # "idle" \/ known' = Crossing
      /\ \A p \in Requests \ {q} : request'[p] = request[p]
  BY <1>0 DEF RequestStep, AskCatalogue, CountSources, FindSamples, Project, KeepSpec, KeepCatalogue,
     KeepResponse, AskSample, LookUp, Generate, Candidate, Composed, PutSample, Reads, Crossing,
     Goes, Done
<1>2. Serene /\ Uncrossed
  BY <1>1 DEF Serene, SampleInv
<1>3. ~Reload
  BY <1>1, <1>2 DEF Uncrossed, Crossing, Busy, Serene
<1>4. /\ Load' = Load /\ Resolved(Load)' = Resolved(Load)
      /\ \A view : Shows(view)' = Shows(view)
  BY <1>1 DEF Load, Resolved, Shows, store
<1>5. \A t \in Syncs : Served(t)' = Served(t)
  BY <1>1 DEF Served
<1>6. ~Reload'
  BY <1>1, <1>3 DEF Reload
<1> SUFFICES ASSUME Fresh PROVE Fresh'
  BY <1>2, <1>5, <1>6 DEF CacheInv, Reloads, Reload
<1>7. Registries = Load /\ Consistent(q)
  BY DEF Fresh, Registries, Load
<1>8. \A p \in Requests \ {q} : Consistent(p)'
  BY <1>1 DEF Fresh, Consistent, Shows, store
<1>9. ASSUME NEW view, NEW step, Goes(q, step, view)
      PROVE  request'[q].step = step /\ request'[q].view = view
  BY <1>0, <1>9 DEF Goes, RequestRow
<1>10. Done(q) => Consistent(q)'
  BY <1>0 DEF Done, NoRequest, Consistent
<1>11. row.ready => Resolved(Load) = pack
  BY DEF Resolved, Load
<1> SUFFICES /\ registry' \in {registry, Registries}
             /\ spec' \in {None, Resolved(Load)}
             /\ catalogue' = catalogue \/ (catalogue'.there /\ Shows(catalogue'))
             /\ response' = response \/ (response'.there /\ Shows(response'))
             /\ Consistent(q)'
  BY <1>1, <1>4, <1>7, <1>8 DEF Fresh, Shows, store
<1>12. CASE AskCatalogue(q)
  <2>1. UNCHANGED views /\ registry' \in {registry, Registries}
    BY <1>12 DEF AskCatalogue
  <2>2. CASE catalogue.there
    <3>1. Shows(catalogue)
      BY <2>2 DEF Fresh, NoView
    <3>2. request'[q].step = "respond" /\ request'[q].view = catalogue
      BY <1>9, <1>12, <2>2 DEF AskCatalogue
    <3> QED
      BY <1>1, <2>1, <2>2, <3>1, <3>2 DEF Consistent, Fresh, Shows, store, views
  <2>3. CASE ~catalogue.there
    <3>1. /\ request'[q].step = "count"
          /\ request'[q].view = [NoView EXCEPT !.row = Registries.row]
      BY <1>9, <1>12, <2>3 DEF AskCatalogue
    <3>2. request'[q].view.row = row /\ request'[q].view.spec = None
      BY <1>7, <3>1 DEF NoView, Load
    <3> QED
      BY <1>1, <2>1, <3>1, <3>2 DEF Consistent, Fresh, store, views
  <2> QED
    BY <2>2, <2>3
<1>13. CASE CountSources(q)
  <2> DEFINE view == [request[q].view EXCEPT !.sources = indexed]
  <2>1. /\ request[q].view.row = row /\ request[q].view.spec = None
        /\ UNCHANGED <<registry, views>>
    BY <1>7, <1>13 DEF CountSources, Consistent
  <2>2. view.row = row /\ view.sources = indexed /\ view.spec = None
    BY <1>0, <2>1 DEF View
  <2>3. request'[q].step = "find" /\ request'[q].view = view
    BY <1>9, <1>13 DEF CountSources
  <2> HIDE DEF view
  <2>4. Consistent(q)'
    BY <1>1, <2>2, <2>3 DEF Consistent, Shows, store
  <2> QED
    BY <2>1, <2>4 DEF Fresh, views
<1>19. CASE FindSamples(q)
  <2> DEFINE view == [request[q].view EXCEPT !.sampled = AnySample]
             to == IF request[q].view.row.ready THEN "project" ELSE "list"
  <2>1. /\ request[q].view.row = row /\ request[q].view.spec = None
        /\ request[q].view.sources = indexed /\ UNCHANGED <<registry, views>>
    BY <1>7, <1>19 DEF FindSamples, Consistent
  <2>2. view.row = row /\ view.sources = indexed /\ view.spec = None
    BY <1>0, <2>1 DEF View
  <2>3. to = IF row.ready THEN "project" ELSE "list"
    BY <2>1
  <2>4. view.row = request[q].view.row
    BY <2>1, <2>2
  <2>5. Goes(q, to, view)
    BY <1>19, <2>4 DEF FindSamples
  <2>6. request'[q].step = to /\ request'[q].view = view
    BY <1>9, <2>5
  <2> HIDE DEF view, to
  <2>7. Consistent(q)'
    BY <1>1, <2>2, <2>3, <2>6 DEF Consistent, Shows, store
  <2> QED
    BY <2>1, <2>7 DEF Fresh, views
<1>14. ASSUME NEW from, NEW to, NEW after, Project(q, from, to, after),
              <<from, to, after>> \in {<<"project", "keep", "list">>, <<"resolve", "hold", "look">>}
       PROVE  /\ registry' \in {registry, Registries} /\ UNCHANGED views /\ Consistent(q)'
  <2> DEFINE answer == IF spec # None THEN spec ELSE Resolved(Registries)
             view == [request[q].view EXCEPT !.spec = answer]
  <2>1. answer = Resolved(Load)
    BY <1>7 DEF Fresh
  <2>2. request[q].step = from /\ (Goes(q, to, view) \/ Goes(q, after, view))
    BY <1>14 DEF Project
  <2>3. CASE from = "project"
    <3>1. row.ready /\ request[q].view.row = row /\ request[q].view.sources = indexed
      BY <1>7, <2>2, <2>3 DEF Consistent
    <3>2. Shows(view)
      BY <1>0, <1>11, <2>1, <3>1 DEF Shows, View
    <3>3. request'[q].view = view /\ request'[q].step \in {"keep", "list"}
      BY <1>9, <1>14, <2>2, <2>3
    <3> QED
      BY <1>1, <1>14, <3>1, <3>2, <3>3 DEF Consistent, Shows, store, Project
  <2>4. CASE from = "resolve"
    <3>1. request'[q].step \in {"hold", "look"}
      BY <1>9, <1>14, <2>2, <2>4
    <3> QED
      BY <1>14, <3>1 DEF Consistent, Project
  <2> QED
    BY <1>14, <2>3, <2>4
<1>15. ASSUME NEW from, NEW to, KeepSpec(q, from, to),
              <<from, to>> \in {<<"keep", "list">>, <<"hold", "look">>}
       PROVE  /\ UNCHANGED <<registry, catalogue, response>>
              /\ spec' \in {None, Resolved(Load)} /\ Consistent(q)'
  <2>1. /\ request'[q].step = to /\ request'[q].view = request[q].view
        /\ request[q].step = from /\ spec' \in {spec, request[q].view.spec}
    BY <1>9, <1>15 DEF KeepSpec
  <2>2. request[q].view.spec = Resolved(Load)
    BY <1>2, <1>15, <2>1 DEF Uncrossed, HoldsRegistry, Fresh
  <2>3. Consistent(q)'
    BY <1>1, <1>7, <1>15, <2>1 DEF Consistent, Shows, store
  <2> QED
    BY <1>15, <2>1, <2>2, <2>3 DEF KeepSpec, Fresh
<1>16. CASE KeepCatalogue(q)
  <2> DEFINE view == [request[q].view EXCEPT !.there = TRUE,
                         !.sampled = request[q].view.sampled /\ request[q].view.spec # None]
  <2>1. Shows(request[q].view)
    BY <1>7, <1>16 DEF KeepCatalogue, Consistent
  <2>2. Shows(view) /\ view.there
    BY <1>0, <2>1 DEF Shows, View
  <2>3. request'[q].step = "respond" /\ request'[q].view = view
    BY <1>9, <1>16 DEF KeepCatalogue
  <2>4. Consistent(q)'
    BY <1>1, <2>2, <2>3 DEF Consistent, Shows, store
  <2>5. catalogue' \in {catalogue, view} /\ UNCHANGED <<registry, spec, response>>
    BY <1>16 DEF KeepCatalogue
  <2> HIDE DEF view
  <2> QED
    BY <2>2, <2>4, <2>5 DEF Fresh
<1>17. CASE KeepResponse(q)
  <2>1. Shows(request[q].view) /\ request[q].view.there
    BY <1>7, <1>17 DEF KeepResponse, Consistent
  <2> QED
    BY <1>10, <1>17, <2>1 DEF KeepResponse, Fresh
<1>18. ASSUME NEW refresh \in BOOLEAN,
              AskSample(q) \/ LookUp(q, refresh) \/ Generate(q) \/ Candidate(q) \/ PutSample(q)
       PROVE  /\ registry' \in {registry, Registries} /\ UNCHANGED views /\ Consistent(q)'
  <2>1. registry' \in {registry, Registries} /\ UNCHANGED views
    BY <1>18 DEF AskSample, LookUp, Generate, Candidate, Composed, PutSample
  <2>2. Done(q) \/ request'[q].step \in {"resolve", "generate", "call", "put"}
    BY <1>0, <1>9, <1>18 DEF AskSample, LookUp, Generate, Candidate, Composed, PutSample, RequestRow
  <2> QED
    BY <1>10, <2>1, <2>2 DEF Consistent
<1> QED
  BY <1>12, <1>13, <1>14, <1>15, <1>16, <1>17, <1>18, <1>19 DEF RequestStep, Fresh, views

LEMMA StepKeepsCaches ==
    LaneInv /\ TypesInv /\ SampleInv /\ CacheInv /\ [PreviewNext]_previewVars => CacheInv'
<1> SUFFICES ASSUME LaneInv, TypesInv, SampleInv, CacheInv, [PreviewNext]_previewVars PROVE CacheInv'
  OBVIOUS
<1>1. CASE UNCHANGED previewVars
  BY <1>1 DEF previewVars, views, store, CacheInv, Serene, Served, Reloads, Fresh, Consistent,
     Shows, Load, Resolved
<1>2. CASE Restart
  <2>1. \A s \in Syncs : sync'[s].step = "idle"
    BY <1>2 DEF Restart, NoSync
  <2> QED
    BY <2>1 DEF CacheInv, Served, Reloads
<1>3. CASE CleanCache
  BY <1>3 DEF CleanCache, CacheInv, Serene
<1> QED
  BY <1>1, <1>2, <1>3, StoreSyncKeepsCaches, ReloadKeepsCaches, RequestKeepsCaches
     DEF PreviewNext, SyncStep

--------------------------------------------------------------------------------
(***************************************************************************)
(* The mark of a stored sample.  Samples are only ever added, so a view    *)
(* that says there is one stays right, whatever crosses what.              *)
(***************************************************************************)
Told(view, any)   == view.sampled => any
Listed(view, any) == Told(view, any) /\ (view.sampled => view.spec # None)
MarkInv ==
    /\ Listed(catalogue, AnySample) /\ Listed(response, AnySample)
    /\ \A q \in Requests :
          /\ Told(request[q].view, AnySample)
          /\ request[q].step = "respond" => Listed(request[q].view, AnySample)

LEMMA NullMarks ==
    /\ \A any \in BOOLEAN : Listed(NoView, any) /\ Told(NoRequest.view, any)
    /\ NoRequest.step = "idle"
  BY DEF Listed, Told, NoView, NoRequest

\* A step of one request that goes on with view.
LEMMA GoesKeepsMarks ==
    ASSUME TypesInv, MarkInv, AnySample => AnySample',
           catalogue' \in {catalogue, NoView} \/ Listed(catalogue', AnySample'),
           response' \in {response, NoView} \/ Listed(response', AnySample'),
           NEW q \in Requests, \A p \in Requests \ {q} : request'[p] = request[p],
           Told(request'[q].view, AnySample'),
           request'[q].step = "respond" => Listed(request'[q].view, AnySample')
    PROVE  MarkInv'
<1>1. Listed(catalogue', AnySample') /\ Listed(response', AnySample')
  BY DEF MarkInv, Listed, Told, NoView
<1>2. \A p \in Requests \ {q} :
         /\ Told(request'[p].view, AnySample')
         /\ request'[p].step = "respond" => Listed(request'[p].view, AnySample')
  BY DEF MarkInv, Listed, Told
<1> QED
  BY <1>1, <1>2 DEF MarkInv

LEMMA RequestKeepsMarks ==
    ASSUME TypesInv, MarkInv, NEW q \in Requests, RequestStep(q)
    PROVE  MarkInv'
<1>0. /\ request \in [Requests -> RequestRow] /\ request[q] \in RequestRow
      /\ request[q].view \in View
  BY DEF TypesInv, RequestsTypeOK, RequestRow
<1>1. \A p \in Requests \ {q} : request'[p] = request[p]
  BY <1>0 DEF RequestStep, AskCatalogue, CountSources, FindSamples, Project, KeepSpec,
     KeepCatalogue, KeepResponse, AskSample, LookUp, Generate, Candidate, Composed, PutSample,
     Reads, Goes, Done
<1>2. DOMAIN sample \subseteq DOMAIN sample'
  BY DEF RequestStep, AskCatalogue, CountSources, FindSamples, Project, KeepSpec,
     KeepCatalogue, KeepResponse, AskSample, LookUp, Generate, Candidate, Composed, PutSample, Reads
<1>3. AnySample => AnySample'
  BY <1>2 DEF AnySample
<1>4. /\ Told(request[q].view, AnySample)
      /\ request[q].step = "respond" => Listed(request[q].view, AnySample)
      /\ Listed(catalogue, AnySample) /\ Listed(response, AnySample)
  BY DEF MarkInv
<1>5. ASSUME NEW view, NEW step, Goes(q, step, view)
      PROVE  request'[q].step = step /\ request'[q].view = view
  BY <1>0, <1>5 DEF Goes, RequestRow
<1>6. Done(q) => request'[q] = NoRequest
  BY <1>0 DEF Done
<1> SUFFICES /\ catalogue' \in {catalogue, NoView} \/ Listed(catalogue', AnySample')
             /\ response' \in {response, NoView} \/ Listed(response', AnySample')
             /\ Told(request'[q].view, AnySample')
             /\ request'[q].step = "respond" => Listed(request'[q].view, AnySample')
  BY <1>1, <1>3, GoesKeepsMarks
<1>7. CASE Done(q)
  <2>1. /\ Told(request'[q].view, AnySample')
        /\ request'[q].step = "respond" => Listed(request'[q].view, AnySample')
    BY <1>6, <1>7, NullMarks DEF Told, NoRequest, NoView
  <2>2. catalogue' = catalogue
    BY <1>0, <1>5, <1>7, <1>6 DEF RequestStep, AskCatalogue, CountSources, FindSamples, Project,
       KeepSpec, KeepCatalogue, KeepResponse, AskSample, LookUp, Generate, Candidate, Composed,
       PutSample, Reads, NoRequest, views
  <2>3. response' \in {response, request[q].view} /\ (response' # response => request[q].step = "respond")
    BY DEF RequestStep, AskCatalogue, CountSources, FindSamples, Project,
       KeepSpec, KeepCatalogue, KeepResponse, AskSample, LookUp, Generate, Candidate, Composed,
       PutSample, views
  <2>4. response' = response \/ Listed(response', AnySample')
    BY <1>3, <1>4, <2>3 DEF Listed, Told
  <2> QED
    BY <2>1, <2>2, <2>4
<1>8. CASE AskCatalogue(q)
  <2>1. UNCHANGED <<catalogue, response>>
    BY <1>8 DEF AskCatalogue, views
  <2>2. CASE catalogue.there
    <3>1. request'[q].view = catalogue
      BY <1>5, <1>8, <2>2 DEF AskCatalogue
    <3> QED
      BY <1>3, <1>4, <2>1, <3>1 DEF Listed, Told
  <2>3. CASE ~catalogue.there
    <3>1. /\ request'[q].view = [NoView EXCEPT !.row = Registries.row]
          /\ request'[q].step = "count"
      BY <1>5, <1>8, <2>3 DEF AskCatalogue
    <3> QED
      BY <2>1, <3>1 DEF Told, NoView
  <2> QED
    BY <2>2, <2>3
<1>9. CASE AskSample(q)
  BY <1>5, <1>9 DEF AskSample, Told, NoView, views
<1>10. CASE CountSources(q)
  <2>1. /\ request'[q].view = [request[q].view EXCEPT !.sources = indexed]
        /\ request'[q].step = "find" /\ UNCHANGED views
    BY <1>5, <1>10 DEF CountSources
  <2>2. request'[q].view.sampled = request[q].view.sampled
    BY <1>0, <2>1 DEF View
  <2> QED
    BY <1>3, <1>4, <2>1, <2>2 DEF Told, views
<1>11. CASE FindSamples(q)
  <2> DEFINE view == [request[q].view EXCEPT !.sampled = AnySample]
  <2>1. Goes(q, "project", view) \/ Goes(q, "list", view)
    BY <1>11 DEF FindSamples
  <2>2. request'[q].view = view /\ request'[q].step # "respond"
    BY <1>5, <2>1
  <2>3. view.sampled = AnySample
    BY <1>0 DEF View
  <2> HIDE DEF view
  <2> QED
    BY <1>3, <1>11, <2>2, <2>3 DEF FindSamples, Told, views
<1>12. ASSUME NEW from, NEW to \in {"keep", "hold"}, NEW after \in {"list", "look"},
              Project(q, from, to, after)
       PROVE  /\ UNCHANGED views /\ Told(request'[q].view, AnySample')
              /\ request'[q].step # "respond"
  <2> DEFINE view == [request[q].view EXCEPT
                         !.spec = IF spec # None THEN spec ELSE Resolved(Registries)]
  <2>1. Goes(q, to, view) \/ Goes(q, after, view)
    BY <1>12 DEF Project
  <2>2. request'[q].view = view /\ request'[q].step # "respond"
    BY <1>5, <1>12, <2>1
  <2>3. view.sampled = request[q].view.sampled
    BY <1>0 DEF View
  <2> HIDE DEF view
  <2> QED
    BY <1>3, <1>4, <1>12, <2>2, <2>3 DEF Project, Told
<1>13. ASSUME NEW from, NEW to \in {"list", "look"}, KeepSpec(q, from, to)
       PROVE  /\ UNCHANGED <<catalogue, response>>
              /\ Told(request'[q].view, AnySample') /\ request'[q].step # "respond"
  <2>1. request'[q].view = request[q].view /\ request'[q].step # "respond"
    BY <1>5, <1>13 DEF KeepSpec
  <2> QED
    BY <1>3, <1>4, <1>13, <2>1 DEF KeepSpec, Told
<1>14. CASE KeepCatalogue(q)
  <2> DEFINE view == [request[q].view EXCEPT !.there = TRUE,
                         !.sampled = request[q].view.sampled /\ request[q].view.spec # None]
  <2>1. request'[q].view = view /\ catalogue' \in {catalogue, view} /\ response' = response
    BY <1>5, <1>14 DEF KeepCatalogue
  <2>2. /\ view.sampled = (request[q].view.sampled /\ request[q].view.spec # None)
        /\ view.spec = request[q].view.spec
    BY <1>0 DEF View
  <2> HIDE DEF view
  <2>3. Listed(view, AnySample')
    <3>1. view.sampled => AnySample /\ view.spec # None
      BY <1>4, <2>2 DEF Told
    <3> QED
      BY <1>3, <1>14, <2>1, <3>1 DEF Listed, Told
  <2> QED
    BY <2>1, <2>3 DEF Listed, Told
<1>15. CASE ~Done(q) /\ (KeepResponse(q) \/ PutSample(q))
  BY <1>15 DEF KeepResponse, PutSample
<1>16. ASSUME NEW refresh \in BOOLEAN, ~Done(q), LookUp(q, refresh) \/ Generate(q) \/ Candidate(q)
       PROVE  /\ UNCHANGED views /\ Told(request'[q].view, AnySample')
              /\ request'[q].step # "respond"
  <2>1. UNCHANGED views
    BY <1>16 DEF LookUp, Generate, Candidate, Composed
  <2>2. request'[q].view = request[q].view /\ request'[q].step # "respond"
    BY <1>0, <1>16 DEF LookUp, Generate, Candidate, Composed, RequestRow
  <2> QED
    BY <1>3, <1>4, <2>1, <2>2 DEF Told
<1> QED
  BY <1>7, <1>8, <1>9, <1>10, <1>11, <1>12, <1>13, <1>14, <1>15, <1>16 DEF RequestStep, views

LEMMA StepKeepsMarks == TypesInv /\ MarkInv /\ [PreviewNext]_previewVars => MarkInv'
<1> SUFFICES ASSUME TypesInv, MarkInv, [PreviewNext]_previewVars PROVE MarkInv'
  OBVIOUS
<1>1. ASSUME UNCHANGED <<sample, request>>,
             catalogue' \in {catalogue, NoView}, response' \in {response, NoView}
      PROVE  MarkInv'
  BY <1>1 DEF MarkInv, Listed, Told, AnySample, NoView
<1>2. CASE UNCHANGED previewVars
  BY <1>1, <1>2 DEF previewVars, views
<1>3. ASSUME NEW s \in Syncs, SyncStep(s) PROVE MarkInv'
  <2>1. UNCHANGED <<sample, request>>
    BY <1>3 DEF SyncStep, IndexSource, Compile, WritePack, RecordStructure, ResetRegistries,
       LoadRegistries, ClearCatalogue, ClearResponse, ClearSpec, SyncStops, Reloading
  <2>2. catalogue' \in {catalogue, NoView} /\ response' \in {response, NoView}
    BY <1>3 DEF SyncStep, IndexSource, Compile, WritePack, RecordStructure, ResetRegistries,
       LoadRegistries, ClearCatalogue, ClearResponse, ClearSpec, SyncStops, views
  <2> QED
    BY <1>1, <2>1, <2>2
<1>4. CASE Restart
  <2>1. /\ catalogue' = NoView /\ response' = NoView /\ UNCHANGED sample
        /\ \A q \in Requests : request'[q] = NoRequest
    BY <1>4 DEF Restart
  <2> QED
    BY <2>1, NullMarks DEF MarkInv, Listed, Told, NoRequest, NoView
<1>5. CASE CleanCache
  BY <1>1, <1>5 DEF CleanCache, views
<1> QED
  BY <1>2, <1>3, <1>4, <1>5, RequestKeepsMarks DEF PreviewNext

\* Unless syncs or a request overlapped a reload, or the caches were cleaned on disk: after
\* a sync that ran alone to its end, the registries and every lru_cache over them hold
\* nothing or what would be computed from the store now, whatever requests run; only the
\* mark of a stored sample may be missing, and it is never there without one
\* (knowledge_base/routes.py and background.py, studio/catalogue.py).
THEOREM CachesFollow == PreviewSpec => []CachesFollowTheSync
<1>1. PreviewInit => CacheInv /\ MarkInv
  <2> SUFFICES ASSUME PreviewInit PROVE CacheInv /\ MarkInv
    OBVIOUS
  <2>1. \A s \in Syncs : sync[s].step = "idle"
    BY DEF PreviewInit, NoSync
  <2>2. \A q \in Requests : request[q] = NoRequest
    BY DEF PreviewInit
  <2>3. CacheInv
    BY <2>1 DEF CacheInv, Served, Reloads
  <2>4. MarkInv
    BY <2>2, NullMarks DEF MarkInv, PreviewInit, AnySample
  <2> QED
    BY <2>3, <2>4
<1>2. CacheInv /\ MarkInv /\ TypesInv => CachesFollowTheSync
  <2> DEFINE answer == IF row.ready THEN pack ELSE None
             entry(mark) == [row |-> row, sources |-> indexed, there |-> TRUE, spec |-> answer,
                             sampled |-> mark]
             any   == AnySample /\ row.ready /\ pack # None
             fresh == {entry(FALSE), entry(any)}
  <2>1. ASSUME NEW view \in View, view.there, Shows(view), Listed(view, AnySample)
        PROVE  view \in fresh
    <3>1. /\ view.sampled \in BOOLEAN /\ view.spec = answer
          /\ view = [row |-> row, sources |-> indexed, there |-> TRUE, spec |-> answer,
                     sampled |-> view.sampled]
      BY <2>1 DEF Shows, View
    <3>2. view = entry(view.sampled)
      BY <3>1
    <3>3. view.sampled => any
      BY <2>1, <3>1 DEF Listed, Told
    <3> HIDE DEF entry
    <3>4. CASE view.sampled = TRUE
      <4>1. any = TRUE
        BY <3>3, <3>4
      <4> QED
        BY <3>2, <3>4, <4>1
    <3>5. CASE view.sampled = FALSE
      BY <3>2, <3>5
    <3> QED
      BY <3>1, <3>4, <3>5
  <2>2. ASSUME Fresh, TypesInv, MarkInv
        PROVE  catalogue \in {NoView} \cup fresh /\ response \in {NoView} \cup fresh
    BY <2>1, <2>2 DEF Fresh, TypesInv, CachesTypeOK, MarkInv
  <2> QED
    BY <2>2 DEF CacheInv, Serene, Served, Fresh, CachesFollowTheSync
<1>3. TypesInv /\ MarkInv /\ [PreviewNext]_previewVars => MarkInv'
  BY StepKeepsMarks
<1> QED
  BY <1>1, <1>2, <1>3, StepKeepsCaches, SamplesHold, LaneHolds, PTL DEF PreviewSpec
====================================================================================

----------------------------- MODULE AssetStore -----------------------------
(***************************************************************************)
(* The asset cache of one host (release/bootstrap.py, registry.py and      *)
(* runtime/tools/engram_assets.py): preparations, one at a time, of        *)
(* several revisions of the recipe, each of which may raise or be killed   *)
(* between any two of its steps and is simply run again.  An asset is      *)
(* written under a temporary name (or, where the code does so, in place)   *)
(* and published under its own; receipts record its fingerprint.           *)
(***************************************************************************)
EXTENDS Naturals, FiniteSets

CONSTANTS
  Revisions, \* revisions of the recipe lock: same runtime, draft and tables, other
             \* model and kit
  NoRev,     \* no revision
  Blocks,    \* length of every asset; a block is also a part of a table
  MaxFaults, \* bound on kills, exceptions and wrong bytes received
  Corrupt    \* whether a server or docker may deliver wrong bytes

ASSUME AssetAssumption ==
  /\ NoRev \notin Revisions
  /\ {"model", "draft", "engram", "runtime"} \cap Revisions = {} \* other directories
  /\ Blocks \in Nat \ {0} /\ MaxFaults \in Nat /\ Corrupt \in BOOLEAN

\* The model directories: root/model, and one for a revision that came later.
Dirs == {"model"} \cup Revisions
Manifest(d) == <<d, "manifest">>
Shard(d) == <<d, "shard">> \* the same bytes in every revision
Draft == <<"draft", "shard">>
Packed == <<"engram", "manifest">>
Table == <<"engram", "table">>
Kit(r) == <<r, "kit">>
Archive == <<"runtime", "archive">>
Cache == <<"runtime", "cache">>
Source(r) == <<r, "source">> \* pinned to the model by the kit of r
Files == {Manifest(d) : d \in Dirs} \cup {Shard(d) : d \in Dirs}
         \cup {Kit(r) : r \in Revisions} \cup {Source(r) : r \in Revisions}
         \cup {Draft, Packed, Table, Archive, Cache}

NoPart == [len |-> 0, good |-> FALSE]
Whole == [len |-> Blocks, good |-> TRUE]
Parts == [len : 0..Blocks, good : BOOLEAN]

\* A receipt that is missing, or was cut while it was written in place.
None == <<"missing", 0>>
Torn == <<"torn", 0>>

Fetching == {"manifest", "shard", "draft", "packed"}
Phases == Fetching \cup
  {"idle", "kit", "frozen", "reuse", "archive", "copied", "extract", "extracted", "choose",
   "receipt", "stamp", "draft receipt", "draft stamp", "engram", "table",
   "unlink", "engram receipt", "source", "header", "source receipt", "source rename", "point"}

VARIABLES
  path,     \* [Files -> ...]: what is under the name of each asset
  part,     \* [Files -> Parts]: what is under its temporary name
  modelDir, \* root/model exists
  home,     \* revision whose manifest is in root/model
  linked,   \* directories whose shard is a hard link of root/model's
  receipt,  \* [Dirs -> ...]: model-verified*.json
  draftOk,  \* draft-verified.json
  tableOk,  \* verified.json of the tables
  sourceOk, \* revisions whose header stand-ins have their verified.json
  pointer,  \* revision that prepared.json names
  pc, io,   \* where the running preparation is
  want,     \* the revision it prepares
  place,    \* the directory it chose for the model
  faults,   \* faults so far
  why,      \* history: what the last preparation ended with
  moved     \* history: another revision was begun since prepared.json

places == <<modelDir, home, linked>>
records == <<receipt, draftOk, tableOk, sourceOk, pointer>>
disk == <<path, part, places, records>>
run == <<pc, io, want, place, faults, why, moved>>
vars == <<disk, run>>

\* What os.stat tells of a shard or a table: whatever links it gets or loses,
\* and whatever is written to it, changes st_nlink and st_ctime.
Links(d) == IF d = "model" \/ d \in linked THEN 1 + Cardinality(linked) ELSE 1
Stamp(d) == <<path[Shard(d)], Links(d)>>
TableStamp == <<path[Table], IF part[Table] = NoPart THEN 1 ELSE 2>>

Place(r) == IF ~modelDir \/ home = r THEN "model" ELSE r

Target == CASE pc = "manifest" -> Manifest(place) [] pc = "shard" -> Shard(place)
            [] pc = "draft" -> Draft [] OTHER -> Packed
AfterFetch == CASE pc = "manifest" -> "shard" [] pc = "shard" -> "draft"
                [] pc = "draft" -> "receipt" [] OTHER -> "table"

Goto(p) == pc' = p /\ io' = "begin" /\ UNCHANGED <<want, place, faults, why, moved>>
Raise(reason) == pc' = "idle" /\ io' = "begin" /\ why' = reason
                 /\ UNCHANGED <<want, place, faults, moved>>

\* Bytes arrive, the pinned ones or, as a fault, others.
Arrive(f, len) ==
  \E ok \in {TRUE} \cup (IF Corrupt /\ faults < MaxFaults THEN {FALSE} ELSE {}) :
    /\ part' = [part EXCEPT ![f] = [len |-> len, good |-> @.good /\ ok]]
    /\ faults' = IF ok THEN faults ELSE faults + 1

Publish(f) == /\ path' = [path EXCEPT ![f] = IF part[f] = Whole THEN "pinned" ELSE "other"]
              /\ part' = [part EXCEPT ![f] = NoPart]

-----------------------------------------------------------------------------
Init ==
  /\ path = [f \in Files |-> "none"] /\ part = [f \in Files |-> NoPart]
  /\ modelDir = FALSE /\ home = NoRev /\ linked = {}
  /\ receipt = [d \in Dirs |-> None] /\ draftOk = "missing" /\ tableOk = None /\ sourceOk = {}
  /\ pointer = NoRev
  /\ pc = "idle" /\ io = "begin" /\ want \in Revisions /\ place = "model"
  /\ faults = 0 /\ why = "never" /\ moved = FALSE

\* The operator runs the launcher for a revision (again).
Prepare(r) ==
  /\ pc = "idle"
  /\ pc' = "kit" /\ io' = "begin" /\ want' = r /\ why' = "running"
  /\ moved' = (moved \/ r # pointer)
  /\ UNCHANGED <<disk, place, faults>>

\* An exception or a kill: both leave the disk as it is.
Stop ==
  /\ pc # "idle" /\ faults < MaxFaults
  /\ pc' = "idle" /\ io' = "begin" /\ why' = "stopped" /\ faults' = faults + 1
  /\ UNCHANGED <<disk, want, place, moved>>

-----------------------------------------------------------------------------
(* bootstrap: the frozen kit, and an earlier preparation of this revision *)

CopyKit ==
  /\ pc = "kit" /\ path[Kit(want)] = "none"
  /\ path' = [path EXCEPT ![Kit(want)] = "partial"]
  /\ Goto("frozen")
  /\ UNCHANGED <<part, places, records>>

CopiedKit ==
  /\ pc = "frozen"
  /\ path' = [path EXCEPT ![Kit(want)] = "pinned"]
  /\ Goto("kit")
  /\ UNCHANGED <<part, places, records>>

VerifyKit ==
  /\ pc = "kit" /\ path[Kit(want)] # "none"
  /\ IF path[Kit(want)] = "pinned" THEN Goto("reuse") ELSE Raise("kit differs")
  /\ UNCHANGED disk

\* check_receipt: nothing else in the directory, every fingerprint as recorded.
Inventory(d) ==
  \A f \in {Manifest(d), Shard(d)} : path[f] # "none" /\ part[f] = NoPart
ReceiptHolds(d) == Inventory(d) /\ receipt[d] = Stamp(d)

\* Mutant: everything is verified again, and its receipts written, in place.
Reverify ==
  /\ pc = "reuse"
  /\ Goto("archive")
  /\ UNCHANGED disk

\* What an earlier preparation left is taken as it is, or refused.
Reusable(r) ==
  /\ tableOk = TableStamp /\ r \in sourceOk
  /\ ReceiptHolds(Place(r))
  /\ draftOk = path[Draft]

Reuse ==
  /\ pc = "reuse"
  /\ IF pointer # want THEN Goto("archive")
     ELSE IF Reusable(want) THEN Raise("prepared") ELSE Raise("changed since verified")
  /\ UNCHANGED disk

-----------------------------------------------------------------------------
(* registry.prepare and extract *)

CopyArchive ==
  /\ pc = "archive" /\ path[Archive] = "none" /\ part[Archive] = NoPart
  /\ part' = [part EXCEPT ![Archive] = [len |-> 0, good |-> TRUE]]
  /\ Goto("copied")
  /\ UNCHANGED <<path, places, records>>

CopyBlock ==
  /\ pc = "copied" /\ part[Archive].len < Blocks
  /\ Arrive(Archive, part[Archive].len + 1)
  /\ UNCHANGED <<path, places, records, pc, io, want, place, why, moved>>

CopiedArchive ==
  /\ pc = "copied" /\ part[Archive].len = Blocks
  /\ IF part[Archive] = Whole THEN Publish(Archive) /\ Goto("extract")
     ELSE Raise("hash mismatch") /\ UNCHANGED <<path, part>>
  /\ UNCHANGED <<places, records>>

FindArchive ==
  /\ pc = "archive" /\ (path[Archive] # "none" \/ part[Archive] # NoPart)
  /\ IF path[Archive] = "none" THEN Raise("interrupted copy")
     ELSE IF path[Archive] = "pinned" THEN Goto("extract") ELSE Raise("existing asset differs")
  /\ UNCHANGED disk

\* Mutant: the cache is extracted under its own name.
UnstagedCache ==
  /\ pc = "extract" /\ path[Cache] = "none"
  /\ path' = [path EXCEPT ![Cache] = "partial"]
  /\ part' = [part EXCEPT ![Cache] = [len |-> 0, good |-> TRUE]]
  /\ Goto("extracted")
  /\ UNCHANGED <<places, records>>

StageCache ==
  /\ pc = "extract" /\ path[Cache] = "none" /\ part[Cache] = NoPart
  /\ part' = [part EXCEPT ![Cache] = [len |-> 0, good |-> TRUE]]
  /\ Goto("extracted")
  /\ UNCHANGED <<path, places, records>>

ExtractBlock ==
  /\ pc = "extracted" /\ part[Cache].len < Blocks
  /\ part' = [part EXCEPT ![Cache].len = @ + 1]
  /\ UNCHANGED <<path, places, records, run>>

RenameCache ==
  /\ pc = "extracted" /\ part[Cache].len = Blocks
  /\ Publish(Cache)
  /\ Goto("choose")
  /\ UNCHANGED <<places, records>>

FindCache ==
  /\ pc = "extract" /\ (path[Cache] # "none" \/ part[Cache] # NoPart)
  /\ IF path[Cache] # "none" THEN Goto("choose") ELSE Raise("interrupted extraction")
  /\ UNCHANGED disk

-----------------------------------------------------------------------------
(* snapshot and download: the model, the draft, the manifest of the tables *)

ChoosePlace ==
  /\ pc = "choose"
  /\ place' = Place(want) /\ pc' = "manifest"
  /\ UNCHANGED <<disk, io, want, faults, why, moved>>

\* A shard that the earlier revision has is linked, unless os.link raises.
LinkShard ==
  /\ pc = "shard" /\ io = "begin" /\ place # "model"
  /\ path[Shard(place)] = "none" /\ home # NoRev /\ path[Shard("model")] # "none"
  /\ path' = [path EXCEPT ![Shard(place)] = path[Shard("model")]]
  /\ linked' = linked \cup {place}
  /\ UNCHANGED <<part, modelDir, home, records, run>>

FetchExisting ==
  /\ pc \in Fetching /\ io = "begin" /\ path[Target] # "none"
  /\ IF path[Target] = "pinned" THEN Goto(AfterFetch) ELSE Raise("existing asset differs")
  /\ UNCHANGED disk

FetchBegin ==
  /\ pc \in Fetching /\ io = "begin" /\ path[Target] = "none"
  /\ modelDir' = (modelDir \/ Target = Manifest("model"))
  /\ io' = "request"
  /\ UNCHANGED <<path, part, home, linked, records, pc, want, place, faults, why, moved>>

\* The answer to a request with or without Range: 200 and all of the file, 206
\* and the rest, or 416 when the partial file leaves no rest to ask for.
Answered ==
  /\ pc \in Fetching /\ io = "request"
  /\ IF part[Target].len = Blocks THEN Raise("416") /\ UNCHANGED part
     ELSE /\ io' = "write"
          /\ \/ part' = [part EXCEPT ![Target] = [len |-> 0, good |-> TRUE]]
             \/ part[Target].len > 0 /\ UNCHANGED part
          /\ UNCHANGED <<pc, want, place, faults, why, moved>>
  /\ UNCHANGED <<path, places, records>>

FetchBlock ==
  /\ pc \in Fetching /\ io = "write" /\ part[Target].len < Blocks
  /\ Arrive(Target, part[Target].len + 1)
  /\ UNCHANGED <<path, places, records, pc, io, want, place, why, moved>>

\* Mutant: the partial file is renamed as it is.
UncheckedEnd ==
  /\ pc \in Fetching /\ io = "write" /\ part[Target].len = Blocks
  /\ Publish(Target) /\ Goto(AfterFetch)
  /\ home' = IF Target = Manifest("model") THEN want ELSE home
  /\ UNCHANGED <<modelDir, linked, records>>

\* Size and SHA-256 of the partial file, then its rename.
FetchEnd ==
  /\ pc \in Fetching /\ io = "write" /\ part[Target].len = Blocks
  /\ IF part[Target] = Whole THEN Publish(Target) /\ Goto(AfterFetch)
     ELSE Raise("hash mismatch") /\ UNCHANGED <<path, part>>
  /\ home' = IF part[Target] = Whole /\ Target = Manifest("model") THEN want ELSE home
  /\ UNCHANGED <<modelDir, linked, records>>

-----------------------------------------------------------------------------
(* The receipts of the model and of the draft, written in place *)

CheckReceipt ==
  /\ pc = "receipt" /\ receipt[place] # None
  /\ IF receipt[place] = Torn THEN Raise("torn receipt")
     ELSE IF ReceiptHolds(place) THEN Goto("draft receipt") ELSE Raise("receipt refused")
  /\ UNCHANGED disk

\* verify_full hashes everything, then the receipt is opened for writing.
VerifyFull ==
  /\ pc = "receipt" /\ receipt[place] = None
  /\ IF Inventory(place) /\ path[Shard(place)] = "pinned"
     THEN receipt' = [receipt EXCEPT ![place] = Torn] /\ Goto("stamp")
     ELSE Raise("unexpected files") /\ UNCHANGED receipt
  /\ UNCHANGED <<path, part, places, draftOk, tableOk, sourceOk, pointer>>

WriteReceipt ==
  /\ pc = "stamp"
  /\ receipt' = [receipt EXCEPT ![place] = Stamp(place)]
  /\ Goto("draft receipt")
  /\ UNCHANGED <<path, part, places, draftOk, tableOk, sourceOk, pointer>>

WriteDraftReceipt ==
  /\ \/ pc = "draft receipt" /\ draftOk' = "torn" /\ Goto("draft stamp")
     \/ pc = "draft stamp" /\ draftOk' = path[Draft] /\ Goto("engram")
  /\ UNCHANGED <<path, part, places, receipt, tableOk, sourceOk, pointer>>

-----------------------------------------------------------------------------
(* engram_assets: the tables of this rank and the header stand-ins *)

CheckTables ==
  /\ pc = "engram"
  /\ IF tableOk = None THEN Goto("packed")
     ELSE IF tableOk = TableStamp THEN Goto("source") ELSE Raise("changed since verified")
  /\ UNCHANGED disk

\* Mutant: the partial table is created exclusively, so a retry finds it and raises.
ExclusiveTable ==
  /\ pc = "table" /\ io = "begin"
  /\ IF path[Table] # "none"
     THEN /\ IF path[Table] = "pinned" THEN Goto("engram receipt") ELSE Raise("table differs")
          /\ UNCHANGED part
     ELSE IF part[Table] # NoPart THEN Raise("partial exists") /\ UNCHANGED part
     ELSE /\ part' = [part EXCEPT ![Table] = [len |-> 0, good |-> TRUE]]
          /\ io' = "write" /\ UNCHANGED <<pc, want, place, faults, why, moved>>
  /\ UNCHANGED <<path, places, records>>

\* A published table is hashed again; a partial one is kept, hashed and resumed.
TableOpen ==
  /\ pc = "table" /\ io = "begin"
  /\ IF path[Table] # "none"
     THEN /\ IF path[Table] = "pinned" THEN Goto("engram receipt") ELSE Raise("table differs")
          /\ UNCHANGED part
     ELSE /\ part' = [part EXCEPT ![Table] = IF @ = NoPart THEN [len |-> 0, good |-> TRUE] ELSE @]
          /\ io' = "write" /\ UNCHANGED <<pc, want, place, faults, why, moved>>
  /\ UNCHANGED <<path, places, records>>

TableBlock ==
  /\ pc = "table" /\ io = "write" /\ part[Table].good /\ part[Table].len < Blocks
  /\ Arrive(Table, part[Table].len + 1)
  /\ UNCHANGED <<path, places, records, pc, io, want, place, why, moved>>

\* Every part is compared with its checksum as soon as it is there.
TableDiffers ==
  /\ pc = "table" /\ io = "write" /\ ~part[Table].good
  /\ Raise("part mismatch")
  /\ UNCHANGED disk

TableLink ==
  /\ pc = "table" /\ io = "write" /\ part[Table] = Whole
  /\ path' = [path EXCEPT ![Table] = "pinned"]
  /\ Goto("unlink")
  /\ UNCHANGED <<part, places, records>>

TableUnlink ==
  /\ pc = "unlink"
  /\ part' = [part EXCEPT ![Table] = NoPart]
  /\ Goto("engram receipt")
  /\ UNCHANGED <<path, places, records>>

TableReceipt ==
  /\ pc = "engram receipt"
  /\ tableOk' = TableStamp
  /\ Goto("source")
  /\ UNCHANGED <<path, part, places, receipt, draftOk, sourceOk, pointer>>

\* Stand-ins without a receipt are written again, in place.
SourceBegin ==
  /\ pc = "source"
  /\ IF want \in sourceOk THEN Goto("point") /\ UNCHANGED path
     ELSE path' = [path EXCEPT ![Source(want)] = "partial"] /\ Goto("header")
  /\ UNCHANGED <<part, places, records>>

SourceWritten ==
  /\ pc = "header"
  /\ path' = [path EXCEPT ![Source(want)] = "pinned"]
  /\ Goto("source receipt")
  /\ UNCHANGED <<part, places, records>>

\* verified.json of the stand-ins: their inventory, a file beside it, its rename.
SourceTemp ==
  /\ pc = "source receipt"
  /\ IF part[Source(want)] = NoPart
     THEN part' = [part EXCEPT ![Source(want)] = Whole] /\ Goto("source rename")
     ELSE Raise("unexpected files") /\ UNCHANGED part
  /\ UNCHANGED <<path, places, records>>

SourceReceipt ==
  /\ pc = "source rename"
  /\ sourceOk' = sourceOk \cup {want}
  /\ part' = [part EXCEPT ![Source(want)] = NoPart]
  /\ Goto("point")
  /\ UNCHANGED <<path, places, receipt, draftOk, tableOk, pointer>>

\* atomic_json(prepared.json): the preparation is over.
Point ==
  /\ pc = "point"
  /\ pointer' = want /\ moved' = FALSE
  /\ pc' = "idle" /\ io' = "begin" /\ why' = "prepared"
  /\ UNCHANGED <<path, part, places, receipt, draftOk, tableOk, sourceOk, want, place, faults>>

-----------------------------------------------------------------------------
(* Specification *)

Step ==
  \/ CopyKit \/ CopiedKit \/ VerifyKit \/ Reuse
  \/ CopyArchive \/ CopyBlock \/ CopiedArchive \/ FindArchive
  \/ StageCache \/ ExtractBlock \/ RenameCache \/ FindCache
  \/ ChoosePlace \/ LinkShard \/ FetchExisting \/ FetchBegin \/ Answered
  \/ FetchBlock \/ FetchEnd
  \/ CheckReceipt \/ VerifyFull \/ WriteReceipt \/ WriteDraftReceipt
  \/ CheckTables \/ TableOpen \/ TableBlock \/ TableDiffers \/ TableLink \/ TableUnlink
  \/ TableReceipt \/ SourceBegin \/ SourceWritten \/ SourceTemp \/ SourceReceipt \/ Point

Next == Step \/ Stop \/ \E r \in Revisions : Prepare(r)

Spec == Init /\ [][Next]_vars

\* A preparation runs on, and the operator repeats the one of each revision.
LiveSpec == Spec /\ WF_vars(Step) /\ \A r \in Revisions : SF_vars(Prepare(r))

-----------------------------------------------------------------------------
(* Properties *)

\* The state is well typed: a receipt records only weights and tables that are
\* the pinned ones, and nothing but them.
AssetTypeOK ==
  /\ path \in [Files -> {"none", "partial", "pinned", "other"}]
  /\ part \in [Files -> Parts]
  /\ modelDir \in BOOLEAN /\ home \in Revisions \cup {NoRev} /\ linked \subseteq Revisions
  /\ receipt \in [Dirs -> {None, Torn} \cup ({"pinned"} \X (Nat \ {0}))]
  /\ draftOk \in {"missing", "torn", "pinned"}
  /\ tableOk \in {None} \cup ({"pinned"} \X {1, 2}) /\ sourceOk \subseteq Revisions
  /\ pointer \in Revisions \cup {NoRev}
  /\ pc \in Phases /\ io \in {"begin", "request", "write"}
  /\ want \in Revisions /\ place \in Dirs
  /\ faults \in 0..MaxFaults /\ moved \in BOOLEAN

\* What a preparation of r needs whole before prepared.json may name r.
Shared == {Archive, Cache, Draft, Packed, Table}
Assets == Shared \cup {Kit(r) : r \in Revisions} \cup {Source(r) : r \in Revisions}
          \cup {Shard(r) : r \in Revisions}
NeedsOf == [r \in Revisions |-> Shared \cup {Kit(r), Source(r), Shard(r)}]
HasModel(r) ==
  \E d \in {r} \cup (IF home = r THEN {"model"} ELSE {}) :
     path[Manifest(d)] = "pinned" /\ path[Shard(d)] = "pinned"
Published ==
  {a \in Shared : path[a] = "pinned"}
  \cup {Kit(r) : r \in {x \in Revisions : path[Kit(x)] = "pinned"}}
  \cup {Source(r) : r \in {x \in sourceOk : path[Source(x)] = "pinned"}}
  \cup {Shard(r) : r \in {x \in Revisions : HasModel(x)}}

Publication == INSTANCE AssetPublication
                 WITH NoRev <- NoRev, Needs <- NeedsOf, shelf <- Published, pointer <- pointer

\* Whatever is killed, raises or is fed wrong bytes, an asset appears under its
\* name whole and stays, and prepared.json comes after all it names
\* (atomic_json: "Publish a small pointer only after all immutable inputs have
\* verified").
PublishesWhole == Publication!Spec

\* The ways in which the disk, once it is so, makes every later preparation of
\* r raise until somebody inspects it: an unfinished kit, copy or extraction, a
\* partial file that is already full, a part with wrong bytes, a receipt cut in
\* its writing, a receipt older than a hard link of the same weights, a partial
\* file left beside a linked shard, and a temporary one beside the stand-ins.
Full(f) == path[f] = "none" /\ part[f].len = Blocks
Blocked(r) ==
  LET d == Place(r) IN
  \/ path[Kit(r)] = "partial"
  \/ path[Archive] = "none" /\ part[Archive] # NoPart
  \/ path[Cache] = "none" /\ part[Cache] # NoPart
  \/ \E f \in {Manifest(d), Shard(d), Draft, Packed} : Full(f)
  \/ path[Table] = "none" /\ part[Table] # NoPart /\ ~part[Table].good
  \/ receipt[d] \notin {None, Stamp(d)}
  \/ path[Shard(d)] # "none" /\ part[Shard(d)] # NoPart
  \/ part[Source(r)] # NoPart

\* Repeated often enough, the preparation of each revision comes to its end,
\* again and again, unless the disk stays in one of those conditions: no other
\* interruption, in no order, stands in the way of a retry.
RetriesPrepare ==
  \A r \in Revisions : []<>(want = r /\ why = "prepared") \/ <>[]Blocked(r)

\* A host that was prepared stays reusable whatever interrupts the repeated
\* preparations of the same revision ("Repeat launches reuse verified files").
ReuseHolds == pointer # NoRev /\ ~moved => Reusable(pointer)
=============================================================================

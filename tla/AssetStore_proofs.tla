-------------------------- MODULE AssetStore_proofs --------------------------
(* Proofs about the asset cache, for any number of revisions, blocks and     *)
(* faults: AssetInv is inductive, and the properties follow.                 *)
EXTENDS AssetStore, TLAPS, FiniteSetTheorems

\* The phases behind each asset.
KitDone == Phases \ {"idle", "kit", "frozen"}
ArchiveDone == KitDone \ {"reuse", "archive", "copied"}
CacheDone == ArchiveDone \ {"extract", "extracted"}
Placed == CacheDone \ {"choose"}
ManifestDone == Placed \ {"manifest"}
ShardDone == ManifestDone \ {"shard"}
DraftDone == ShardDone \ {"draft"}
ReceiptDone == DraftDone \ {"receipt", "stamp"}
DraftReceiptDone == ReceiptDone \ {"draft receipt", "draft stamp"}
Tabling == {"packed", "table", "unlink", "engram receipt"}
TableDone == {"source", "header", "source receipt", "source rename", "point"}

\* What the disk never holds: wrong bytes under a name, a partial asset but a
\* kit or a stand-in, a receipt of something else than what is there.
FileInv ==
  /\ \A f \in Files : path[f] # "other"
  /\ \A f \in Files : path[f] = "partial" => \E r \in Revisions : f \in {Kit(r), Source(r)}
  /\ IsFiniteSet(linked)
  /\ home # NoRev <=> path[Manifest("model")] = "pinned"
  /\ home # NoRev => modelDir
  /\ tableOk # None =>
       path[Packed] = "pinned" /\ path[Table] = "pinned" /\ tableOk = TableStamp
  /\ \A r \in sourceOk : path[Source(r)] = "pinned"

\* What the running preparation has behind it.
DoneInv ==
  /\ pc \in KitDone => path[Kit(want)] = "pinned"
  /\ pc \in ArchiveDone => path[Archive] = "pinned"
  /\ pc \in CacheDone => path[Cache] = "pinned"
  /\ pc \in ManifestDone => path[Manifest(place)] = "pinned"
  /\ pc \in ShardDone => path[Shard(place)] = "pinned"
  /\ pc \in DraftDone => path[Draft] = "pinned"
  /\ pc = "stamp" => Inventory(place)
  /\ pc \in ReceiptDone => ReceiptHolds(place)
  /\ pc \in DraftReceiptDone => draftOk = "pinned"

\* What is under way in it.
WorkInv ==
  /\ io # "begin" => pc \in Fetching \cup {"table"}
  /\ io # "begin" /\ pc \in Fetching => path[Target] = "none"
  /\ io # "begin" /\ pc = "manifest" => modelDir
  /\ io # "begin" /\ pc = "table" => path[Table] = "none"
  /\ pc = "copied" => path[Archive] = "none"
  /\ pc = "extracted" => path[Cache] = "none" /\ part[Cache].good

\* The directory it chose is the one a later look would choose.
PlaceInv ==
  pc \in Placed =>
    /\ place \in {"model", want}
    /\ place = want => modelDir /\ home # want
    /\ place = "model" => home = want \/ (pc = "manifest" /\ home = NoRev)

TableInv ==
  /\ pc \in Tabling => tableOk = None
  /\ pc \in Tabling \ {"packed"} => path[Packed] = "pinned"
  /\ pc \in {"unlink", "engram receipt"} => path[Table] = "pinned"
  /\ pc \in TableDone => tableOk # None
  /\ pc \in {"header", "source receipt", "source rename"} => want \notin sourceOk
  /\ pc \in {"source receipt", "source rename"} => path[Source(want)] = "pinned"
  /\ pc = "point" => want \in sourceOk

\* What prepared.json names is there, and nothing is written to the host while
\* no other revision is begun.
PointerInv ==
  pointer # NoRev =>
    /\ \A f \in Shared \cup {Kit(pointer)} : path[f] = "pinned"
    /\ pointer \in sourceOk
    /\ HasModel(pointer)
    /\ ~moved => /\ Reusable(pointer)
                 /\ pc \in {"idle", "kit", "reuse"}
                 /\ pc # "idle" => want = pointer

AssetInv ==
  AssetTypeOK /\ FileInv /\ DoneInv /\ WorkInv /\ PlaceInv /\ TableInv /\ PointerInv

-----------------------------------------------------------------------------
(* The names of the assets are names, and differ.                            *)
LEMMA Named ==
  /\ \A d \in Dirs : Manifest(d) \in Files /\ Shard(d) \in Files
  /\ \A r \in Revisions : Kit(r) \in Files /\ Source(r) \in Files
  /\ {Draft, Packed, Table, Archive, Cache} \subseteq Files
  /\ "model" \in Dirs /\ Revisions \subseteq Dirs
BY DEF Files, Dirs

LEMMA Apart ==
  /\ \A d \in Dirs, e \in Dirs : /\ Manifest(d) = Manifest(e) => d = e
                                 /\ Shard(d) = Shard(e) => d = e
                                 /\ Manifest(d) # Shard(e)
  /\ \A r \in Revisions, s \in Revisions : /\ Kit(r) = Kit(s) => r = s
                                           /\ Source(r) = Source(s) => r = s
                                           /\ Kit(r) # Source(s)
  /\ \A r \in Revisions, d \in Dirs :
       /\ Kit(r) \notin {Manifest(d), Shard(d), Draft, Packed, Table, Archive, Cache}
       /\ Source(r) \notin {Manifest(d), Shard(d), Draft, Packed, Table, Archive, Cache}
  /\ \A d \in Dirs : /\ Manifest(d) \notin {Draft, Packed, Table, Archive, Cache}
                     /\ Shard(d) \notin {Draft, Packed, Table, Archive, Cache}
  /\ Draft \notin {Packed, Table, Archive, Cache} /\ Packed \notin {Table, Archive, Cache}
  /\ Table \notin {Archive, Cache} /\ Archive # Cache
  /\ \A r \in Revisions : r # "model"
BY AssetAssumption DEF Dirs, Manifest, Shard, Kit, Source, Draft, Packed, Table, Archive, Cache

LEMMA TargetNamed ==
  ASSUME AssetTypeOK, pc \in Fetching
  PROVE  /\ pc = "manifest" => Target = Manifest(place)
         /\ pc = "shard" => Target = Shard(place)
         /\ pc = "draft" => Target = Draft
         /\ pc = "packed" => Target = Packed
         /\ Target \in Files
         /\ Target \notin {Table, Archive, Cache}
         /\ \A r \in Revisions : Target \notin {Kit(r), Source(r)}
         /\ pc = "manifest" => AfterFetch = "shard"
         /\ pc = "shard" => AfterFetch = "draft"
         /\ pc = "draft" => AfterFetch = "receipt"
         /\ pc = "packed" => AfterFetch = "table"
<1>1. /\ pc = "manifest" => Target = Manifest(place) /\ AfterFetch = "shard"
      /\ pc = "shard" => Target = Shard(place) /\ AfterFetch = "draft"
      /\ pc = "draft" => Target = Draft /\ AfterFetch = "receipt"
      /\ pc = "packed" => Target = Packed /\ AfterFetch = "table"
      /\ pc \in {"manifest", "shard", "draft", "packed"} /\ place \in Dirs
  BY DEF Target, AfterFetch, Fetching, AssetTypeOK
<1> QED
  BY <1>1, Named, Apart

-----------------------------------------------------------------------------
(* Types.                                                                    *)
LEMMA PartForms ==
  /\ NoPart \in Parts /\ Whole \in Parts /\ NoPart # Whole
  /\ [len |-> 0, good |-> TRUE] \in Parts
  /\ \A q \in Parts : q.len \in 0..Blocks /\ q.good \in BOOLEAN
<1>1. Blocks \in Nat \ {0}
  BY AssetAssumption
<1> QED
  BY <1>1 DEF NoPart, Whole, Parts

LEMMA ArriveTyped ==
  ASSUME AssetTypeOK, NEW f \in Files, NEW len \in 0..Blocks, Arrive(f, len)
  PROVE  /\ part' \in [Files -> Parts]
         /\ \A g \in Files \ {f} : part'[g] = part[g]
         /\ faults' \in 0..MaxFaults
<1>1. PICK ok \in BOOLEAN :
        /\ ok \/ faults < MaxFaults
        /\ part' = [part EXCEPT ![f] = [len |-> len, good |-> @.good /\ ok]]
        /\ faults' = IF ok THEN faults ELSE faults + 1
  BY DEF Arrive
<1>2. part \in [Files -> Parts] /\ faults \in 0..MaxFaults /\ MaxFaults \in Nat
  BY AssetAssumption DEF AssetTypeOK
<1>3. PICK q \in Parts : q = [len |-> len, good |-> part[f].good /\ ok]
  <2>1. (part[f].good /\ ok) \in BOOLEAN
    OBVIOUS
  <2> QED
    BY <2>1, Zenon DEF Parts
<1>4. part' = [part EXCEPT ![f] = q]
  BY <1>1, <1>3
<1>5. faults' \in 0..MaxFaults
  BY <1>1, <1>2
<1> QED
  BY <1>2, <1>4, <1>5

\* A name written to, and a name published.
Writes(f, v) == path' = [path EXCEPT ![f] = v]

LEMMA Written ==
  ASSUME AssetTypeOK, NEW f \in Files, NEW v \in {"none", "partial", "pinned", "other"},
         Writes(f, v)
  PROVE  /\ path' \in [Files -> {"none", "partial", "pinned", "other"}]
         /\ path'[f] = v
         /\ \A g \in Files \ {f} : path'[g] = path[g]
BY DEF AssetTypeOK, Writes

LEMMA PartSet ==
  ASSUME AssetTypeOK, NEW f \in Files, NEW q \in Parts, part' = [part EXCEPT ![f] = q]
  PROVE  /\ part' \in [Files -> Parts] /\ part'[f] = q
         /\ \A g \in Files \ {f} : part'[g] = part[g]
BY DEF AssetTypeOK

LEMMA PublishForm ==
  ASSUME AssetTypeOK, NEW f \in Files, Publish(f), part[f] = Whole
  PROVE  /\ Writes(f, "pinned")
         /\ part' \in [Files -> Parts] /\ part'[f] = NoPart
         /\ \A g \in Files \ {f} : part'[g] = part[g]
BY PartForms DEF AssetTypeOK, Publish, Writes

LEMMA ExtractTyped ==
  ASSUME AssetTypeOK, ExtractBlock
  PROVE  /\ part' \in [Files -> Parts]
         /\ part'[Cache].good = part[Cache].good
         /\ \A g \in Files \ {Cache} : part'[g] = part[g]
<1>1. part \in [Files -> Parts] /\ Cache \in Files /\ Blocks \in Nat
  BY AssetAssumption, Named DEF AssetTypeOK
<1>2. part[Cache].len \in 0..Blocks /\ part[Cache].len < Blocks
  BY <1>1, PartForms DEF ExtractBlock
<1>3. \A q \in Parts : q.len < Blocks => [q EXCEPT !.len = @ + 1] \in Parts
                                         /\ [q EXCEPT !.len = @ + 1].good = q.good
  BY <1>1 DEF Parts
<1> QED
  BY <1>1, <1>2, <1>3 DEF ExtractBlock

-----------------------------------------------------------------------------
(* What a step writes under a name, and under a temporary one.               *)
PathEffect ==
  \/ path' = path
  \/ \E f \in {Kit(want), Archive, Cache, Shard(place), Table, Source(want)} : Writes(f, "pinned")
  \/ FetchEnd /\ part[Target] = Whole /\ Writes(Target, "pinned")
  \/ Writes(Kit(want), "partial") /\ path[Kit(want)] = "none"
  \/ Writes(Source(want), "partial") /\ want \notin sourceOk

\* The temporary name that is in use.
Busy(f) ==
  \/ pc \in Fetching /\ f = Target
  \/ pc \in {"archive", "copied"} /\ f = Archive
  \/ pc \in {"extract", "extracted"} /\ f = Cache
  \/ pc \in {"table", "unlink"} /\ f = Table
  \/ pc \in {"source receipt", "source rename"} /\ f = Source(want)

PartEffect ==
  /\ part' \in [Files -> Parts]
  /\ \A f \in Files : part'[f] = part[f] \/ Busy(f)

LEMMA SamePart ==
  ASSUME AssetTypeOK, UNCHANGED part
  PROVE  PartEffect
BY DEF AssetTypeOK, PartEffect

\* The steps that write no asset.
Records ==
  \/ VerifyKit \/ Reuse \/ FindArchive \/ FindCache \/ ChoosePlace \/ FetchExisting
  \/ CheckReceipt \/ CheckTables \/ TableDiffers \/ VerifyFull \/ WriteReceipt
  \/ WriteDraftReceipt \/ TableReceipt \/ FetchBegin \/ Point \/ Stop
  \/ \E r \in Revisions : Prepare(r)

LEMMA RecordsWriteNone ==
  ASSUME Records
  PROVE  UNCHANGED <<path, part>>
BY DEF Records, VerifyKit, Reuse, FindArchive, FindCache, ChoosePlace, FetchExisting,
   CheckReceipt, CheckTables, TableDiffers, VerifyFull, WriteReceipt, WriteDraftReceipt,
   TableReceipt, FetchBegin, Point, Stop, Prepare, disk

LEMMA NextForm ==
  ASSUME Next
  PROVE  \/ Records
         \/ CopyKit \/ CopiedKit
         \/ CopyArchive \/ CopyBlock \/ CopiedArchive
         \/ StageCache \/ ExtractBlock \/ RenameCache
         \/ LinkShard \/ Answered \/ FetchBlock \/ FetchEnd
         \/ TableOpen \/ TableBlock \/ TableLink \/ TableUnlink
         \/ SourceBegin \/ SourceWritten \/ SourceTemp \/ SourceReceipt
BY DEF Next, Step, Records

\* A linked shard is the one of the earlier revision, whole.
LEMMA LinkIsPinned ==
  ASSUME AssetInv, LinkShard
  PROVE  path[Shard("model")] = "pinned" /\ place \in Revisions /\ Writes(Shard(place), "pinned")
<1>1. place \in Revisions /\ Shard("model") \in Files
  BY Named DEF LinkShard, AssetInv, AssetTypeOK, Dirs
<1>2. path[Shard("model")] = "pinned"
  BY <1>1, Named, Apart DEF LinkShard, AssetInv, AssetTypeOK, FileInv
<1> QED
  BY <1>1, <1>2 DEF LinkShard, Writes

LEMMA PathStep ==
  ASSUME AssetInv, Next
  PROVE  PathEffect
<1> USE Named DEF PathEffect, Writes
<1>0. AssetTypeOK /\ want \in Revisions
  BY DEF AssetInv, AssetTypeOK
<1>1. CASE Records
  BY <1>1, RecordsWriteNone
<1>2. CASE CopyKit
  BY <1>2 DEF CopyKit
<1>3. CASE CopiedKit
  BY <1>0, <1>3 DEF CopiedKit
<1>4. CASE CopyArchive \/ CopyBlock
  BY <1>4 DEF CopyArchive, CopyBlock
<1>5. CASE CopiedArchive
  BY <1>5 DEF CopiedArchive, Publish
<1>6. CASE StageCache \/ ExtractBlock
  BY <1>6 DEF StageCache, ExtractBlock
<1>7. CASE RenameCache
  <2>1. part[Cache] = Whole
    <3>1. part[Cache] \in Parts /\ part[Cache].good = TRUE /\ part[Cache].len = Blocks
      BY <1>0, <1>7 DEF RenameCache, AssetInv, WorkInv, AssetTypeOK
    <3> QED
      BY <3>1 DEF Parts, Whole
  <2> QED
    BY <1>7, <2>1 DEF RenameCache, Publish
<1>8. CASE LinkShard
  BY <1>8, LinkIsPinned DEF AssetInv, AssetTypeOK
<1>9. CASE Answered \/ FetchBlock
  BY <1>9 DEF Answered, FetchBlock
<1>10. CASE FetchEnd
  BY <1>0, <1>10, TargetNamed DEF FetchEnd, Publish
<1>11. CASE TableOpen \/ TableBlock \/ TableUnlink
  BY <1>11 DEF TableOpen, TableBlock, TableUnlink
<1>12. CASE TableLink
  BY <1>12 DEF TableLink
<1>13. CASE SourceBegin
  BY <1>13 DEF SourceBegin
<1>14. CASE SourceWritten
  BY <1>0, <1>14 DEF SourceWritten
<1>15. CASE SourceTemp \/ SourceReceipt
  BY <1>15 DEF SourceTemp, SourceReceipt
<1> QED
  BY <1>1, <1>2, <1>3, <1>4, <1>5, <1>6, <1>7, <1>8, <1>9, <1>10, <1>11, <1>12, <1>13, <1>14,
     <1>15, NextForm

LEMMA PartStep ==
  ASSUME AssetInv, Next
  PROVE  PartEffect
<1> USE DEF PartEffect, Busy
<1>0. /\ AssetTypeOK /\ want \in Revisions /\ part \in [Files -> Parts]
      /\ {Archive, Cache, Table, Source(want)} \subseteq Files
      /\ Blocks \in Nat
  BY Named, AssetAssumption DEF AssetInv, AssetTypeOK
<1>1. CASE Records \/ CopyKit \/ CopiedKit \/ LinkShard \/ TableLink \/ SourceBegin \/ SourceWritten
  BY <1>0, <1>1, RecordsWriteNone, SamePart
     DEF CopyKit, CopiedKit, LinkShard, TableLink, SourceBegin, SourceWritten
<1>2. CASE CopyArchive
  BY <1>0, <1>2, PartForms, PartSet DEF CopyArchive
<1>3. CASE CopyBlock
  <2>1. part[Archive].len + 1 \in 0..Blocks
    BY <1>0, <1>3, PartForms DEF CopyBlock
  <2> QED
    BY <1>0, <1>3, <2>1, ArriveTyped DEF CopyBlock
<1>4. CASE CopiedArchive
  BY <1>0, <1>4, PublishForm DEF CopiedArchive
<1>5. CASE StageCache
  BY <1>0, <1>5, PartForms, PartSet DEF StageCache
<1>6. CASE ExtractBlock
  BY <1>0, <1>6, ExtractTyped DEF ExtractBlock
<1>7. CASE RenameCache
  BY <1>0, <1>7, PartForms, PartSet DEF RenameCache, Publish
<1>8. CASE Answered
  BY <1>0, <1>8, TargetNamed, PartForms, PartSet DEF Answered
<1>9. CASE FetchBlock
  <2>1. Target \in Files /\ part[Target].len + 1 \in 0..Blocks
    BY <1>0, <1>9, TargetNamed, PartForms DEF FetchBlock
  <2>2. PICK f \in Files : f = Target
    BY <2>1
  <2>3. Arrive(f, part[f].len + 1)
    BY <1>9, <2>2 DEF FetchBlock, Arrive
  <2>4. PICK len \in 0..Blocks : len = part[f].len + 1
    BY <2>1, <2>2
  <2>5. Arrive(f, len)
    BY <2>3, <2>4 DEF Arrive
  <2> QED
    BY <1>0, <1>9, <2>2, <2>5, ArriveTyped DEF FetchBlock
<1>10. CASE FetchEnd
  <2>1. PICK f \in Files : f = Target
    BY <1>0, <1>10, TargetNamed DEF FetchEnd
  <2> QED
    BY <1>0, <1>10, <2>1, PublishForm DEF FetchEnd, Publish
<1>11. CASE TableOpen
  <2>1. part' = part \/ part' = [part EXCEPT ![Table] = [len |-> 0, good |-> TRUE]]
    BY <1>0, <1>11 DEF TableOpen
  <2> QED
    BY <1>0, <1>11, <2>1, PartForms, PartSet DEF TableOpen
<1>12. CASE TableBlock
  <2>1. part[Table].len + 1 \in 0..Blocks
    BY <1>0, <1>12, PartForms DEF TableBlock
  <2> QED
    BY <1>0, <1>12, <2>1, ArriveTyped DEF TableBlock
<1>13. CASE TableUnlink
  BY <1>0, <1>13, PartForms, PartSet DEF TableUnlink
<1>14. CASE SourceTemp
  BY <1>0, <1>14, PartForms, PartSet DEF SourceTemp
<1>15. CASE SourceReceipt
  BY <1>0, <1>15, PartForms, PartSet DEF SourceReceipt
<1> QED
  BY <1>1, <1>2, <1>3, <1>4, <1>5, <1>6, <1>7, <1>8, <1>9, <1>10, <1>11, <1>12, <1>13, <1>14,
     <1>15, NextForm

-----------------------------------------------------------------------------
(* The types of a next state.                                                *)
RunTypeOK ==
  /\ pc \in Phases /\ io \in {"begin", "request", "write"}
  /\ want \in Revisions /\ place \in Dirs
  /\ faults \in 0..MaxFaults /\ moved \in BOOLEAN

RecordTypeOK ==
  /\ modelDir \in BOOLEAN /\ home \in Revisions \cup {NoRev} /\ linked \subseteq Revisions
  /\ receipt \in [Dirs -> {None, Torn} \cup ({"pinned"} \X (Nat \ {0}))]
  /\ draftOk \in {"missing", "torn", "pinned"}
  /\ tableOk \in {None} \cup ({"pinned"} \X {1, 2}) /\ sourceOk \subseteq Revisions
  /\ pointer \in Revisions \cup {NoRev}

LEMMA AssetParts ==
  /\ AssetTypeOK => RunTypeOK /\ RecordTypeOK
  /\ /\ path \in [Files -> {"none", "partial", "pinned", "other"}]
     /\ part \in [Files -> Parts]
     /\ RunTypeOK /\ RecordTypeOK
     => AssetTypeOK
BY DEF AssetTypeOK, RunTypeOK, RecordTypeOK

LEMMA PathTypes ==
  ASSUME AssetInv, PathEffect
  PROVE  path' \in [Files -> {"none", "partial", "pinned", "other"}]
<1>1. AssetTypeOK /\ want \in Revisions /\ place \in Dirs
  BY DEF AssetInv, AssetTypeOK
<1>2. {Kit(want), Archive, Cache, Shard(place), Table, Source(want)} \subseteq Files
  BY <1>1, Named
<1>3. FetchEnd => Target \in Files
  BY <1>1, TargetNamed DEF FetchEnd
<1> QED
  BY <1>1, <1>2, <1>3, Written DEF PathEffect, AssetTypeOK, Writes

\* A run goes to a phase, or raises.
LEMMA Goes ==
  ASSUME RunTypeOK, NEW p \in Phases
  PROVE  Goto(p) => RunTypeOK'
BY DEF Goto, RunTypeOK

LEMMA Raises ==
  ASSUME RunTypeOK, NEW reason
  PROVE  Raise(reason) => RunTypeOK'
BY DEF Raise, RunTypeOK, Phases

LEMMA RunTypes ==
  ASSUME AssetInv, Next
  PROVE  RunTypeOK'
<1>0. AssetTypeOK /\ RunTypeOK
  BY AssetParts DEF AssetInv
<1>1. CASE \E r \in Revisions : Prepare(r)
  BY <1>0, <1>1 DEF Prepare, RunTypeOK, Phases
<1>2. CASE Stop
  <2>1. faults \in 0..MaxFaults /\ MaxFaults \in Nat /\ faults < MaxFaults /\ faults' = faults + 1
    BY <1>0, <1>2, AssetAssumption DEF Stop, RunTypeOK
  <2>2. faults' \in 0..MaxFaults
    BY <2>1
  <2> QED
    BY <1>0, <1>2, <2>2 DEF Stop, RunTypeOK, Phases
<1>3. CASE CopyKit \/ CopiedKit \/ VerifyKit \/ Reuse
  BY <1>0, <1>3, Goes, Raises DEF CopyKit, CopiedKit, VerifyKit, Reuse, Phases
<1>4. CASE CopyArchive \/ CopiedArchive \/ FindArchive
  BY <1>0, <1>4, Goes, Raises DEF CopyArchive, CopiedArchive, FindArchive, Phases
<1>5. CASE CopyBlock
  <2>1. Archive \in Files /\ part[Archive].len + 1 \in 0..Blocks
    BY <1>0, <1>5, Named, PartForms, AssetAssumption DEF CopyBlock, AssetTypeOK
  <2>2. faults' \in 0..MaxFaults
    BY <1>0, <1>5, <2>1, ArriveTyped DEF CopyBlock
  <2> QED
    BY <1>0, <1>5, <2>2 DEF CopyBlock, RunTypeOK
<1>6. CASE StageCache \/ RenameCache \/ FindCache
  BY <1>0, <1>6, Goes, Raises DEF StageCache, RenameCache, FindCache, Phases
<1>7. CASE ExtractBlock \/ LinkShard
  BY <1>0, <1>7 DEF ExtractBlock, LinkShard, run, RunTypeOK
<1>8. CASE ChoosePlace
  <2>1. place' \in Dirs
    BY <1>0, <1>8, Named DEF ChoosePlace, Place, RunTypeOK
  <2> QED
    BY <1>0, <1>8, <2>1 DEF ChoosePlace, RunTypeOK, Phases, Fetching
<1>9. CASE FetchExisting \/ FetchEnd
  <2>1. AfterFetch \in Phases
    BY <1>0, <1>9, TargetNamed DEF FetchExisting, FetchEnd, Fetching, Phases
  <2>2. PICK p \in Phases : p = AfterFetch
    BY <2>1
  <2> QED
    BY <1>0, <1>9, <2>2, Goes, Raises DEF FetchExisting, FetchEnd, Goto
<1>10. CASE FetchBegin
  BY <1>0, <1>10 DEF FetchBegin, RunTypeOK
<1>11. CASE Answered
  BY <1>0, <1>11, Raises DEF Answered, RunTypeOK
<1>12. CASE FetchBlock \/ TableBlock
  <2>1. PICK f \in Files : /\ f = IF FetchBlock THEN Target ELSE Table
                           /\ part[f].len < Blocks
                           /\ Arrive(f, part[f].len + 1)
    BY <1>0, <1>12, Named, TargetNamed DEF FetchBlock, TableBlock, Arrive
  <2>2. part[f].len + 1 \in 0..Blocks
    BY <1>0, <2>1, PartForms, AssetAssumption DEF AssetTypeOK
  <2>3. faults' \in 0..MaxFaults
    BY <1>0, <2>1, <2>2, ArriveTyped
  <2> QED
    BY <1>0, <1>12, <2>3 DEF FetchBlock, TableBlock, RunTypeOK
<1>13. CASE CheckReceipt \/ VerifyFull \/ WriteReceipt \/ WriteDraftReceipt
  BY <1>0, <1>13, Goes, Raises DEF CheckReceipt, VerifyFull, WriteReceipt, WriteDraftReceipt, Phases
<1>14. CASE CheckTables \/ TableDiffers \/ TableLink \/ TableUnlink \/ TableReceipt
  <2>1. {"packed", "source", "unlink", "engram receipt"} \subseteq Phases
    BY DEF Phases, Fetching
  <2> QED
    BY <1>0, <1>14, <2>1, Goes, Raises DEF CheckTables, TableDiffers, TableLink, TableUnlink,
       TableReceipt
<1>15. CASE TableOpen
  BY <1>0, <1>15, Goes, Raises DEF TableOpen, RunTypeOK, Phases
<1>16. CASE SourceBegin \/ SourceWritten \/ SourceTemp \/ SourceReceipt
  BY <1>0, <1>16, Goes, Raises DEF SourceBegin, SourceWritten, SourceTemp, SourceReceipt, Phases
<1>17. CASE Point
  BY <1>0, <1>17 DEF Point, RunTypeOK, Phases
<1> QED
  BY <1>1, <1>2, <1>3, <1>4, <1>5, <1>6, <1>7, <1>8, <1>9, <1>10, <1>11, <1>12, <1>13, <1>14,
     <1>15, <1>16, <1>17 DEF Next, Step

\* Which step changes which record.
LEMMA RecordEffect ==
  ASSUME Next
  PROVE  /\ modelDir' = modelDir \/ (FetchBegin /\ modelDir' = (modelDir \/ Target = Manifest("model")))
         /\ home' = home \/ (FetchEnd /\ part[Target] = Whole /\ Target = Manifest("model") /\ home' = want)
         /\ linked' = linked \/ (LinkShard /\ linked' = linked \cup {place})
         /\ receipt' = receipt \/ VerifyFull \/ WriteReceipt
         /\ draftOk' = draftOk \/ WriteDraftReceipt
         /\ tableOk' = tableOk \/ TableReceipt
         /\ sourceOk' = sourceOk \/ SourceReceipt
         /\ pointer' = pointer \/ Point
<1>1. CASE Records
  BY <1>1 DEF Records, VerifyKit, Reuse, FindArchive, FindCache, ChoosePlace, FetchExisting,
     CheckReceipt, CheckTables, TableDiffers, VerifyFull, WriteReceipt, WriteDraftReceipt,
     TableReceipt, FetchBegin, Point, Stop, Prepare, disk, places, records
<1>2. CASE \/ CopyKit \/ CopiedKit \/ CopyArchive \/ CopyBlock \/ CopiedArchive
           \/ StageCache \/ ExtractBlock \/ RenameCache
  BY <1>2 DEF CopyKit, CopiedKit, CopyArchive, CopyBlock, CopiedArchive, StageCache,
     ExtractBlock, RenameCache, places, records
<1>3. CASE LinkShard \/ Answered \/ FetchBlock \/ FetchEnd
  BY <1>3 DEF LinkShard, Answered, FetchBlock, FetchEnd, places, records
<1>4. CASE \/ TableOpen \/ TableBlock \/ TableLink \/ TableUnlink
           \/ SourceBegin \/ SourceWritten \/ SourceTemp \/ SourceReceipt
  BY <1>4 DEF TableOpen, TableBlock, TableLink, TableUnlink, SourceBegin, SourceWritten,
     SourceTemp, SourceReceipt, places, records
<1> QED
  BY <1>1, <1>2, <1>3, <1>4, NextForm

LEMMA LinkCount ==
  ASSUME RecordTypeOK, IsFiniteSet(linked), NEW d \in Dirs
  PROVE  Links(d) \in Nat \ {0}
<1>1. Cardinality(linked) \in Nat
  BY FS_CardinalityType
<1> QED
  BY <1>1 DEF Links

LEMMA RecordTypes ==
  ASSUME AssetInv, Next
  PROVE  RecordTypeOK'
<1>0. AssetTypeOK /\ RecordTypeOK /\ RunTypeOK /\ FileInv /\ DoneInv /\ TableInv /\ WorkInv
  BY AssetParts DEF AssetInv
<1>1. modelDir' \in BOOLEAN /\ home' \in Revisions \cup {NoRev} /\ linked' \subseteq Revisions
  <2>1. LinkShard => place \in Revisions
    BY LinkIsPinned
  <2>2. modelDir' \in BOOLEAN
    BY <1>0, RecordEffect DEF RecordTypeOK
  <2>3. home' \in Revisions \cup {NoRev}
    BY <1>0, RecordEffect DEF RecordTypeOK, RunTypeOK
  <2>4. linked' \subseteq Revisions
    BY <1>0, <2>1, RecordEffect DEF RecordTypeOK
  <2> QED
    BY <2>2, <2>3, <2>4
<1>2. receipt' \in [Dirs -> {None, Torn} \cup ({"pinned"} \X (Nat \ {0}))]
  <2>1. CASE WriteReceipt
    <3>1. path[Shard(place)] = "pinned" /\ place \in Dirs
      BY <1>0, <2>1 DEF WriteReceipt, DoneInv, RunTypeOK, ShardDone, ManifestDone, Placed,
         CacheDone, ArchiveDone, KitDone, Phases
    <3>2. Stamp(place) \in {"pinned"} \X (Nat \ {0})
      BY <1>0, <3>1, LinkCount DEF Stamp, FileInv
    <3> QED
      BY <1>0, <2>1, <3>2 DEF WriteReceipt, RecordTypeOK
  <2>2. CASE VerifyFull
    BY <1>0, <2>2 DEF VerifyFull, RecordTypeOK
  <2> QED
    BY <1>0, <2>1, <2>2, RecordEffect DEF RecordTypeOK
<1>3. draftOk' \in {"missing", "torn", "pinned"}
  <2>1. CASE WriteDraftReceipt
    BY <1>0, <2>1 DEF WriteDraftReceipt, DoneInv, DraftDone, ShardDone, ManifestDone, Placed,
       CacheDone, ArchiveDone, KitDone, Phases
  <2> QED
    BY <1>0, <2>1, RecordEffect DEF RecordTypeOK
<1>4. tableOk' \in {None} \cup ({"pinned"} \X {1, 2})
  <2>1. CASE TableReceipt
    BY <1>0, <2>1 DEF TableReceipt, TableStamp, TableInv
  <2> QED
    BY <1>0, <2>1, RecordEffect DEF RecordTypeOK
<1>5. sourceOk' \subseteq Revisions
  BY <1>0, RecordEffect DEF RecordTypeOK, RunTypeOK, SourceReceipt
<1>6. pointer' \in Revisions \cup {NoRev}
  BY <1>0, RecordEffect DEF RecordTypeOK, RunTypeOK, Point
<1> QED
  BY <1>1, <1>2, <1>3, <1>4, <1>5, <1>6 DEF RecordTypeOK

LEMMA AssetTypes ==
  ASSUME AssetInv, Next
  PROVE  AssetTypeOK'
<1>1. /\ path' \in [Files -> {"none", "partial", "pinned", "other"}]
      /\ part' \in [Files -> Parts]
      /\ RunTypeOK' /\ RecordTypeOK'
  BY PathStep, PathTypes, PartStep, RunTypes, RecordTypes DEF PartEffect
<1> QED
  BY <1>1 DEF AssetTypeOK, RunTypeOK, RecordTypeOK

-----------------------------------------------------------------------------
(* What is published stays: only a stand-in without a receipt is rewritten.  *)
LEMMA Stays ==
  ASSUME AssetInv, Next
  PROVE  /\ \A f \in Files : path[f] = "pinned" =>
              path'[f] = "pinned" \/ (f = Source(want) /\ want \notin sourceOk)
         /\ sourceOk \subseteq sourceOk'
         /\ home # NoRev => home' = home
         /\ modelDir => modelDir'
<1>0. AssetTypeOK /\ want \in Revisions /\ place \in Dirs /\ FileInv /\ WorkInv
  BY DEF AssetInv, AssetTypeOK
<1>1. ASSUME NEW f \in Files, path[f] = "pinned"
      PROVE  path'[f] = "pinned" \/ (f = Source(want) /\ want \notin sourceOk)
  <2>1. {Kit(want), Archive, Cache, Shard(place), Table, Source(want)} \subseteq Files
    BY <1>0, Named
  <2>2. FetchEnd => Target \in Files
    BY <1>0, TargetNamed DEF FetchEnd
  <2> QED
    BY <1>0, <1>1, <2>1, <2>2, PathStep DEF PathEffect, Writes, AssetTypeOK
<1>2. sourceOk \subseteq sourceOk'
  BY RecordEffect DEF SourceReceipt
<1>3. home # NoRev => home' = home
  <2>1. FetchEnd => path[Target] = "none"
    BY <1>0 DEF FetchEnd, WorkInv
  <2> QED
    BY <1>0, <2>1, RecordEffect DEF FileInv
<1>4. modelDir => modelDir'
  BY RecordEffect
<1> QED
  BY <1>1, <1>2, <1>3, <1>4

LEMMA NamesStay ==
  ASSUME AssetInv, Next
  PROVE  /\ \A f \in {Archive, Cache, Draft, Packed, Table} : path[f] = "pinned" => path'[f] = "pinned"
         /\ \A r \in Revisions : path[Kit(r)] = "pinned" => path'[Kit(r)] = "pinned"
         /\ \A d \in Dirs : path[Manifest(d)] = "pinned" => path'[Manifest(d)] = "pinned"
         /\ \A d \in Dirs : path[Shard(d)] = "pinned" => path'[Shard(d)] = "pinned"
         /\ \A r \in sourceOk : path[Source(r)] = "pinned" => path'[Source(r)] = "pinned"
<1>0. want \in Revisions /\ sourceOk \subseteq Revisions
  BY DEF AssetInv, AssetTypeOK
<1>1. \A f \in Files : path[f] = "pinned" =>
        path'[f] = "pinned" \/ (f = Source(want) /\ want \notin sourceOk)
  BY Stays
<1> QED
  BY <1>0, <1>1, Named, Apart

\* The part of a table stays as it is once its receipt is written, and so do
\* the parts of a model that has its receipt.
LEMMA PartsStay ==
  ASSUME AssetInv, Next
  PROVE  /\ tableOk # None => part'[Table] = part[Table]
         /\ pc \in ReceiptDone \cup {"receipt", "stamp"} =>
              \A f \in {Manifest(place), Shard(place)} : part'[f] = part[f]
<1>0. /\ want \in Revisions /\ place \in Dirs /\ AssetTypeOK /\ TableInv
      /\ \A f \in Files : part'[f] = part[f] \/ Busy(f)
  BY PartStep DEF AssetInv, AssetTypeOK, PartEffect
<1>1. tableOk # None => ~Busy(Table)
  BY <1>0, Named, Apart, TargetNamed DEF Busy, TableInv, Tabling
<1>2. ASSUME pc \in ReceiptDone \cup {"receipt", "stamp"}, NEW f \in {Manifest(place), Shard(place)}
      PROVE  ~Busy(f)
  <2>1. pc \notin {"archive", "copied", "extract", "extracted", "manifest", "shard", "draft"}
    BY <1>2 DEF ReceiptDone, DraftDone, ShardDone, ManifestDone, Placed, CacheDone, ArchiveDone,
       KitDone
  <2>2. f \notin {Packed, Table, Source(want)}
    BY <1>0, Apart
  <2>3. pc \in Fetching => Target = Packed
    BY <1>0, <2>1, TargetNamed DEF Fetching
  <2> QED
    BY <2>1, <2>2, <2>3 DEF Busy
<1> QED
  BY <1>0, <1>1, <1>2, Named

LEMMA ReceiptStays ==
  ASSUME AssetInv, Next, pc \in ReceiptDone, place' = place
  PROVE  ReceiptHolds(place)'
<1>0. /\ ReceiptHolds(place) /\ place \in Dirs
      /\ path[Shard(place)] = "pinned" /\ path[Manifest(place)] = "pinned"
  BY DEF AssetInv, DoneInv, AssetTypeOK, ReceiptDone, DraftDone, ShardDone
<1>1. path'[Shard(place)] = "pinned" /\ path'[Manifest(place)] = "pinned"
  BY <1>0, NamesStay
<1>2. part'[Shard(place)] = NoPart /\ part'[Manifest(place)] = NoPart
  BY <1>0, PartsStay DEF ReceiptHolds, Inventory
<1>3. pc \notin {"shard", "receipt", "stamp"}
  BY DEF ReceiptDone, DraftDone, ShardDone, ManifestDone
<1>4. linked' = linked /\ receipt' = receipt
  BY <1>3, RecordEffect DEF LinkShard, VerifyFull, WriteReceipt
<1> QED
  BY <1>0, <1>1, <1>2, <1>4 DEF ReceiptHolds, Inventory, Stamp, Links

LEMMA FileStep ==
  ASSUME AssetInv, Next
  PROVE  FileInv'
<1>0. /\ AssetTypeOK /\ want \in Revisions /\ place \in Dirs /\ FileInv /\ WorkInv
      /\ path \in [Files -> {"none", "partial", "pinned", "other"}] /\ TableInv
  BY DEF AssetInv, AssetTypeOK
<1>1. {Kit(want), Archive, Cache, Shard(place), Table, Source(want)} \subseteq Files
  BY <1>0, Named
<1>2. FetchEnd => Target \in Files
  BY <1>0, TargetNamed DEF FetchEnd
<1>3. ASSUME NEW f \in Files
      PROVE  /\ path'[f] # "other"
             /\ path'[f] = "partial" => \E r \in Revisions : f \in {Kit(r), Source(r)}
  BY <1>0, <1>1, <1>2, PathStep DEF PathEffect, Writes, FileInv
<1>4. IsFiniteSet(linked')
  <2>1. IsFiniteSet(linked \cup {place})
    BY <1>0, FS_AddElement DEF FileInv
  <2> QED
    BY <1>0, <2>1, RecordEffect DEF FileInv
<1>5. home' # NoRev <=> path'[Manifest("model")] = "pinned"
  <2>0. Manifest("model") \in Files /\ "model" \in Dirs /\ NoRev # want
    BY <1>0, Named, AssetAssumption
  <2>1. CASE home # NoRev
    BY <1>0, <2>0, <2>1, Stays, NamesStay DEF FileInv
  <2>2. CASE home = NoRev
    <3>1. path[Manifest("model")] # "pinned"
      BY <1>0, <2>2 DEF FileInv
    <3>2. CASE FetchEnd /\ part[Target] = Whole /\ Target = Manifest("model")
      BY <1>0, <2>0, <3>2 DEF FetchEnd, Publish
    <3>3. CASE ~(FetchEnd /\ part[Target] = Whole /\ Target = Manifest("model"))
      <4>1. home' = NoRev
        BY <2>2, <3>3, RecordEffect
      <4>2. Manifest("model") \notin {Kit(want), Archive, Cache, Shard(place), Table, Source(want)}
        BY <1>0, <2>0, Apart
      <4>3. path'[Manifest("model")] # "pinned"
        BY <1>0, <1>1, <1>2, <2>0, <3>1, <3>3, <4>2, PathStep DEF PathEffect, Writes
      <4> QED
        BY <4>1, <4>3
    <3> QED
      BY <3>2, <3>3
  <2> QED
    BY <2>1, <2>2
<1>6. home' # NoRev => modelDir'
  <2>1. CASE home # NoRev
    BY <1>0, <2>1, Stays DEF FileInv
  <2>2. CASE FetchEnd /\ Target = Manifest("model")
    <3>1. pc = "manifest"
      BY <1>0, <2>2, TargetNamed, Named, Apart DEF FetchEnd, Fetching
    <3> QED
      BY <1>0, <2>2, <3>1, Stays DEF FetchEnd, WorkInv
  <2> QED
    BY <2>1, <2>2, RecordEffect
<1>7. tableOk' # None =>
        path'[Packed] = "pinned" /\ path'[Table] = "pinned" /\ tableOk' = TableStamp'
  <2>1. CASE TableReceipt
    BY <1>0, <2>1 DEF TableReceipt, TableInv, Tabling, TableStamp
  <2>2. CASE tableOk' = tableOk
    BY <1>0, <2>2, NamesStay, PartsStay DEF FileInv, TableStamp
  <2> QED
    BY <2>1, <2>2, RecordEffect
<1>8. \A r \in sourceOk' : path'[Source(r)] = "pinned"
  <2>1. CASE SourceReceipt
    BY <1>0, <2>1 DEF SourceReceipt, TableInv, FileInv
  <2>2. CASE sourceOk' = sourceOk
    BY <1>0, <2>2, NamesStay DEF FileInv
  <2> QED
    BY <2>1, <2>2, RecordEffect
<1> QED
  BY <1>3, <1>4, <1>5, <1>6, <1>7, <1>8 DEF FileInv

-----------------------------------------------------------------------------
(* How a run moves.  An end, and the begin of one, have nothing behind them. *)
Ends == pc' = "idle" /\ io' = "begin" /\ UNCHANGED <<want, place>>
To(p) == pc' = p /\ UNCHANGED <<want, place>>

LEMMA Runs ==
  /\ \A p \in Phases : Goto(p) => To(p) /\ io' = "begin" /\ moved' = moved
  /\ \A reason : Raise(reason) => Ends /\ moved' = moved
BY DEF Goto, Raise, To, Ends

\* The steps from one phase to another, and what each has found or done.
MovesOn ==
  \/ Ends
  \/ pc' = "kit" /\ io' = "begin"
  \/ To("frozen")
  \/ To("reuse") /\ path[Kit(want)] = "pinned"
  \/ pc = "reuse" /\ To("archive")
  \/ pc = "archive" /\ To("copied")
  \/ pc \in {"archive", "copied"} /\ To("extract") /\ path'[Archive] = "pinned"
  \/ pc = "extract" /\ To("extracted")
  \/ pc \in {"extract", "extracted"} /\ To("choose") /\ path'[Cache] = "pinned"
  \/ pc = "choose" /\ pc' = "manifest" /\ place' = Place(want) /\ UNCHANGED <<want, home, modelDir>>
  \/ pc = "manifest" /\ To("shard") /\ path'[Manifest(place)] = "pinned"
  \/ pc = "shard" /\ To("draft") /\ path'[Shard(place)] = "pinned"
  \/ pc = "draft" /\ To("receipt") /\ path'[Draft] = "pinned"
  \/ pc = "receipt" /\ To("stamp") /\ Inventory(place)'
  \/ pc \in {"receipt", "stamp"} /\ To("draft receipt") /\ ReceiptHolds(place)'
  \/ pc = "draft receipt" /\ To("draft stamp")
  \/ pc = "draft stamp" /\ To("engram") /\ draftOk' = "pinned"
  \/ pc = "engram" /\ To("packed") /\ tableOk' = None
  \/ pc = "engram" /\ To("source") /\ tableOk' # None
  \/ pc = "packed" /\ To("table") /\ path'[Packed] = "pinned"
  \/ pc = "table" /\ To("unlink") /\ path'[Table] = "pinned"
  \/ pc \in {"table", "unlink"} /\ To("engram receipt") /\ path'[Table] = "pinned"
  \/ pc = "engram receipt" /\ To("source") /\ tableOk' # None
  \/ pc = "source" /\ To("point") /\ want \in sourceOk'
  \/ pc = "source" /\ To("header") /\ want \notin sourceOk'
  \/ pc = "header" /\ To("source receipt") /\ path'[Source(want)] = "pinned"
  \/ pc = "source receipt" /\ To("source rename")
  \/ pc = "source rename" /\ To("point") /\ want \in sourceOk'
  \/ To(pc)

LEMMA MovesStep ==
  ASSUME AssetInv, Next
  PROVE  MovesOn
<1>0. /\ AssetTypeOK /\ want \in Revisions /\ place \in Dirs
      /\ path \in [Files -> {"none", "partial", "pinned", "other"}]
      /\ FileInv /\ DoneInv /\ WorkInv /\ TableInv
  BY DEF AssetInv, AssetTypeOK
<1>1. /\ \A f \in {Archive, Cache, Draft, Packed, Table, Shard(place), Manifest(place)} :
           f \in Files
      /\ Kit(want) \in Files /\ Source(want) \in Files
  BY <1>0, Named
<1>2. CASE \E r \in Revisions : Prepare(r)
  BY <1>2 DEF MovesOn, Prepare
<1>3. CASE Stop
  BY <1>3 DEF MovesOn, Stop, Ends
<1>4. CASE CopyKit \/ CopiedKit \/ VerifyKit \/ Reuse
  BY <1>0, <1>4, Runs DEF CopyKit, CopiedKit, VerifyKit, Reuse, MovesOn, Goto, Raise, To, Ends
<1>5. CASE CopyArchive \/ FindArchive
  BY <1>0, <1>5 DEF CopyArchive, FindArchive, disk, MovesOn, Goto, Raise, To, Ends
<1>6. CASE CopiedArchive
  BY <1>0, <1>1, <1>6 DEF CopiedArchive, Publish, MovesOn, Goto, Raise, To, Ends
<1>7. CASE CopyBlock \/ ExtractBlock \/ LinkShard \/ Answered \/ FetchBlock \/ FetchBegin \/ TableBlock
  BY <1>7 DEF CopyBlock, ExtractBlock, LinkShard, Answered, FetchBlock, FetchBegin, TableBlock,
     MovesOn, Raise, run, To, Ends
<1>8. CASE StageCache
  BY <1>8 DEF StageCache, MovesOn, Goto, To
<1>9. CASE RenameCache
  <2>1. path'[Cache] = "pinned"
    <3>1. part[Cache] \in Parts /\ part[Cache].good = TRUE /\ part[Cache].len = Blocks
      BY <1>0, <1>1, <1>9 DEF RenameCache, WorkInv, AssetTypeOK
    <3>2. part[Cache] = Whole
      BY <3>1 DEF Parts, Whole
    <3> QED
      BY <1>0, <1>1, <1>9, <3>2 DEF RenameCache, Publish
  <2> QED
    BY <1>9, <2>1 DEF RenameCache, MovesOn, Goto, To
<1>10. CASE FindCache
  <2>1. path[Cache] # "none" => path[Cache] = "pinned"
    BY <1>0, <1>1, Apart DEF FileInv
  <2> QED
    BY <1>10, <2>1 DEF FindCache, disk, MovesOn, Goto, Raise, To, Ends
<1>11. CASE ChoosePlace
  BY <1>11 DEF ChoosePlace, disk, places, MovesOn
<1>12. CASE FetchExisting \/ FetchEnd
  <2>1. CASE Ends
    BY <2>1 DEF MovesOn
  <2>2. CASE ~Ends
    <3>1. pc \in Fetching /\ Goto(AfterFetch) /\ path'[Target] = "pinned"
      <4>1. pc \in Fetching /\ Goto(AfterFetch)
        BY <1>12, <2>2 DEF FetchExisting, FetchEnd, Raise, Ends
      <4>2. Target \in Files
        BY <1>0, <4>1, TargetNamed
      <4> QED
        BY <1>0, <1>12, <2>2, <4>1, <4>2 DEF FetchExisting, FetchEnd, Publish, Raise, Ends, disk
    <3>2. CASE pc = "manifest"
      BY <1>0, <3>1, <3>2, TargetNamed DEF Goto, To, MovesOn
    <3>3. CASE pc = "shard"
      BY <1>0, <3>1, <3>3, TargetNamed DEF Goto, To, MovesOn
    <3>4. CASE pc = "draft"
      BY <1>0, <3>1, <3>4, TargetNamed DEF Goto, To, MovesOn
    <3>5. CASE pc = "packed"
      BY <1>0, <3>1, <3>5, TargetNamed DEF Goto, To, MovesOn
    <3> QED
      BY <3>1, <3>2, <3>3, <3>4, <3>5 DEF Fetching
  <2> QED
    BY <2>1, <2>2
<1>13. CASE CheckReceipt
  <2>1. Raise("torn receipt") \/ Raise("receipt refused") \/ (ReceiptHolds(place) /\ Goto("draft receipt"))
    BY <1>13 DEF CheckReceipt
  <2>2. ReceiptHolds(place) /\ place' = place => ReceiptHolds(place)'
    BY <1>13 DEF CheckReceipt, disk, places, records, ReceiptHolds, Inventory, Stamp, Links
  <2> QED
    BY <1>13, <2>1, <2>2 DEF CheckReceipt, MovesOn, Goto, Raise, To, Ends
<1>14. CASE VerifyFull
  <2>1. Inventory(place) /\ place' = place => Inventory(place)'
    BY <1>14 DEF VerifyFull, Inventory
  <2> QED
    BY <1>14, <2>1 DEF VerifyFull, MovesOn, Goto, Raise, To, Ends
<1>15. CASE WriteReceipt
  <2>1. Inventory(place) /\ receipt'[place] = Stamp(place) /\ place' = place
    BY <1>0, <1>15 DEF WriteReceipt, DoneInv, AssetTypeOK, Goto
  <2>2. ReceiptHolds(place)'
    BY <1>15, <2>1 DEF WriteReceipt, places, ReceiptHolds, Inventory, Stamp, Links
  <2> QED
    BY <1>15, <2>2 DEF WriteReceipt, MovesOn, Goto, To
<1>16. CASE WriteDraftReceipt
  <2>1. path[Draft] = "pinned"
    BY <1>0, <1>16 DEF WriteDraftReceipt, DoneInv, DraftDone, ShardDone, ManifestDone, Placed,
       CacheDone, ArchiveDone, KitDone, Phases
  <2> QED
    BY <1>16, <2>1 DEF WriteDraftReceipt, MovesOn, Goto, To
<1>17. CASE CheckTables \/ TableDiffers
  BY <1>17 DEF CheckTables, TableDiffers, disk, records, MovesOn, Goto, Raise, To, Ends
<1>18. CASE TableOpen \/ TableLink \/ TableUnlink
  BY <1>0, <1>1, <1>18 DEF TableOpen, TableLink, TableUnlink, TableInv, MovesOn, Goto, Raise, To,
     Ends
<1>19. CASE TableReceipt
  <2>1. tableOk' # None
    BY <1>0, <1>19 DEF TableReceipt, TableInv, TableStamp, None
  <2> QED
    BY <1>19, <2>1 DEF TableReceipt, MovesOn, Goto, To
<1>20. CASE SourceBegin
  BY <1>20 DEF SourceBegin, records, MovesOn, Goto, To
<1>21. CASE SourceWritten
  BY <1>0, <1>1, <1>21 DEF SourceWritten, MovesOn, Goto, To
<1>22. CASE SourceTemp \/ SourceReceipt
  BY <1>22 DEF SourceTemp, SourceReceipt, MovesOn, Goto, Raise, To, Ends
<1>23. CASE Point
  BY <1>23 DEF Point, MovesOn, Ends
<1> QED
  BY <1>2, <1>3, <1>4, <1>5, <1>6, <1>7, <1>8, <1>9, <1>10, <1>11, <1>12, <1>13, <1>14, <1>15,
     <1>16, <1>17, <1>18, <1>19, <1>20, <1>21, <1>22, <1>23 DEF Next, Step

LEMMA DoneStep ==
  ASSUME AssetInv, Next
  PROVE  DoneInv'
<1>0. /\ AssetTypeOK /\ want \in Revisions /\ place \in Dirs /\ pc \in Phases /\ DoneInv
      /\ MovesOn
  BY MovesStep DEF AssetInv, AssetTypeOK
<1> USE <1>0, NamesStay
<1>1. pc' \in KitDone => path'[Kit(want')] = "pinned"
  BY DEF MovesOn, To, Ends, DoneInv, KitDone
<1>2. pc' \in ArchiveDone => path'[Archive] = "pinned"
  BY DEF MovesOn, To, Ends, DoneInv, ArchiveDone, KitDone
<1>3. pc' \in CacheDone => path'[Cache] = "pinned"
  BY DEF MovesOn, To, Ends, DoneInv, CacheDone, ArchiveDone, KitDone
<1>4. pc' \in ManifestDone => path'[Manifest(place')] = "pinned"
  BY DEF MovesOn, To, Ends, DoneInv, ManifestDone, Placed, CacheDone, ArchiveDone, KitDone
<1>5. pc' \in ShardDone => path'[Shard(place')] = "pinned"
  BY DEF MovesOn, To, Ends, DoneInv, ShardDone, ManifestDone, Placed, CacheDone, ArchiveDone,
     KitDone
<1>6. pc' \in DraftDone => path'[Draft] = "pinned"
  BY DEF MovesOn, To, Ends, DoneInv, DraftDone, ShardDone, ManifestDone, Placed, CacheDone,
     ArchiveDone, KitDone
<1>7. pc' = "stamp" => Inventory(place)'
  <2>1. CASE pc = "stamp" /\ To("stamp")
    <3>1. path[Shard(place)] = "pinned" /\ path[Manifest(place)] = "pinned" /\ Inventory(place)
      BY <2>1 DEF DoneInv, ShardDone, ManifestDone, Placed, CacheDone, ArchiveDone, KitDone, Phases
    <3>2. /\ part'[Shard(place)] = part[Shard(place)] /\ part'[Manifest(place)] = part[Manifest(place)]
      BY <2>1, PartsStay
    <3> QED
      BY <2>1, <3>1, <3>2 DEF Inventory, To
  <2>2. CASE pc = "receipt" /\ Inventory(place)'
    BY <2>2
  <2> QED
    BY <2>1, <2>2 DEF MovesOn, To, Ends
<1>8. pc' \in ReceiptDone => ReceiptHolds(place)'
  <2>1. CASE pc \in ReceiptDone /\ place' = place
    BY <2>1, ReceiptStays
  <2>2. CASE ReceiptHolds(place)'
    BY <2>2
  <2> QED
    BY <2>1, <2>2 DEF MovesOn, To, Ends, ReceiptDone, DraftDone, ShardDone, ManifestDone, Placed,
       CacheDone, ArchiveDone, KitDone
<1>9. pc' \in DraftReceiptDone => draftOk' = "pinned"
  <2>1. CASE pc \in DraftReceiptDone
    <3>1. draftOk' = draftOk
      BY <2>1, RecordEffect DEF WriteDraftReceipt, DraftReceiptDone
    <3> QED
      BY <2>1, <3>1 DEF DoneInv
  <2>2. CASE pc = "draft stamp" /\ draftOk' = "pinned"
    BY <2>2
  <2> QED
    BY <2>1, <2>2 DEF MovesOn, To, Ends, DraftReceiptDone, ReceiptDone, DraftDone, ShardDone,
       ManifestDone, Placed, CacheDone, ArchiveDone, KitDone
<1> QED
  BY <1>1, <1>2, <1>3, <1>4, <1>5, <1>6, <1>7, <1>8, <1>9 DEF DoneInv

LEMMA PlaceStep ==
  ASSUME AssetInv, Next
  PROVE  PlaceInv'
<1>0. /\ AssetTypeOK /\ want \in Revisions /\ place \in Dirs /\ pc \in Phases
      /\ DoneInv /\ FileInv /\ PlaceInv /\ MovesOn /\ want # "model" /\ want # NoRev
      /\ pc' \in Phases
  BY MovesStep, AssetTypes, Apart, AssetAssumption DEF AssetInv, AssetTypeOK
<1>1. \/ home' = home
      \/ FetchEnd /\ part[Target] = Whole /\ Target = Manifest("model") /\ home' = want
  BY RecordEffect
<1>2. /\ home # NoRev => home' = home
      /\ modelDir => modelDir'
  BY Stays
\* The revision that root/model is fetched for is the one that chose it.
<1>3. home' # home => pc = "manifest" /\ place = "model" /\ home' = want
  <2> SUFFICES ASSUME FetchEnd, Target = Manifest("model"), home' = want
               PROVE  pc = "manifest" /\ place = "model"
    BY <1>1
  <2>1. pc = "manifest"
    BY <1>0, TargetNamed, Named, Apart DEF FetchEnd, Fetching
  <2>2. Manifest(place) = Manifest("model") /\ place \in Dirs /\ "model" \in Dirs
    BY <1>0, <2>1, TargetNamed, Named DEF Fetching
  <2> QED
    BY <2>1, <2>2, Apart
<1>4. CASE pc = "choose" /\ pc' = "manifest" /\ place' = Place(want) /\ UNCHANGED <<want, home, modelDir>>
  BY <1>0, <1>4 DEF PlaceInv, Place, FileInv
<1>5. CASE /\ UNCHANGED <<want, place>> /\ pc \in Placed /\ pc' \in Placed
           /\ (pc' = "manifest" => pc = "manifest")
  <2>1. /\ place \in {"model", want}
        /\ place = want => modelDir /\ home # want
        /\ place = "model" => home = want \/ (pc = "manifest" /\ home = NoRev)
    BY <1>0, <1>5 DEF PlaceInv
  <2>2. place = want => modelDir' /\ home' # want
    BY <1>0, <1>2, <1>3, <2>1
  <2>3. place = "model" => home' = want \/ (pc' = "manifest" /\ home' = NoRev)
    <3>1. CASE home = want
      BY <1>0, <1>2, <3>1
    <3>2. CASE place = "model" /\ pc = "manifest" /\ home = NoRev /\ home' = NoRev /\ pc' # "manifest"
      <4>1. path'[Manifest("model")] = "pinned"
        BY <1>0, <1>5, <3>2 DEF MovesOn, To, Ends, Placed, CacheDone, ArchiveDone, KitDone
      <4> QED
        BY <3>2, <4>1, FileStep DEF FileInv
    <3> QED
      BY <1>0, <1>1, <1>3, <2>1, <3>1, <3>2
  <2> QED
    BY <1>5, <2>1, <2>2, <2>3 DEF PlaceInv
<1>6. CASE pc' \notin Placed
  BY <1>6 DEF PlaceInv
<1> QED
  BY <1>0, <1>4, <1>5, <1>6 DEF MovesOn, To, Ends, Placed, CacheDone, ArchiveDone, KitDone

LEMMA TableStep ==
  ASSUME AssetInv, Next
  PROVE  TableInv'
<1>0. /\ AssetTypeOK /\ want \in Revisions /\ pc \in Phases /\ TableInv /\ DoneInv /\ MovesOn
  BY MovesStep DEF AssetInv, AssetTypeOK
<1> USE <1>0, NamesStay
<1>1. pc' \in Tabling => tableOk' = None
  <2>1. pc \in Tabling \ {"engram receipt"} => tableOk' = tableOk
    BY RecordEffect DEF TableReceipt, Tabling
  <2>2. pc = "engram receipt" /\ pc' = "engram receipt" => tableOk' = tableOk
    BY RecordEffect DEF TableReceipt, Goto
  <2>3. pc' \in Tabling =>
          \/ pc' = "packed" /\ tableOk' = None
          \/ pc \in Tabling \ {"engram receipt"}
          \/ pc = "engram receipt" /\ pc' = "engram receipt"
    BY DEF MovesOn, To, Ends, Tabling
  <2>4. pc \in Tabling => tableOk = None
    BY DEF TableInv
  <2>5. pc = "engram receipt" => pc \in Tabling
    BY DEF Tabling
  <2> QED
    BY <2>1, <2>2, <2>3, <2>4, <2>5, Zenon
<1>2. pc' \in Tabling \ {"packed"} => path'[Packed] = "pinned"
  BY DEF MovesOn, To, Ends, TableInv, Tabling
<1>3. pc' \in {"unlink", "engram receipt"} => path'[Table] = "pinned"
  BY DEF MovesOn, To, Ends, TableInv
<1>4. pc' \in TableDone => tableOk' # None
  <2>1. pc \in TableDone => tableOk' = tableOk
    BY RecordEffect DEF TableReceipt, TableDone
  <2> QED
    BY <2>1 DEF MovesOn, To, Ends, TableInv, TableDone
<1>5. pc' \in {"header", "source receipt", "source rename"} => want' \notin sourceOk'
  <2>1. pc \in {"header", "source receipt"} => sourceOk' = sourceOk
    BY RecordEffect DEF SourceReceipt
  <2>2. pc = "source rename" /\ pc' = "source rename" => sourceOk' = sourceOk
    BY RecordEffect DEF SourceReceipt, Goto
  <2>3. pc' \in {"header", "source receipt", "source rename"} =>
          /\ want' = want
          /\ \/ want \notin sourceOk'
             \/ pc \in {"header", "source receipt"}
             \/ pc = "source rename" /\ pc' = "source rename"
    BY DEF MovesOn, To, Ends
  <2>4. pc \in {"header", "source receipt", "source rename"} => want \notin sourceOk
    BY DEF TableInv
  <2> QED
    BY <2>1, <2>2, <2>3, <2>4
<1>6. pc' \in {"source receipt", "source rename"} => path'[Source(want')] = "pinned"
  <2>1. pc \in {"source receipt", "source rename"} => path'[Source(want)] = "pinned"
    <3>1. ASSUME pc \in {"source receipt", "source rename"}
          PROVE  path' = path
      <4>1. Records => path' = path
        BY RecordsWriteNone
      <4> QED
        BY <3>1, <4>1, NextForm DEF CopyKit, CopiedKit, CopyArchive, CopyBlock, CopiedArchive,
           StageCache, ExtractBlock, RenameCache, LinkShard, Answered, FetchBlock, FetchEnd,
           TableOpen, TableBlock, TableLink, TableUnlink, SourceBegin, SourceWritten, SourceTemp,
           SourceReceipt, Fetching
    <3> QED
      BY <3>1 DEF TableInv
  <2> QED
    BY <2>1 DEF MovesOn, To, Ends
<1>7. pc' = "point" => want' \in sourceOk'
  BY Stays DEF MovesOn, To, Ends, TableInv
<1> QED
  BY <1>1, <1>2, <1>3, <1>4, <1>5, <1>6, <1>7 DEF TableInv

\* Which steps lead to, or stay in, the copies; how a transfer comes and goes.
LEMMA CopiesBy ==
  ASSUME Next
  PROVE  /\ pc' = "copied" => CopyArchive \/ CopyBlock
         /\ pc' = "extracted" => StageCache \/ ExtractBlock
<1>1. AfterFetch \in {"shard", "draft", "receipt", "table"}
  BY DEF AfterFetch
<1>2. CASE \/ VerifyKit \/ Reuse \/ FindArchive \/ FindCache \/ ChoosePlace \/ FetchExisting
           \/ CheckReceipt \/ CheckTables \/ TableDiffers \/ VerifyFull \/ WriteReceipt
  BY <1>1, <1>2 DEF VerifyKit, Reuse, FindArchive, FindCache, ChoosePlace, FetchExisting,
     CheckReceipt, CheckTables, TableDiffers, VerifyFull, WriteReceipt, Goto, Raise
<1>3. CASE \/ WriteDraftReceipt \/ TableReceipt \/ FetchBegin \/ Point \/ Stop
           \/ \E r \in Revisions : Prepare(r)
  BY <1>3 DEF WriteDraftReceipt, TableReceipt, FetchBegin, Point, Stop, Prepare, Goto, Fetching
<1>4. CASE CopyKit \/ CopiedKit \/ CopiedArchive \/ RenameCache \/ LinkShard \/ Answered
  BY <1>4 DEF CopyKit, CopiedKit, CopiedArchive, RenameCache, LinkShard, Answered, run, Goto,
     Raise, Fetching
<1>5. CASE FetchBlock \/ FetchEnd \/ TableOpen \/ TableBlock \/ TableLink \/ TableUnlink
  BY <1>1, <1>5 DEF FetchBlock, FetchEnd, TableOpen, TableBlock, TableLink, TableUnlink, Goto,
     Raise, Fetching
<1>6. CASE SourceBegin \/ SourceWritten \/ SourceTemp \/ SourceReceipt
  BY <1>6 DEF SourceBegin, SourceWritten, SourceTemp, SourceReceipt, Goto, Raise
<1>7. CASE CopyArchive \/ CopyBlock \/ StageCache \/ ExtractBlock
  BY <1>7 DEF CopyArchive, CopyBlock, StageCache, ExtractBlock, run, Goto
<1> QED
  BY <1>2, <1>3, <1>4, <1>5, <1>6, <1>7, NextForm DEF Records

LEMMA Transfers ==
  ASSUME AssetInv, Next
  PROVE  \/ io' = "begin"
         \/ io # "begin" /\ UNCHANGED <<pc, place, path, modelDir>>
         \/ FetchBegin
         \/ pc' = "table" /\ path'[Table] = "none"
<1>0. /\ io \in {"begin", "request", "write"} /\ WorkInv
      /\ path \in [Files -> {"none", "partial", "pinned", "other"}]
  BY DEF AssetInv, AssetTypeOK
<1>1. CASE \/ VerifyKit \/ Reuse \/ FindArchive \/ FindCache \/ FetchExisting
           \/ CheckReceipt \/ CheckTables \/ TableDiffers \/ VerifyFull \/ WriteReceipt
  BY <1>1 DEF VerifyKit, Reuse, FindArchive, FindCache, FetchExisting,
     CheckReceipt, CheckTables, TableDiffers, VerifyFull, WriteReceipt, Goto, Raise
<1>2. CASE \/ WriteDraftReceipt \/ TableReceipt \/ FetchBegin \/ Point \/ Stop
           \/ \E r \in Revisions : Prepare(r)
  BY <1>2 DEF WriteDraftReceipt, TableReceipt, Point, Stop, Prepare, Goto
<1>3. CASE CopyKit \/ CopiedKit \/ CopyArchive \/ CopiedArchive \/ StageCache \/ RenameCache
  BY <1>3 DEF CopyKit, CopiedKit, CopyArchive, CopiedArchive, StageCache, RenameCache, Goto, Raise
<1>4. CASE ChoosePlace \/ CopyBlock \/ ExtractBlock \/ LinkShard
  BY <1>0, <1>4 DEF ChoosePlace, CopyBlock, ExtractBlock, LinkShard, run, WorkInv, Fetching
<1>5. CASE Answered \/ FetchBlock \/ TableBlock
  BY <1>5 DEF Answered, FetchBlock, TableBlock, Raise, places
<1>6. CASE FetchEnd \/ TableLink \/ TableUnlink
  BY <1>6 DEF FetchEnd, TableLink, TableUnlink, Goto, Raise
<1>7. CASE TableOpen
  BY <1>7 DEF TableOpen, Goto, Raise
<1>8. CASE SourceBegin \/ SourceWritten \/ SourceTemp \/ SourceReceipt
  BY <1>8 DEF SourceBegin, SourceWritten, SourceTemp, SourceReceipt, Goto, Raise
<1> QED
  BY <1>1, <1>2, <1>3, <1>4, <1>5, <1>6, <1>7, <1>8, NextForm DEF Records

LEMMA WorkStep ==
  ASSUME AssetInv, Next
  PROVE  WorkInv'
<1>0. /\ AssetTypeOK /\ WorkInv /\ Cache \in Files /\ part \in [Files -> Parts]
  BY Named DEF AssetInv, AssetTypeOK
<1>1. CASE io' = "begin"
  <2>1. pc' = "copied" => path'[Archive] = "none"
    BY <1>0, CopiesBy DEF CopyArchive, CopyBlock, WorkInv
  <2>2. pc' = "extracted" => path'[Cache] = "none" /\ part'[Cache].good
    <3>1. CASE StageCache
      BY <1>0, <3>1 DEF StageCache
    <3>2. CASE ExtractBlock
      BY <1>0, <3>2, ExtractTyped DEF ExtractBlock, WorkInv
    <3> QED
      BY <3>1, <3>2, CopiesBy
  <2> QED
    BY <1>1, <2>1, <2>2 DEF WorkInv
<1>2. CASE io # "begin" /\ io' # "begin" /\ UNCHANGED <<pc, place, path, modelDir>>
  <2>1. pc' \notin {"copied", "extracted"}
    BY <1>0, <1>2 DEF WorkInv, Fetching
  <2> QED
    BY <1>0, <1>2, <2>1 DEF WorkInv, Target
<1>3. CASE FetchBegin
  <2>1. pc' \in Fetching /\ path'[Target'] = "none"
    BY <1>3 DEF FetchBegin, Target
  <2>2. pc = "manifest" => modelDir'
    <3>1. CASE place = "model"
      BY <1>0, <1>3, <3>1, TargetNamed DEF FetchBegin
    <3>2. CASE place # "model" /\ pc = "manifest"
      <4>1. PlaceInv /\ place \in {"model", want}
        BY <3>2 DEF AssetInv, PlaceInv, Placed, CacheDone, ArchiveDone, KitDone, Phases, Fetching
      <4>2. modelDir
        BY <3>2, <4>1 DEF PlaceInv, Placed, CacheDone, ArchiveDone, KitDone, Phases, Fetching
      <4> QED
        BY <4>2, Stays
    <3> QED
      BY <3>1, <3>2
  <2> QED
    BY <1>3, <2>1, <2>2 DEF FetchBegin, WorkInv, Fetching
<1>4. CASE io' # "begin" /\ pc' = "table" /\ path'[Table] = "none"
  BY <1>4 DEF WorkInv, Fetching
<1> QED
  BY <1>1, <1>2, <1>3, <1>4, Transfers

-----------------------------------------------------------------------------
(* prepared.json: what it names stays, and a host that it names is reused.   *)
LEMMA ModelStays ==
  ASSUME AssetInv, Next, NEW r \in Revisions, HasModel(r)
  PROVE  HasModel(r)'
<1>1. PICK d \in {r} \cup (IF home = r THEN {"model"} ELSE {}) :
        path[Manifest(d)] = "pinned" /\ path[Shard(d)] = "pinned"
  BY DEF HasModel
<1>2. d \in Dirs
  BY <1>1, Named
<1>3. path'[Manifest(d)] = "pinned" /\ path'[Shard(d)] = "pinned"
  BY <1>1, <1>2, NamesStay
<1>4. d \in {r} \cup (IF home' = r THEN {"model"} ELSE {})
  BY <1>1, Stays, AssetAssumption
<1> QED
  BY <1>3, <1>4 DEF HasModel

LEMMA QuietSteps ==
  ASSUME Next, pc \in {"idle", "kit", "reuse"}
  PROVE  CopyKit \/ VerifyKit \/ Reuse \/ Stop \/ \E r \in Revisions : Prepare(r)
BY DEF Next, Step, CopiedKit, CopyArchive, CopyBlock, CopiedArchive, FindArchive, StageCache,
   ExtractBlock, RenameCache, FindCache, ChoosePlace, LinkShard, FetchExisting, FetchBegin,
   Answered, FetchBlock, FetchEnd, CheckReceipt, VerifyFull, WriteReceipt, WriteDraftReceipt,
   CheckTables, TableOpen, TableBlock, TableDiffers, TableLink, TableUnlink, TableReceipt,
   SourceBegin, SourceWritten, SourceTemp, SourceReceipt, Point, Fetching

LEMMA OtherBegun ==
  ASSUME Next, ~Point
  PROVE  moved' = moved \/ \E r \in Revisions : Prepare(r) /\ moved' = (moved \/ r # pointer)
<1>1. CASE \/ VerifyKit \/ Reuse \/ FindArchive \/ FindCache \/ ChoosePlace \/ FetchExisting
           \/ CheckReceipt \/ CheckTables \/ TableDiffers \/ VerifyFull \/ WriteReceipt
  BY <1>1 DEF VerifyKit, Reuse, FindArchive, FindCache, ChoosePlace, FetchExisting,
     CheckReceipt, CheckTables, TableDiffers, VerifyFull, WriteReceipt, Goto, Raise
<1>2. CASE \/ WriteDraftReceipt \/ TableReceipt \/ FetchBegin \/ Stop
           \/ \E r \in Revisions : Prepare(r)
  BY <1>2 DEF WriteDraftReceipt, TableReceipt, FetchBegin, Stop, Prepare, Goto
<1>3. CASE \/ CopyKit \/ CopiedKit \/ CopyArchive \/ CopyBlock \/ CopiedArchive
           \/ StageCache \/ ExtractBlock \/ RenameCache \/ LinkShard
  BY <1>3 DEF CopyKit, CopiedKit, CopyArchive, CopyBlock, CopiedArchive, StageCache,
     ExtractBlock, RenameCache, LinkShard, run, Goto, Raise
<1>4. CASE Answered \/ FetchBlock \/ FetchEnd \/ TableOpen \/ TableBlock \/ TableLink \/ TableUnlink
  BY <1>4 DEF Answered, FetchBlock, FetchEnd, TableOpen, TableBlock, TableLink, TableUnlink,
     Goto, Raise
<1>5. CASE SourceBegin \/ SourceWritten \/ SourceTemp \/ SourceReceipt
  BY <1>5 DEF SourceBegin, SourceWritten, SourceTemp, SourceReceipt, Goto, Raise
<1> QED
  BY <1>1, <1>2, <1>3, <1>4, <1>5, NextForm DEF Records

\* What the preparation has when it points.
LEMMA PointHas ==
  ASSUME AssetInv, pc = "point"
  PROVE  /\ \A f \in Shared \cup {Kit(want)} : path[f] = "pinned"
         /\ want \in sourceOk /\ path[Source(want)] = "pinned"
         /\ HasModel(want)
         /\ Reusable(want)
<1>0. /\ want \in Revisions /\ place \in Dirs
      /\ FileInv /\ DoneInv /\ PlaceInv /\ TableInv
  BY DEF AssetInv, AssetTypeOK
<1>1. /\ pc \in KitDone /\ pc \in ArchiveDone /\ pc \in CacheDone /\ pc \in ManifestDone
      /\ pc \in ShardDone /\ pc \in DraftDone /\ pc \in ReceiptDone /\ pc \in DraftReceiptDone
      /\ pc \in TableDone /\ pc \in Placed
  BY DEF DraftReceiptDone, ReceiptDone, DraftDone, ShardDone, ManifestDone, Placed, CacheDone,
     ArchiveDone, KitDone, Phases, TableDone
<1>2. tableOk # None /\ want \in sourceOk
  BY <1>0, <1>1 DEF TableInv
<1>3. path[Packed] = "pinned" /\ path[Table] = "pinned" /\ tableOk = TableStamp
      /\ path[Source(want)] = "pinned"
  BY <1>0, <1>2 DEF FileInv
<1>4. /\ path[Kit(want)] = "pinned" /\ path[Archive] = "pinned" /\ path[Cache] = "pinned"
      /\ path[Manifest(place)] = "pinned" /\ path[Shard(place)] = "pinned"
      /\ path[Draft] = "pinned" /\ ReceiptHolds(place) /\ draftOk = "pinned"
  BY <1>0, <1>1 DEF DoneInv
<1>5. place \in {want} \cup (IF home = want THEN {"model"} ELSE {})
  BY <1>0, <1>1 DEF PlaceInv
<1>6. Place(want) = place
  BY <1>0, <1>1 DEF PlaceInv, Place, FileInv
<1>7. HasModel(want)
  BY <1>4, <1>5 DEF HasModel
<1>8. Reusable(want)
  BY <1>2, <1>3, <1>4, <1>6 DEF Reusable
<1> QED
  BY <1>2, <1>3, <1>4, <1>7, <1>8 DEF Shared

LEMMA PointerStep ==
  ASSUME AssetInv, Next
  PROVE  PointerInv'
<1>0. /\ want \in Revisions /\ pointer \in Revisions \cup {NoRev} /\ PointerInv
      /\ FileInv /\ moved \in BOOLEAN /\ pc \in Phases
  BY DEF AssetInv, AssetTypeOK
<1>1. CASE Point
  <2>1. /\ pc = "point" /\ pointer' = want /\ pc' = "idle"
        /\ UNCHANGED <<path, part, modelDir, home, linked, receipt, draftOk, tableOk, sourceOk>>
    BY <1>1 DEF Point, places
  <2>2. HasModel(want)
    BY <2>1, PointHas
  <2>3. /\ \A f \in Shared \cup {Kit(want)} : path'[f] = "pinned"
        /\ want \in sourceOk'
    BY <2>1, PointHas
  <2>4. Reusable(want)
    BY <2>1, PointHas
  <2>5. Reusable(pointer)'
    BY <2>1, <2>4 DEF Reusable, ReceiptHolds, Inventory, Place, Stamp, TableStamp, Links
  <2>6. HasModel(pointer)'
    BY <2>1, <2>2 DEF HasModel, Manifest, Shard
  <2>7. \A f \in Shared \cup {Kit(pointer')} : path'[f] = "pinned"
    BY <2>1, <2>3
  <2> QED
    BY <2>1, <2>3, <2>5, <2>6, <2>7 DEF PointerInv, Kit
<1>2. CASE ~Point /\ pointer # NoRev
  <2>0. pointer' = pointer /\ pointer \in Revisions
    BY <1>0, <1>2, RecordEffect
  <2>1. /\ \A f \in Shared \cup {Kit(pointer)} : path[f] = "pinned"
        /\ pointer \in sourceOk /\ HasModel(pointer)
    BY <1>0, <1>2 DEF PointerInv
  <2>2. \A f \in Shared \cup {Kit(pointer)} : path'[f] = "pinned"
    BY <2>0, <2>1, NamesStay DEF Shared
  <2>3. pointer \in sourceOk'
    BY <2>1, Stays
  <2>4. HasModel(pointer)'
    BY <2>0, <2>1, ModelStays DEF HasModel
  <2>5. ASSUME ~moved'
        PROVE  /\ Reusable(pointer)'
               /\ pc' \in {"idle", "kit", "reuse"}
               /\ pc' # "idle" => want' = pointer
    <3>1. ~moved /\ \A r \in Revisions : Prepare(r) => r = pointer
      BY <1>0, <1>2, <2>5, OtherBegun DEF Prepare
    <3>2. /\ Reusable(pointer) /\ pc \in {"idle", "kit", "reuse"}
          /\ pc # "idle" => want = pointer
      BY <1>0, <1>2, <3>1 DEF PointerInv
    <3>3. VerifyKit \/ Reuse \/ Stop \/ \E r \in Revisions : Prepare(r)
      BY <2>1, <3>2, QuietSteps DEF CopyKit
    <3>4. UNCHANGED disk
      BY <3>3 DEF VerifyKit, Reuse, Stop, Prepare
    <3>5. Reusable(pointer)'
      BY <2>0, <3>2, <3>4 DEF disk, places, records, Reusable, ReceiptHolds, Inventory, Place,
         Stamp, TableStamp, Links
    <3>6. /\ pc' \in {"idle", "kit", "reuse"}
          /\ pc' # "idle" => want' = pointer
      BY <3>1, <3>2, <3>3 DEF VerifyKit, Reuse, Stop, Prepare, Goto, Raise
    <3> QED
      BY <3>5, <3>6
  <2>6. \A f \in Shared \cup {Kit(pointer')} : path'[f] = "pinned"
    BY <2>0, <2>2
  <2> QED
    BY <2>0, <2>3, <2>4, <2>5, <2>6 DEF PointerInv, Kit
<1>3. CASE ~Point /\ pointer = NoRev
  BY <1>3, RecordEffect DEF PointerInv
<1> QED
  BY <1>1, <1>2, <1>3

-----------------------------------------------------------------------------
(* The theorems.                                                             *)
LEMMA AssetStart ==
  ASSUME Init
  PROVE  AssetInv
<1>1. /\ 0 \in 0..MaxFaults /\ Blocks \in Nat /\ NoPart \in Parts /\ IsFiniteSet({})
      /\ "model" \in Dirs
  BY AssetAssumption, PartForms, FS_EmptySet, Named
<1>2. AssetTypeOK
  BY <1>1 DEF Init, AssetTypeOK, Phases
<1>3. FileInv
  BY <1>1, Named DEF Init, FileInv
<1>4. DoneInv /\ PlaceInv
  BY DEF Init, DoneInv, PlaceInv, DraftReceiptDone, ReceiptDone, DraftDone, ShardDone,
     ManifestDone, Placed, CacheDone, ArchiveDone, KitDone
<1>5. WorkInv /\ TableInv /\ PointerInv
  BY DEF Init, WorkInv, TableInv, PointerInv, Tabling, TableDone
<1> QED
  BY <1>2, <1>3, <1>4, <1>5 DEF AssetInv

LEMMA AssetStay ==
  ASSUME AssetInv, UNCHANGED vars
  PROVE  AssetInv'
<1>1. UNCHANGED <<path, part, modelDir, home, linked, receipt, draftOk, tableOk, sourceOk, pointer>>
      /\ UNCHANGED <<pc, io, want, place, faults, why, moved>>
  BY DEF vars, disk, run, places, records
<1>2. AssetTypeOK' /\ FileInv'
  BY <1>1 DEF AssetInv, AssetTypeOK, FileInv, TableStamp
<1>3. DoneInv'
  BY <1>1 DEF AssetInv, DoneInv, Inventory, ReceiptHolds, Stamp, Links
<1>4. WorkInv' /\ PlaceInv' /\ TableInv'
  <2>1. WorkInv'
    BY <1>1 DEF AssetInv, WorkInv, Target
  <2>2. PlaceInv'
    BY <1>1 DEF AssetInv, PlaceInv
  <2>3. TableInv'
    BY <1>1 DEF AssetInv, TableInv
  <2> QED
    BY <2>1, <2>2, <2>3
<1>5. PointerInv'
  BY <1>1 DEF AssetInv, PointerInv, HasModel, Reusable, ReceiptHolds, Inventory, Place, Stamp,
     TableStamp, Links
<1> QED
  BY <1>2, <1>3, <1>4, <1>5 DEF AssetInv

\* The inductive invariant: what each phase of a preparation has behind it is
\* on the disk, through every kill, exception and wrong byte.
THEOREM AssetInvariant == Spec => []AssetInv
<1>1. AssetInv /\ [Next]_vars => AssetInv'
  <2> SUFFICES ASSUME AssetInv, Next PROVE AssetInv'
    BY AssetStay
  <2> QED
    BY AssetTypes, FileStep, DoneStep, WorkStep, PlaceStep, TableStep, PointerStep DEF AssetInv
<1> QED
  BY <1>1, AssetStart, PTL DEF Spec

\* The asset cache is well typed: no receipt ever records anything but pinned
\* weights, a pinned draft and pinned tables.
THEOREM AssetsTyped == Spec => []AssetTypeOK
<1>1. AssetInv => AssetTypeOK
  BY DEF AssetInv
<1> QED
  BY <1>1, AssetInvariant, PTL

\* What prepared.json names can be reused at once, whatever interrupted the
\* repeated preparations of that revision: they write nothing.
THEOREM PreparedIsReusable == Spec => []ReuseHolds
<1>1. AssetInv => ReuseHolds
  BY DEF AssetInv, PointerInv, ReuseHolds
<1> QED
  BY <1>1, AssetInvariant, PTL

\* A preparation repeated for the revision that prepared.json names.
RepeatsOnlyRead ==
  [][pointer # NoRev /\ ~moved =>
       /\ UNCHANGED disk
       /\ why' \in {why, "running", "prepared", "stopped"}]_vars

\* Whatever interrupted the repetitions before, another one writes nothing at
\* all, and raises for nothing: it is stopped from outside, or finds everything
\* as prepared.json says.
THEOREM RepeatsWriteNothing == Spec => RepeatsOnlyRead
<1>1. AssetInv /\ [Next]_vars =>
        [pointer # NoRev /\ ~moved =>
           UNCHANGED disk /\ why' \in {why, "running", "prepared", "stopped"}]_vars
  <2> SUFFICES ASSUME AssetInv, Next, pointer # NoRev, ~moved
               PROVE  UNCHANGED disk /\ why' \in {why, "running", "prepared", "stopped"}
    OBVIOUS
  <2>1. /\ path[Kit(pointer)] = "pinned" /\ Reusable(pointer)
        /\ pc \in {"idle", "kit", "reuse"} /\ (pc # "idle" => want = pointer)
    BY DEF AssetInv, PointerInv
  <2>2. VerifyKit \/ Reuse \/ Stop \/ \E r \in Revisions : Prepare(r)
    BY <2>1, QuietSteps DEF CopyKit
  <2>3. CASE VerifyKit
    BY <2>1, <2>3 DEF VerifyKit, Goto
  <2>4. CASE Reuse
    BY <2>1, <2>4 DEF Reuse, Raise
  <2>5. CASE Stop \/ \E r \in Revisions : Prepare(r)
    BY <2>5 DEF Stop, Prepare
  <2> QED
    BY <2>2, <2>3, <2>4, <2>5
<1> QED
  BY <1>1, AssetInvariant, PTL DEF Spec, RepeatsOnlyRead

\* Whatever prepared.json names is whole: kit, stand-ins, model and all that the
\* revisions share.
PointedIsWhole == pointer # NoRev => NeedsOf[pointer] \subseteq Published

\* It stays so while other revisions are prepared, interrupted and fed wrong bytes.
THEOREM PointedStaysWhole == Spec => []PointedIsWhole
<1>1. AssetInv => PointedIsWhole
  <2> SUFFICES ASSUME AssetInv, pointer # NoRev
               PROVE  NeedsOf[pointer] \subseteq Published
    BY DEF PointedIsWhole
  <2>1. /\ pointer \in Revisions /\ pointer \in sourceOk /\ HasModel(pointer)
        /\ path[Source(pointer)] = "pinned"
        /\ \A f \in Shared \cup {Kit(pointer)} : path[f] = "pinned"
    BY DEF AssetInv, AssetTypeOK, PointerInv, FileInv
  <2>2. NeedsOf[pointer] = Shared \cup {Kit(pointer), Source(pointer), Shard(pointer)}
    BY <2>1 DEF NeedsOf
  <2>3. Shared \subseteq Published
    BY <2>1 DEF Published
  <2>4. Kit(pointer) \in Published /\ Source(pointer) \in Published /\ Shard(pointer) \in Published
    BY <2>1 DEF Published
  <2> QED
    BY <2>2, <2>3, <2>4
<1> QED
  BY <1>1, AssetInvariant, PTL

LEMMA ShelfGrows ==
  ASSUME AssetInv, Next
  PROVE  Published \subseteq Published' /\ Published' \subseteq Assets
<1>0. sourceOk \subseteq Revisions /\ sourceOk' \subseteq Revisions /\ FileInv
  BY AssetTypes DEF AssetInv, AssetTypeOK
<1>1. {a \in Shared : path[a] = "pinned"} \subseteq {a \in Shared : path'[a] = "pinned"}
  BY NamesStay DEF Shared
<1>2. {x \in Revisions : path[Kit(x)] = "pinned"} \subseteq {x \in Revisions : path'[Kit(x)] = "pinned"}
  BY NamesStay
<1>3. {x \in sourceOk : path[Source(x)] = "pinned"} \subseteq {x \in sourceOk' : path'[Source(x)] = "pinned"}
  BY <1>0, NamesStay, Stays
<1>4. {x \in Revisions : HasModel(x)} \subseteq {x \in Revisions : HasModel(x)'}
  BY ModelStays
<1>5. Published' = {a \in Shared : path'[a] = "pinned"}
                   \cup {Kit(r) : r \in {x \in Revisions : path'[Kit(x)] = "pinned"}}
                   \cup {Source(r) : r \in {x \in sourceOk' : path'[Source(x)] = "pinned"}}
                   \cup {Shard(r) : r \in {x \in Revisions : HasModel(x)'}}
  BY DEF Published, HasModel, Kit, Source, Shard, Shared, Archive, Cache, Draft, Packed, Table
<1>6. Published \subseteq Published'
  BY <1>1, <1>2, <1>3, <1>4, <1>5 DEF Published
<1>7. Published' \subseteq Assets
  BY <1>0, <1>5 DEF Assets
<1> QED
  BY <1>6, <1>7

LEMMA ShelfStays ==
  ASSUME UNCHANGED <<path, home, sourceOk>>
  PROVE  Published' = Published
BY DEF Published, HasModel, Kit, Source, Shard, Manifest, Shared, Archive, Cache, Draft, Packed,
   Table

\* The preparation of a host implements AssetPublication: a pinned asset stays
\* published, and prepared.json comes after all that it names.
THEOREM AssetsPublishWhole == Spec => PublishesWhole
<1> DEFINE Abstract == Publication!Next \/ UNCHANGED <<Published, pointer>>
<1>1. Init => Publication!Init
  <2> SUFFICES ASSUME Init PROVE Published = {} /\ pointer = NoRev
    BY DEF Publication!Init
  <2>1. \A f \in Files : path[f] # "pinned"
    BY DEF Init
  <2>2. Shared \subseteq Files /\ sourceOk = {}
    BY Named DEF Shared, Init
  <2>3. \A x \in Revisions : ~HasModel(x)
    BY <2>1, Named DEF HasModel
  <2> QED
    BY <2>1, <2>2, <2>3, Named DEF Published, Init
<1>2. AssetInv /\ [Next]_vars => Abstract
  <2>1. ASSUME AssetInv, Point
        PROVE  Abstract
    <3>1. Published' = Published
      BY <2>1, ShelfStays DEF Point, places
    <3>2. pc = "point" /\ want \in Revisions /\ pointer' = want
      BY <2>1 DEF Point, AssetInv, AssetTypeOK
    <3>3. NeedsOf[want] \subseteq Published
      BY <2>1, <3>2, PointHas DEF NeedsOf, Published
    <3>4. Publication!Point(want)
      BY <3>1, <3>2, <3>3 DEF Publication!Point
    <3> QED
      BY <3>2, <3>4 DEF Publication!Next
  <2>2. ASSUME AssetInv, Next, ~Point
        PROVE  Abstract
    <3>1. pointer' = pointer
      BY <2>2, RecordEffect
    <3>2. Published \subseteq Published' /\ Published' \subseteq Assets
      BY <2>2, ShelfGrows
    <3>3. /\ Published' \ Published \in SUBSET (Assets \ Published)
          /\ Published' = Published \cup (Published' \ Published)
      BY <3>2
    <3>4. Publication!Publish
      BY <3>1, <3>3 DEF Publication!Publish
    <3> QED
      BY <3>4 DEF Publication!Next
  <2>3. ASSUME UNCHANGED vars
        PROVE  Abstract
    <3>1. UNCHANGED <<path, home, sourceOk, pointer>>
      BY <2>3 DEF vars, disk, places, records
    <3> QED
      BY <3>1, ShelfStays
  <2> QED
    BY <2>1, <2>2, <2>3
<1>3. Abstract => [Publication!Next]_<<Published, pointer>>
  OBVIOUS
<1>4. AssetInv /\ [Next]_vars => [Publication!Next]_<<Published, pointer>>
  BY <1>2, <1>3
<1> QED
  BY <1>1, <1>4, AssetInvariant, PTL DEF Spec, PublishesWhole, Publication!Spec


-----------------------------------------------------------------------------
(* What a preparation raises for.                                            *)

\* What the host of a prepared revision has in the directory of its model.
Installed(r) ==
  /\ receipt[Place(r)] # None
  /\ path[Manifest(Place(r))] = "pinned" /\ path[Shard(Place(r))] = "pinned"

\* A manifest leaves nothing under its temporary name, and a host that was once
\* prepared keeps its records, be it for an outdated fingerprint.
RetryInv ==
  /\ \A d \in Dirs : path[Manifest(d)] # "none" => part[Manifest(d)] = NoPart
  /\ pc = "table" /\ io = "write" => part[Table] # NoPart
  /\ pc = "manifest" /\ place = "model" /\ home = NoRev => pointer = NoRev
  /\ pointer # NoRev => modelDir /\ tableOk # None /\ draftOk # "missing" /\ Installed(pointer)

\* A preparation ends, without success and without being killed.
Fails == pc # "idle" /\ pc' = "idle" /\ why' \notin {"prepared", "stopped"}

\* The receipt of the draft was cut while another revision was prepared.
CutDraft(r) == pointer = r /\ draftOk = "torn"

\* The manifest of root/model was refused before root/model had any: the next
\* preparation takes a directory of its own.
Elsewhere == pc = "manifest" /\ Place(want) # place

\* Whatever a preparation raises, the disk blocks its repetition, but for those
\* two cases.
RaisesWhenBlocked == [][Fails => Blocked(want)' \/ CutDraft(want) \/ Elsewhere]_vars

\* What is fetched is written only between a request and its end.
LEMMA Downloads ==
  ASSUME AssetInv, Next, pc \in Fetching, NEW f \in Files, part'[f] # part[f]
  PROVE  f = Target /\ path[Target] = "none" /\ (FetchEnd => part'[f] = NoPart)
<1>0. AssetTypeOK /\ WorkInv /\ part \in [Files -> Parts] /\ want \in Revisions
  BY DEF AssetInv, AssetTypeOK
<1>1. f = Target
  <2>1. Busy(f)
    BY PartStep DEF PartEffect
  <2> QED
    BY <2>1 DEF Busy, Fetching
<1>2. Answered \/ FetchBlock \/ FetchEnd
  BY NextForm, RecordsWriteNone DEF CopyKit, CopiedKit, CopyArchive, CopyBlock, CopiedArchive,
     StageCache, ExtractBlock, RenameCache, LinkShard, TableOpen, TableBlock, TableLink, TableUnlink,
     SourceBegin, SourceWritten, SourceTemp, SourceReceipt, Fetching
<1>3. path[Target] = "none"
  BY <1>0, <1>2 DEF Answered, FetchBlock, FetchEnd, WorkInv
<1>4. FetchEnd => part'[f] = NoPart
  BY <1>0, <1>1 DEF FetchEnd, Publish
<1> QED
  BY <1>1, <1>3, <1>4

\* A manifest is under one of its names only.
LEMMA ManifestParts ==
  ASSUME AssetInv, RetryInv, Next, NEW d \in Dirs, path'[Manifest(d)] # "none"
  PROVE  part'[Manifest(d)] = NoPart
<1> DEFINE f == Manifest(d)
<1>0. /\ AssetTypeOK /\ f \in Files /\ want \in Revisions /\ place \in Dirs
      /\ {Kit(want), Archive, Cache, Shard(place), Table, Source(want)} \subseteq Files
      /\ f \notin {Kit(want), Archive, Cache, Shard(place), Table, Source(want)}
      /\ path \in [Files -> {"none", "partial", "pinned", "other"}]
  BY Named, Apart DEF AssetInv, AssetTypeOK
<1> HIDE DEF f
<1>1. part'[f] # part[f] => pc \in Fetching
  BY <1>0, PartStep DEF PartEffect, Busy
<1>2. CASE path[f] # "none"
  <2>1. part[f] = NoPart
    BY <1>2 DEF RetryInv, f
  <2> QED
    BY <1>0, <1>1, <1>2, <2>1, Downloads DEF f
<1>3. CASE path[f] = "none"
  <2>1. FetchEnd /\ part[Target] = Whole /\ Writes(Target, "pinned") /\ path'[f] # path[f]
    <3>1. path'[f] # path[f]
      BY <1>3 DEF f
    <3> QED
      BY <1>0, <3>1, PathStep DEF PathEffect, Writes
  <2>2. Target \in Files /\ f = Target
    BY <1>0, <2>1, TargetNamed DEF FetchEnd, Writes
  <2>3. part'[f] = NoPart
    BY <1>0, <2>1, <2>2 DEF FetchEnd, Publish, AssetTypeOK
  <2> QED
    BY <2>3 DEF f
<1> QED
  BY <1>2, <1>3

\* A part of a table that is being written is there.
LEMMA TableParts ==
  ASSUME AssetInv, RetryInv, Next, pc' = "table", io' = "write"
  PROVE  part'[Table] # NoPart
<1>0. AssetTypeOK /\ Table \in Files /\ part \in [Files -> Parts] /\ Blocks \in Nat /\ io \in {"begin", "request", "write"}
  BY Named, AssetAssumption DEF AssetInv, AssetTypeOK
<1>1. TableOpen \/ TableBlock
  <2>1. ~Records
    BY DEF Records, VerifyKit, Reuse, FindArchive, FindCache, ChoosePlace, FetchExisting,
       CheckReceipt, CheckTables, TableDiffers, VerifyFull, WriteReceipt, WriteDraftReceipt,
       TableReceipt, FetchBegin, Point, Stop, Prepare, Goto, Raise
  <2>2. ~(CopyKit \/ CopiedKit \/ CopyArchive \/ CopyBlock \/ CopiedArchive \/ StageCache
          \/ ExtractBlock \/ RenameCache \/ LinkShard)
    BY DEF CopyKit, CopiedKit, CopyArchive, CopyBlock, CopiedArchive, StageCache,
       ExtractBlock, RenameCache, LinkShard, run, Goto, Raise
  <2>3. ~(Answered \/ FetchBlock \/ FetchEnd \/ TableLink \/ TableUnlink
          \/ SourceBegin \/ SourceWritten \/ SourceTemp \/ SourceReceipt)
    BY DEF Answered, FetchBlock, FetchEnd, TableLink, TableUnlink, SourceBegin, SourceWritten,
       SourceTemp, SourceReceipt, Fetching, Goto, Raise
  <2> QED
    BY <2>1, <2>2, <2>3, NextForm
<1>2. CASE TableOpen
  <2>1. part' = [part EXCEPT ![Table] = IF @ = NoPart THEN [len |-> 0, good |-> TRUE] ELSE @]
    BY <1>2 DEF TableOpen, Goto, Raise
  <2>2. [len |-> 0, good |-> TRUE] # NoPart
    BY DEF NoPart
  <2> QED
    BY <1>0, <2>1, <2>2
<1>3. CASE TableBlock
  <2>1. part[Table].len \in 0..Blocks
    BY <1>0, PartForms
  <2>2. PICK ok \in BOOLEAN :
          part' = [part EXCEPT ![Table] = [len |-> part[Table].len + 1, good |-> @.good /\ ok]]
    BY <1>3 DEF TableBlock, Arrive
  <2>3. PICK q : q = [len |-> part[Table].len + 1, good |-> part[Table].good /\ ok]
    OBVIOUS
  <2>4. part' = [part EXCEPT ![Table] = q]
    BY <2>2, <2>3
  <2>5. q.len = part[Table].len + 1
    BY <2>3
  <2>6. NoPart.len = 0
    BY DEF NoPart
  <2>7. q # NoPart
    BY <1>0, <2>1, <2>5, <2>6
  <2> QED
    BY <1>0, <2>4, <2>7
<1> QED
  BY <1>1, <1>2, <1>3

\* root/model is chosen for a new manifest on a host that was never prepared.
LEMMA FirstManifest ==
  ASSUME AssetInv, RetryInv, Next, pc' = "manifest", place' = "model", home' = NoRev
  PROVE  pointer' = NoRev
<1>1. home = NoRev /\ want \in Revisions /\ NoRev \notin Revisions
  BY Stays, AssetAssumption DEF AssetInv, AssetTypeOK
<1>2. pointer' = pointer \/ Point
  BY RecordEffect
<1>3. ~Point
  BY DEF Point
<1>4. CASE pc = "choose" /\ place' = Place(want)
  <2>1. ~modelDir
    BY <1>1, <1>4, AssetAssumption DEF Place
  <2> QED
    BY <1>2, <1>3, <2>1 DEF RetryInv
<1>5. CASE To(pc)
  BY <1>1, <1>2, <1>3, <1>5 DEF To, RetryInv
<1> QED
  BY <1>4, <1>5, MovesStep DEF MovesOn, Ends, To

\* The directory of a prepared revision stays the one it was prepared in.
LEMMA SamePlace ==
  ASSUME AssetInv, RetryInv, Next, pointer # NoRev
  PROVE  modelDir' /\ (~Point => Place(pointer)' = Place(pointer))
<1>0. AssetTypeOK /\ FileInv /\ WorkInv /\ modelDir /\ place \in Dirs
  BY DEF AssetInv, AssetTypeOK, RetryInv
<1>1. modelDir'
  BY <1>0, Stays
<1>2. home' = home
  <2>1. ASSUME FetchEnd, Target = Manifest("model"), home' # home
        PROVE  FALSE
    <3>1. home = NoRev
      BY <2>1, Stays
    <3>2. pc = "manifest" /\ place = "model"
      BY <1>0, <2>1, TargetNamed, Named, Apart DEF FetchEnd, Fetching
    <3> QED
      BY <3>1, <3>2 DEF RetryInv
  <2> QED
    BY <2>1, RecordEffect
<1>3. ~Point => pointer' = pointer
  BY RecordEffect
<1> QED
  BY <1>0, <1>1, <1>2, <1>3 DEF Place

\* A record that was written is not missing, be it cut.
LEMMA KeepsRecords ==
  ASSUME AssetInv, Next
  PROVE  /\ tableOk # None => tableOk' # None
         /\ draftOk # "missing" => draftOk' # "missing"
         /\ \A d \in Dirs : receipt[d] # None => receipt'[d] # None
<1>0. /\ AssetTypeOK /\ TableInv /\ DoneInv /\ place \in Dirs
      /\ receipt \in [Dirs -> {None, Torn} \cup ({"pinned"} \X (Nat \ {0}))]
      /\ Torn # None
  BY DEF AssetInv, AssetTypeOK, Torn, None
<1>1. tableOk # None => tableOk' # None
  <2>1. CASE TableReceipt
    BY <1>0, <2>1 DEF TableReceipt, TableInv, Tabling
  <2> QED
    BY <2>1, RecordEffect
<1>2. draftOk # "missing" => draftOk' # "missing"
  <2>1. CASE WriteDraftReceipt
    BY <1>0, <2>1 DEF WriteDraftReceipt, DoneInv, DraftDone, ShardDone, ManifestDone, Placed,
       CacheDone, ArchiveDone, KitDone, Phases
  <2> QED
    BY <2>1, RecordEffect
<1>3. ASSUME NEW d \in Dirs, receipt[d] # None
      PROVE  receipt'[d] # None
  <2>1. CASE VerifyFull
    BY <1>0, <1>3, <2>1 DEF VerifyFull
  <2>2. CASE WriteReceipt
    <3>1. path[Shard(place)] = "pinned"
      BY <1>0, <2>2 DEF WriteReceipt, DoneInv, ShardDone, ManifestDone, Placed, CacheDone,
         ArchiveDone, KitDone, Phases
    <3>2. Stamp(place) # None
      BY <3>1 DEF Stamp, None
    <3> QED
      BY <1>0, <1>3, <2>2, <3>2 DEF WriteReceipt
  <2> QED
    BY <1>3, <2>1, <2>2, RecordEffect
<1> QED
  BY <1>1, <1>2, <1>3

LEMMA RetryStep ==
  ASSUME AssetInv, RetryInv, Next
  PROVE  RetryInv'
<1>0. /\ AssetTypeOK /\ DoneInv /\ PlaceInv /\ TableInv
      /\ pointer \in Revisions \cup {NoRev} /\ NoRev \notin Revisions
      /\ want \in Revisions /\ "model" \in Dirs /\ Revisions \subseteq Dirs
  BY AssetAssumption, Named DEF AssetInv, AssetTypeOK
<1>1. \A d \in Dirs : path'[Manifest(d)] # "none" => part'[Manifest(d)] = NoPart
  BY ManifestParts
<1>2. pc' = "table" /\ io' = "write" => part'[Table] # NoPart
  BY TableParts
<1>3. pc' = "manifest" /\ place' = "model" /\ home' = NoRev => pointer' = NoRev
  BY FirstManifest
<1>4. ASSUME pointer' # NoRev
      PROVE  modelDir' /\ tableOk' # None /\ draftOk' # "missing" /\ Installed(pointer)'
  <2>1. CASE Point
    <3>1. /\ pc = "point" /\ pointer' = want /\ tableOk' = tableOk /\ draftOk' = draftOk
          /\ receipt' = receipt /\ path' = path /\ modelDir' = modelDir /\ home' = home
      BY <2>1 DEF Point, places
    <3>2. /\ tableOk # None /\ draftOk = "pinned" /\ ReceiptHolds(place)
          /\ path[Manifest(place)] = "pinned" /\ path[Shard(place)] = "pinned"
      BY <1>0, <3>1 DEF DoneInv, TableInv, TableDone, DraftReceiptDone, ReceiptDone, DraftDone,
         ShardDone, ManifestDone, Placed, CacheDone, ArchiveDone, KitDone, Phases
    <3>3. place = Place(want) /\ modelDir
      <4>1. pc \in Placed
        BY <3>1 DEF Placed, CacheDone, ArchiveDone, KitDone, Phases
      <4>2. /\ place \in {"model", want}
            /\ place = want => modelDir /\ home # want
            /\ place = "model" => home = want
        BY <1>0, <3>1, <4>1 DEF PlaceInv
      <4>3. home = want => modelDir
        BY <1>0 DEF AssetInv, FileInv
      <4> QED
        BY <1>0, <4>2, <4>3 DEF Place
    <3>4. receipt[place] # None
      BY <3>2 DEF ReceiptHolds, Stamp, None
    <3>5. Place(pointer)' = place
      BY <3>1, <3>3 DEF Place
    <3> QED
      BY <3>1, <3>2, <3>3, <3>4, <3>5 DEF Installed
  <2>2. CASE ~Point
    <3>1. pointer' = pointer /\ pointer \in Revisions
      BY <1>0, <1>4, <2>2, RecordEffect
    <3>2. /\ modelDir /\ tableOk # None /\ draftOk # "missing" /\ Installed(pointer)
      BY <1>4, <3>1 DEF RetryInv
    <3>3. Place(pointer)' = Place(pointer) /\ modelDir' /\ Place(pointer) \in Dirs
      BY <1>0, <1>4, <2>2, <3>1, SamePlace DEF Place
    <3>4. receipt'[Place(pointer)] # None
      BY <3>2, <3>3, KeepsRecords DEF Installed
    <3>5. path'[Manifest(Place(pointer))] = "pinned" /\ path'[Shard(Place(pointer))] = "pinned"
      BY <3>2, <3>3, NamesStay DEF Installed
    <3> QED
      BY <3>2, <3>3, <3>4, <3>5, KeepsRecords DEF Installed
  <2> QED
    BY <2>1, <2>2
<1> QED
  BY <1>1, <1>2, <1>3, <1>4 DEF RetryInv

LEMMA RetryStay ==
  ASSUME RetryInv, UNCHANGED vars
  PROVE  RetryInv'
BY DEF RetryInv, Installed, Place, vars, disk, run, places, records

LEMMA RetryInvariant == Spec => []RetryInv
<1>1. Init => RetryInv
  BY Named DEF Init, RetryInv
<1>2. AssetInv /\ RetryInv /\ [Next]_vars => RetryInv'
  BY RetryStep, RetryStay
<1> QED
  BY <1>1, <1>2, AssetInvariant, PTL DEF Spec

-----------------------------------------------------------------------------
(* A preparation that raises, raises on what stays on the disk.              *)

\* The directory that the next preparation chooses is the one it has chosen.
LEMMA SameChoice ==
  ASSUME AssetInv, pc \in Placed, pc # "manifest" \/ io # "begin"
  PROVE  Place(want) = place \/ Elsewhere
<1>1. PlaceInv /\ WorkInv /\ want \in Revisions
  BY DEF AssetInv, AssetTypeOK
<1>2. CASE place = want
  BY <1>1, <1>2 DEF PlaceInv, Place
<1>3. CASE place = "model" /\ home = want
  BY <1>3 DEF Place
<1> QED
  BY <1>1, <1>2, <1>3 DEF PlaceInv, Elsewhere

\* What is installed is as its receipt says, or blocks the revision.
LEMMA ReceiptRefused ==
  ASSUME AssetInv, RetryInv, NEW r \in Revisions, NEW d \in Dirs, d = Place(r),
         path[Manifest(d)] = "pinned", path[Shard(d)] = "pinned"
  PROVE  /\ ~Inventory(d) => Blocked(r)
         /\ receipt[d] # None /\ ~ReceiptHolds(d) => Blocked(r)
<1>1. part[Manifest(d)] = NoPart
  BY DEF RetryInv
<1>2. ~Inventory(d) => part[Shard(d)] # NoPart
  BY <1>1 DEF Inventory
<1>3. ~Inventory(d) => Blocked(r)
  BY <1>2 DEF Blocked
<1>4. receipt[d] # None /\ receipt[d] # Stamp(d) => Blocked(r)
  BY DEF Blocked
<1> QED
  BY <1>3, <1>4 DEF ReceiptHolds

\* Everything but a kit or a stand-in is whole under its name, or not there.
LEMMA WholeOrNone ==
  ASSUME AssetInv
  PROVE  /\ \A f \in {Archive, Cache, Draft, Packed, Table} : path[f] \in {"none", "pinned"}
         /\ \A d \in Dirs : /\ path[Manifest(d)] \in {"none", "pinned"}
                            /\ path[Shard(d)] \in {"none", "pinned"}
         /\ \A r \in Revisions : path[Kit(r)] \in {"none", "pinned", "partial"}
<1>1. \A f \in Files : path[f] \in {"none", "partial", "pinned"}
  BY DEF AssetInv, AssetTypeOK, FileInv
<1>2. \A f \in Files : path[f] = "partial" => \E r \in Revisions : f \in {Kit(r), Source(r)}
  BY DEF AssetInv, FileInv
<1> QED
  BY <1>1, <1>2, Named, Apart

\* The shared part and the kit.
LEMMA SharedRefusals ==
  ASSUME AssetInv, RetryInv, Fails,
         VerifyKit \/ CopiedArchive \/ FindArchive \/ FindCache \/ CheckTables \/ TableOpen
         \/ TableDiffers \/ SourceTemp
  PROVE  Blocked(want)
<1>0. /\ want \in Revisions /\ WorkInv /\ FileInv /\ Blocks \in Nat \ {0}
      /\ part \in [Files -> Parts]
  BY AssetAssumption DEF AssetInv, AssetTypeOK
<1> USE DEF Fails, Goto
<1>1. CASE VerifyKit
  BY <1>0, <1>1, WholeOrNone DEF VerifyKit, Blocked
<1>2. CASE CopiedArchive
  <2>1. part[Archive].len = Blocks /\ path[Archive] = "none"
    BY <1>0, <1>2 DEF CopiedArchive, WorkInv
  <2>2. part[Archive] # NoPart
    BY <1>0, <2>1 DEF NoPart
  <2> QED
    BY <2>1, <2>2 DEF Blocked
<1>3. CASE FindArchive
  BY <1>3, WholeOrNone DEF FindArchive, Blocked
<1>4. CASE FindCache
  BY <1>4 DEF FindCache, Blocked
<1>5. CASE CheckTables
  BY <1>0, <1>5 DEF CheckTables, FileInv
<1>6. CASE TableOpen
  BY <1>6, WholeOrNone DEF TableOpen
<1>7. CASE TableDiffers
  BY <1>0, <1>7 DEF TableDiffers, WorkInv, RetryInv, Blocked
<1>8. CASE SourceTemp
  BY <1>8 DEF SourceTemp, Blocked
<1> QED
  BY <1>1, <1>2, <1>3, <1>4, <1>5, <1>6, <1>7, <1>8

\* The downloads.
LEMMA FetchRefusals ==
  ASSUME AssetInv, Fails, FetchExisting \/ Answered \/ FetchEnd
  PROVE  Blocked(want) \/ Elsewhere
<1>0. AssetTypeOK /\ WorkInv /\ pc \in Fetching /\ place \in Dirs /\ pc \in Phases
  BY DEF AssetInv, AssetTypeOK, FetchExisting, Answered, FetchEnd
<1>1. Target \in {Manifest(place), Shard(place), Draft, Packed}
  BY <1>0, TargetNamed DEF Fetching
<1>2. ~FetchExisting
  <2>1. path[Target] \in {"none", "pinned"}
    BY <1>0, <1>1, WholeOrNone
  <2>2. AfterFetch # "idle"
    BY <1>0, TargetNamed DEF Fetching
  <2> QED
    BY <2>1, <2>2 DEF FetchExisting, Fails, Goto
<1>3. io # "begin" /\ path[Target] = "none"
  BY <1>0, <1>2 DEF Answered, FetchEnd, WorkInv
<1>4. part[Target].len = Blocks
  <2>1. CASE Answered
    BY <1>0, <2>1 DEF Answered, Fails, Fetching
  <2>2. CASE FetchEnd
    BY <2>2 DEF FetchEnd
  <2> QED
    BY <1>2, <2>1, <2>2
<1>5. Full(Target)
  BY <1>3, <1>4 DEF Full
<1>6. pc \in Placed
  BY <1>0 DEF Fetching, Placed, CacheDone, ArchiveDone, KitDone
<1>7. Place(want) = place => Blocked(want)
  <2>1. PICK f \in {Manifest(place), Shard(place), Draft, Packed} : Full(f)
    BY <1>1, <1>5
  <2> QED
    BY <2>1 DEF Blocked
<1> QED
  BY <1>3, <1>6, <1>7, SameChoice

\* The receipts of the model, and the reuse of a prepared host.
LEMMA ReceiptRefusals ==
  ASSUME AssetInv, RetryInv, Fails, Reuse \/ CheckReceipt \/ VerifyFull
  PROVE  Blocked(want) \/ CutDraft(want)
<1>0. /\ want \in Revisions /\ DoneInv /\ place \in Dirs /\ NoRev \notin Revisions
      /\ Revisions \subseteq Dirs /\ "model" \in Dirs /\ Place(want) \in Dirs
      /\ draftOk \in {"missing", "torn", "pinned"}
  BY AssetAssumption, Named DEF AssetInv, AssetTypeOK, Place
<1>1. CASE Reuse
  <2>1. pointer = want /\ ~Reusable(want)
    BY <1>1 DEF Reuse, Fails, Goto, Raise
  <2>2. pointer # NoRev
    BY <1>0, <2>1
  <2>3. tableOk = TableStamp /\ want \in sourceOk /\ path[Draft] = "pinned"
    BY <2>1, <2>2 DEF RetryInv, AssetInv, FileInv, PointerInv, Shared
  <2>4. draftOk # "missing" /\ Installed(want)
    BY <2>1, <2>2 DEF RetryInv
  <2>5. CASE draftOk = "torn"
    BY <2>1, <2>5 DEF CutDraft
  <2>6. CASE draftOk = "pinned"
    <3>1. ~ReceiptHolds(Place(want))
      BY <2>1, <2>3, <2>6 DEF Reusable
    <3> QED
      BY <1>0, <2>4, <3>1, ReceiptRefused DEF Installed
  <2> QED
    BY <1>0, <2>4, <2>5, <2>6
<1>2. CASE CheckReceipt \/ VerifyFull
  <2>1. pc = "receipt" /\ path[Manifest(place)] = "pinned" /\ path[Shard(place)] = "pinned"
    BY <1>0, <1>2 DEF CheckReceipt, VerifyFull, DoneInv, ShardDone, ManifestDone, Placed,
       CacheDone, ArchiveDone, KitDone, Phases
  <2>2. Place(want) = place
    BY <2>1, SameChoice DEF Elsewhere, Placed, CacheDone, ArchiveDone, KitDone, Phases
  <2>3. CASE CheckReceipt
    <3>1. receipt[place] # None /\ (receipt[place] = Torn \/ ~ReceiptHolds(place))
      BY <2>3 DEF CheckReceipt, Fails, Goto
    <3>2. receipt[place] = Torn => ~ReceiptHolds(place)
      BY <2>1 DEF ReceiptHolds, Stamp, Torn
    <3> QED
      BY <1>0, <2>1, <2>2, <3>1, <3>2, ReceiptRefused
  <2>4. CASE VerifyFull
    <3>1. ~Inventory(place)
      BY <2>1, <2>4 DEF VerifyFull, Fails, Goto
    <3> QED
      BY <1>0, <2>1, <2>2, <3>1, ReceiptRefused
  <2> QED
    BY <1>2, <2>3, <2>4
<1> QED
  BY <1>1, <1>2

\* The steps that can raise, and that they leave the disk as it is.
LEMMA WhatRaises ==
  ASSUME Next, Fails
  PROVE  /\ \/ VerifyKit \/ CopiedArchive \/ FindArchive \/ FindCache \/ CheckTables \/ TableOpen
            \/ TableDiffers \/ SourceTemp
            \/ FetchExisting \/ Answered \/ FetchEnd
            \/ Reuse \/ CheckReceipt \/ VerifyFull
         /\ UNCHANGED <<path, part, modelDir, home, linked, receipt, want>>
<1> USE DEF Fails, Goto, Raise
<1>1. ~(CopyKit \/ CopiedKit \/ CopyArchive \/ CopyBlock \/ StageCache \/ ExtractBlock
        \/ RenameCache \/ ChoosePlace \/ LinkShard \/ FetchBegin \/ FetchBlock)
  BY DEF CopyKit, CopiedKit, CopyArchive, CopyBlock, StageCache, ExtractBlock, RenameCache,
     ChoosePlace, LinkShard, FetchBegin, FetchBlock, run
<1>2. ~(WriteReceipt \/ WriteDraftReceipt \/ TableBlock \/ TableLink \/ TableUnlink
        \/ TableReceipt \/ SourceBegin \/ SourceWritten \/ SourceReceipt \/ Point \/ Stop
        \/ \E r \in Revisions : Prepare(r))
  BY DEF WriteReceipt, WriteDraftReceipt, TableBlock, TableLink, TableUnlink, TableReceipt,
     SourceBegin, SourceWritten, SourceReceipt, Point, Stop, Prepare
<1>3. \/ VerifyKit \/ CopiedArchive \/ FindArchive \/ FindCache \/ CheckTables \/ TableOpen
      \/ TableDiffers \/ SourceTemp
      \/ FetchExisting \/ Answered \/ FetchEnd
      \/ Reuse \/ CheckReceipt \/ VerifyFull
  BY <1>1, <1>2 DEF Next, Step
<1>4. AfterFetch # "idle"
  BY DEF AfterFetch
<1>5. CASE VerifyKit \/ FindArchive \/ FindCache \/ CheckTables \/ TableDiffers \/ FetchExisting
           \/ Reuse \/ CheckReceipt
  BY <1>5 DEF VerifyKit, FindArchive, FindCache, CheckTables, TableDiffers, FetchExisting, Reuse,
     CheckReceipt, disk, places, records
<1>6. CASE CopiedArchive \/ Answered \/ SourceTemp
  BY <1>6 DEF CopiedArchive, Answered, SourceTemp, Fetching, places, records
<1>7. CASE TableOpen
  BY <1>7 DEF TableOpen, places, records
<1>8. CASE VerifyFull
  BY <1>8 DEF VerifyFull, places
<1>9. CASE FetchEnd
  <2>1. part[Target] # Whole
    BY <1>4, <1>9 DEF FetchEnd
  <2> QED
    BY <1>9, <2>1 DEF FetchEnd, records
<1> QED
  BY <1>3, <1>5, <1>6, <1>7, <1>8, <1>9

LEMMA RaiseBlocked ==
  ASSUME AssetInv, RetryInv, Next, Fails
  PROVE  Blocked(want)' \/ CutDraft(want) \/ Elsewhere
<1>1. Blocked(want) \/ CutDraft(want) \/ Elsewhere
  BY WhatRaises, SharedRefusals, FetchRefusals, ReceiptRefusals
<1>2. UNCHANGED <<path, part, modelDir, home, linked, receipt, want>>
  BY WhatRaises
<1>3. Place(want)' = Place(want)
  BY <1>2 DEF Place
<1>4. Blocked(want) => Blocked(want)'
  BY <1>2, <1>3 DEF Blocked, Full, Stamp, Links
<1> QED
  BY <1>1, <1>4

\* The safety core of RetriesPrepare: of the interruptions, faults and orders of
\* preparations that a host can have behind it, none but the listed ways of
\* blocking the disk, a receipt of the draft cut under another revision, and the
\* refusal of the very first manifest, makes a preparation raise on its own
\* (bootstrap, registry and engram_assets: every other raise is unreachable, and
\* whatever raised is still there for the operator to inspect).
THEOREM RaisesOnlyWhenBlocked == Spec => RaisesWhenBlocked
<1>1. AssetInv /\ RetryInv /\ [Next]_vars
      => [Fails => Blocked(want)' \/ CutDraft(want) \/ Elsewhere]_vars
  BY RaiseBlocked
<1> QED
  BY <1>1, AssetInvariant, RetryInvariant, PTL DEF Spec, RaisesWhenBlocked

-----------------------------------------------------------------------------
(* What blocks a revision blocks it for good.                                *)

\* The conditions of Blocked, less what the running preparation has under way.
Mid(f) == io = "write" /\ pc \in Fetching /\ f = Target
KitCut(r) == path[Kit(r)] = "partial" /\ ~(pc = "frozen" /\ want = r)
StagedCut ==
  \/ path[Archive] = "none" /\ part[Archive] # NoPart /\ pc # "copied"
  \/ path[Cache] = "none" /\ part[Cache] # NoPart /\ pc # "extracted"
TableBad == path[Table] = "none" /\ part[Table] # NoPart /\ ~part[Table].good
FullLeft(f) == Full(f) /\ ~Mid(f)
ReceiptOld(d) == receipt[d] \notin {None, Stamp(d)} /\ ~(pc = "stamp" /\ place = d)
ShardBeside(d) == path[Shard(d)] # "none" /\ part[Shard(d)] # NoPart
SourceBeside(r) == part[Source(r)] # NoPart /\ ~(pc = "source rename" /\ want = r)
StuckIn(d) == FullLeft(Manifest(d)) \/ FullLeft(Shard(d)) \/ ReceiptOld(d) \/ ShardBeside(d)
Stuck(r) ==
  \/ KitCut(r) \/ StagedCut \/ TableBad \/ FullLeft(Draft) \/ FullLeft(Packed)
  \/ StuckIn(Place(r)) \/ SourceBeside(r)

\* Before root/model has its manifest, nothing else of a model is on the host.
Fresh == ~modelDir \/ (pc = "manifest" /\ place = "model" /\ home = NoRev)
FreshDir(d) ==
  /\ receipt[d] = None /\ path[Shard(d)] = "none" /\ part[Shard(d)] = NoPart
  /\ d # "model" \/ ~modelDir => part[Manifest(d)] = NoPart

\* The links of a shard only grow after its receipt, and the directory of the
\* stand-ins is closed by theirs.
StuckInv ==
  /\ Fresh => \A d \in Dirs : FreshDir(d)
  /\ \A d \in Dirs : receipt[d] # None =>
       path[Shard(d)] = "pinned" /\ (receipt[d] # Torn => receipt[d][2] <= Links(d))
  /\ \A r \in sourceOk : part[Source(r)] = NoPart

Completes == pc # "idle" /\ pc' = "idle" /\ why' = "prepared"

StuckForGood ==
  [][\A r \in Revisions : Stuck(r) => Stuck(r)' /\ ~(Completes /\ want = r)]_vars

\* Which step writes a shard.
LEMMA ShardWritten ==
  ASSUME AssetInv, Next, NEW d \in Dirs, path'[Shard(d)] # path[Shard(d)]
  PROVE  /\ pc = "shard" /\ d = place /\ path'[Shard(d)] = "pinned"
         /\ path[Shard(d)] = "none" /\ (LinkShard \/ FetchEnd)
<1>0. /\ AssetTypeOK /\ WorkInv /\ Shard(d) \in Files /\ want \in Revisions /\ place \in Dirs
      /\ path \in [Files -> {"none", "partial", "pinned", "other"}]
      /\ Shard(d) \notin {Kit(want), Source(want), Archive, Cache, Table, Draft, Packed}
      /\ \A e \in Dirs : Shard(d) # Manifest(e) /\ (Shard(d) = Shard(e) => d = e)
  BY Named, Apart DEF AssetInv, AssetTypeOK
<1>1. ~Records
  BY RecordsWriteNone
<1>2. ~(CopyKit \/ CopiedKit \/ CopyArchive \/ CopyBlock \/ CopiedArchive \/ StageCache
        \/ ExtractBlock \/ RenameCache)
  BY <1>0 DEF CopyKit, CopiedKit, CopyArchive, CopyBlock, CopiedArchive, StageCache, ExtractBlock,
     RenameCache, Publish
<1>3. ~(Answered \/ FetchBlock \/ TableOpen \/ TableBlock \/ TableLink \/ TableUnlink
        \/ SourceBegin \/ SourceWritten \/ SourceTemp \/ SourceReceipt)
  BY <1>0 DEF Answered, FetchBlock, TableOpen, TableBlock, TableLink, TableUnlink, SourceBegin,
     SourceWritten, SourceTemp, SourceReceipt
<1>4. CASE LinkShard
  <2>1. Writes(Shard(place), "pinned")
    BY <1>4, LinkIsPinned
  <2> QED
    BY <1>0, <1>4, <2>1 DEF Writes, LinkShard
<1>5. CASE FetchEnd
  <2>1. part[Target] = Whole /\ Target \in Files /\ Shard(d) = Target
    BY <1>0, <1>5, TargetNamed DEF FetchEnd, Publish
  <2>2. pc = "shard"
    BY <1>0, <1>5, <2>1, TargetNamed DEF FetchEnd, Fetching
  <2>3. d = place
    BY <1>0, <1>5, <2>1, <2>2, TargetNamed DEF FetchEnd
  <2>4. path'[Shard(d)] = "pinned" /\ path[Shard(d)] = "none"
    BY <1>0, <1>5, <2>1 DEF FetchEnd, Publish, WorkInv
  <2> QED
    BY <1>5, <2>2, <2>3, <2>4
<1> QED
  BY <1>1, <1>2, <1>3, <1>4, <1>5, NextForm

\* Links come, and none goes; a shard that is there is not linked again.
LEMMA LinksGrow ==
  ASSUME AssetInv, Next, NEW d \in Dirs, path[Shard(d)] = "pinned"
  PROVE  Links(d) \in Nat /\ Links(d)' \in Nat /\ Links(d) <= Links(d)'
<1>0. IsFiniteSet(linked)
  BY DEF AssetInv, FileInv
<1>1. CASE linked' = linked
  BY <1>0, <1>1, FS_CardinalityType DEF Links
<1>2. CASE LinkShard /\ linked' = linked \cup {place}
  <2>1. d # place
    BY <1>2 DEF LinkShard
  <2>2. /\ Cardinality(linked) \in Nat /\ Cardinality(linked') \in Nat
        /\ Cardinality(linked) <= Cardinality(linked')
    <3>1. Cardinality(linked) \in Nat
      BY <1>0, FS_CardinalityType
    <3>2. Cardinality(linked \cup {place}) \in {Cardinality(linked), Cardinality(linked) + 1}
      BY <1>0, FS_AddElement
    <3> QED
      BY <1>2, <3>1, <3>2
  <2> QED
    BY <1>2, <2>1, <2>2 DEF Links
<1> QED
  BY <1>1, <1>2, RecordEffect

\* What is written on a host without a model.
LEMMA FreshStep ==
  ASSUME AssetInv, StuckInv, Next, Fresh', NEW d \in Dirs
  PROVE  FreshDir(d)'
<1>0. /\ AssetTypeOK /\ WorkInv /\ FileInv /\ want \in Revisions /\ place \in Dirs
      /\ NoRev \notin Revisions /\ pc \in Phases /\ "model" \in Dirs
      /\ part \in [Files -> Parts]
  BY AssetAssumption, Named DEF AssetInv, AssetTypeOK
<1>1. Fresh
  <2>1. CASE ~modelDir'
    BY <2>1, Stays DEF Fresh
  <2>2. CASE pc' = "manifest" /\ place' = "model" /\ home' = NoRev
    <3>1. home = NoRev
      BY <2>2, Stays
    <3>2. CASE To(pc)
      BY <2>2, <3>1, <3>2 DEF To, Fresh
    <3>3. CASE pc = "choose" /\ place' = Place(want)
      <4>1. ~modelDir
        BY <1>0, <2>2, <3>1, <3>3, AssetAssumption DEF Place
      <4> QED
        BY <4>1 DEF Fresh
    <3> QED
      BY <2>2, <3>2, <3>3, MovesStep DEF MovesOn, Ends, To
  <2> QED
    BY <2>1, <2>2 DEF Fresh
<1>2. FreshDir(d)
  BY <1>1 DEF StuckInv
<1>3. pc \in Placed => pc = "manifest" /\ place = "model" /\ home = NoRev
  <2>1. CASE modelDir
    BY <1>1, <2>1 DEF Fresh
  <2>2. CASE ~modelDir
    BY <1>0, <2>2 DEF AssetInv, PlaceInv, FileInv
  <2> QED
    BY <2>1, <2>2
<1>4. pc \notin {"shard", "receipt", "stamp"}
  BY <1>0, <1>3 DEF Placed, CacheDone, ArchiveDone, KitDone, Phases, Fetching
<1>5. receipt' = receipt
  BY <1>4, RecordEffect DEF VerifyFull, WriteReceipt
<1>6. path'[Shard(d)] = path[Shard(d)]
  BY <1>4, ShardWritten
<1>7. ASSUME NEW f \in {Shard(d), Manifest(d)}, part'[f] # part[f]
      PROVE  pc = "manifest" /\ place = "model" /\ f = Manifest("model") /\ modelDir
  <2>1. f \in Files /\ f \notin {Archive, Cache, Table, Source(want)}
    BY <1>0, Named, Apart
  <2>2. pc \in Fetching /\ f = Target
    BY <2>1, <1>7, PartStep DEF PartEffect, Busy
  <2>3. pc = "manifest" /\ place = "model"
    BY <1>0, <1>3, <2>2 DEF Fetching, Placed, CacheDone, ArchiveDone, KitDone
  <2>4. Answered \/ FetchBlock \/ FetchEnd
    BY <1>7, <2>2, NextForm, RecordsWriteNone DEF CopyKit, CopiedKit, CopyArchive, CopyBlock,
       CopiedArchive, StageCache, ExtractBlock, RenameCache, LinkShard, TableOpen, TableBlock,
       TableLink, TableUnlink, SourceBegin, SourceWritten, SourceTemp, SourceReceipt, Fetching
  <2>5. modelDir
    BY <1>0, <2>3, <2>4 DEF Answered, FetchBlock, FetchEnd, WorkInv
  <2> QED
    BY <1>0, <2>2, <2>3, <2>5, TargetNamed
<1>8. part'[Shard(d)] = part[Shard(d)]
  BY <1>0, <1>7, Apart
<1>9. d # "model" \/ ~modelDir' => part'[Manifest(d)] = NoPart
  <2>1. ~modelDir' => ~modelDir
    BY Stays
  <2>2. d # "model" \/ ~modelDir => part'[Manifest(d)] = part[Manifest(d)]
    BY <1>0, <1>7, Apart
  <2> QED
    BY <1>2, <2>1, <2>2 DEF FreshDir
<1> QED
  BY <1>2, <1>5, <1>6, <1>8, <1>9 DEF FreshDir

LEMMA StuckInvStep ==
  ASSUME AssetInv, StuckInv, Next
  PROVE  StuckInv'
<1>0. /\ AssetTypeOK /\ DoneInv /\ TableInv /\ want \in Revisions /\ place \in Dirs
      /\ receipt \in [Dirs -> {None, Torn} \cup ({"pinned"} \X (Nat \ {0}))]
      /\ part \in [Files -> Parts] /\ sourceOk \subseteq Revisions /\ Torn # None
  BY DEF AssetInv, AssetTypeOK, Torn, None
<1>1. Fresh' => \A d \in Dirs : FreshDir(d)'
  BY FreshStep
<1>2. ASSUME NEW d \in Dirs, receipt'[d] # None
      PROVE  path'[Shard(d)] = "pinned" /\ (receipt'[d] # Torn => receipt'[d][2] <= Links(d)')
  <2>1. CASE receipt'[d] = receipt[d]
    <3>1. path[Shard(d)] = "pinned" /\ (receipt[d] # Torn => receipt[d][2] <= Links(d))
      BY <1>2, <2>1 DEF StuckInv
    <3>2. path'[Shard(d)] = "pinned" /\ Links(d) \in Nat /\ Links(d)' \in Nat /\ Links(d) <= Links(d)'
      BY <3>1, NamesStay, LinksGrow
    <3>3. receipt[d] # Torn => receipt[d][2] \in Nat
      BY <1>0, <1>2, <2>1
    <3> QED
      BY <2>1, <3>1, <3>2, <3>3
  <2>2. CASE receipt'[d] # receipt[d]
    <3>1. (VerifyFull \/ WriteReceipt) /\ d = place
      BY <1>0, <2>2, RecordEffect DEF VerifyFull, WriteReceipt
    <3>2. path[Shard(place)] = "pinned"
      BY <1>0, <3>1 DEF VerifyFull, WriteReceipt, DoneInv, ShardDone, ManifestDone, Placed,
         CacheDone, ArchiveDone, KitDone, Phases
    <3>3. path'[Shard(d)] = "pinned"
      BY <3>1, <3>2, NamesStay
    <3>4. CASE VerifyFull
      BY <1>0, <2>2, <3>1, <3>3, <3>4 DEF VerifyFull
    <3>5. CASE WriteReceipt
      <4>1. receipt'[d] = Stamp(d) /\ linked' = linked
        BY <1>0, <3>1, <3>5 DEF WriteReceipt, places
      <4>2. Stamp(d)[2] = Links(d) /\ Links(d)' = Links(d)
        BY <4>1 DEF Stamp, Links
      <4>3. Links(d) \in Nat
        BY <1>2, <3>1, <3>2, LinksGrow
      <4> QED
        BY <3>3, <4>1, <4>2, <4>3
    <3> QED
      BY <3>1, <3>4, <3>5
  <2> QED
    BY <2>1, <2>2
<1>3. ASSUME NEW r \in Revisions, r \in sourceOk'
      PROVE  part'[Source(r)] = NoPart
  <2>1. Source(r) \in Files /\ Source(want) \in Files /\ (Source(r) = Source(want) => r = want)
        /\ Source(r) \notin {Archive, Cache, Table}
    BY <1>0, Named, Apart
  <2>2. CASE r \in sourceOk
    <3>1. ~Busy(Source(r))
      BY <1>0, <2>1, <2>2, TargetNamed DEF Busy, TableInv
    <3>2. part'[Source(r)] = part[Source(r)]
      BY <2>1, <3>1, PartStep DEF PartEffect
    <3> QED
      BY <2>2, <3>2 DEF StuckInv
  <2>3. CASE r \notin sourceOk
    <3>1. SourceReceipt /\ r = want
      BY <1>3, <2>3, RecordEffect DEF SourceReceipt
    <3> QED
      BY <1>0, <2>1, <3>1 DEF SourceReceipt
  <2> QED
    BY <2>2, <2>3
<1>4. sourceOk' \subseteq Revisions
  BY RecordTypes DEF RecordTypeOK
<1> QED
  BY <1>1, <1>2, <1>3, <1>4 DEF StuckInv

LEMMA StuckInvariant == Spec => []StuckInv
<1>1. Init => StuckInv
  BY Named DEF Init, StuckInv, FreshDir
<1>2. AssetInv /\ StuckInv /\ UNCHANGED vars => StuckInv'
  BY DEF StuckInv, Fresh, FreshDir, Links, vars, disk, run, places, records
<1>3. AssetInv /\ StuckInv /\ [Next]_vars => StuckInv'
  BY <1>2, StuckInvStep
<1> QED
  BY <1>1, <1>3, AssetInvariant, PTL DEF Spec

\* The directory of a revision changes only on a host without a model, where
\* nothing in it stands in the way.
LEMMA PlaceSettled ==
  ASSUME AssetInv, StuckInv, Next, NEW r \in Revisions, StuckIn(Place(r))
  PROVE  Place(r)' = Place(r) /\ Place(r) \in Dirs
<1>0. /\ AssetTypeOK /\ WorkInv /\ NoRev \notin Revisions /\ want \in Revisions
      /\ Revisions \subseteq Dirs /\ "model" \in Dirs /\ Blocks \in Nat \ {0} /\ r # "model"
      /\ place \in Dirs
  BY AssetAssumption, Named, Apart DEF AssetInv, AssetTypeOK
<1>1. Place(r) \in Dirs
  BY <1>0 DEF Place
<1>2. ASSUME Fresh, Place(r) # "model" \/ ~modelDir
      PROVE  FALSE
  <2>1. FreshDir(Place(r)) /\ part[Manifest(Place(r))] = NoPart
    BY <1>1, <1>2 DEF StuckInv, FreshDir
  <2>2. NoPart.len # Blocks
    BY <1>0 DEF NoPart
  <2> QED
    BY <2>1, <2>2 DEF StuckIn, FreshDir, FullLeft, Full, ReceiptOld, ShardBeside
<1>3. CASE ~modelDir
  BY <1>2, <1>3 DEF Fresh
<1>4. CASE modelDir /\ home' = home
  <2>1. modelDir'
    BY <1>4, Stays
  <2> QED
    BY <1>1, <1>4, <2>1 DEF Place
<1>5. CASE modelDir /\ home' # home
  <2>1. FetchEnd /\ Target = Manifest("model") /\ home = NoRev
    BY <1>5, RecordEffect, Stays
  <2>2. pc = "manifest" /\ place = "model"
    BY <1>0, <2>1, TargetNamed, Named, Apart DEF FetchEnd, Fetching
  <2>3. Place(r) = r
    BY <1>0, <1>5, <2>1 DEF Place
  <2> QED
    BY <1>0, <1>2, <2>1, <2>2, <2>3 DEF Fresh
<1> QED
  BY <1>3, <1>4, <1>5

\* Which steps stage, copy and mark.
LEMMA Enters ==
  ASSUME Next
  PROVE  /\ pc' = "frozen" => CopyKit
         /\ pc' = "copied" => CopyArchive \/ CopyBlock
         /\ pc' = "extracted" => StageCache \/ ExtractBlock
         /\ pc' = "stamp" => VerifyFull
         /\ pc' = "source rename" => SourceTemp
<1> DEFINE Marks == {"frozen", "copied", "extracted", "stamp", "source rename"}
<1>1. Records => pc' \notin Marks \/ (VerifyFull /\ pc' = "stamp")
  BY DEF Records, VerifyKit, Reuse, FindArchive, FindCache, ChoosePlace, FetchExisting,
     CheckReceipt, CheckTables, TableDiffers, VerifyFull, WriteReceipt, WriteDraftReceipt,
     TableReceipt, FetchBegin, Point, Stop, Prepare, Goto, Raise, Fetching, AfterFetch
<1>2. /\ CopyKit => pc' = "frozen"
      /\ CopyArchive \/ CopyBlock => pc' = "copied"
      /\ StageCache \/ ExtractBlock => pc' = "extracted"
      /\ SourceTemp => pc' \in {"idle", "source rename"}
  BY DEF CopyKit, CopyArchive, CopyBlock, StageCache, ExtractBlock, SourceTemp, Goto, Raise, run
<1>3. CopiedKit \/ CopiedArchive \/ RenameCache \/ LinkShard \/ Answered \/ FetchBlock \/ FetchEnd
      => pc' \notin Marks
  BY DEF CopiedKit, CopiedArchive, RenameCache, LinkShard, Answered, FetchBlock, FetchEnd, Goto,
     Raise, run, Fetching, AfterFetch
<1>4. TableOpen \/ TableBlock \/ TableLink \/ TableUnlink \/ SourceBegin \/ SourceWritten \/ SourceReceipt
      => pc' \notin Marks
  BY DEF TableOpen, TableBlock, TableLink, TableUnlink, SourceBegin, SourceWritten, SourceReceipt,
     Goto, Raise
<1> QED
  BY <1>1, <1>2, <1>3, <1>4, NextForm

LEMMA KitCutStays ==
  ASSUME AssetInv, Next, NEW r \in Revisions, KitCut(r)
  PROVE  KitCut(r)'
<1>0. /\ AssetTypeOK /\ want \in Revisions /\ place \in Dirs /\ Kit(r) \in Files
      /\ (Kit(r) = Kit(want) => r = want) /\ Kit(r) # Source(want)
      /\ Kit(r) \notin {Archive, Cache, Shard(place), Table}
      /\ (pc \in Fetching => Target # Kit(r))
      /\ path[Kit(r)] = "partial"
  BY Named, Apart, TargetNamed DEF AssetInv, AssetTypeOK, KitCut
<1>1. path'[Kit(r)] = "partial"
  <2>1. CASE r = want
    <3>1. ~CopiedKit
      BY <2>1 DEF KitCut, CopiedKit
    <3>2. path'[Kit(r)] = path[Kit(r)]
      BY <1>0, <3>1, NextForm, RecordsWriteNone, LinkIsPinned, TargetNamed DEF CopyKit, CopyArchive,
         CopyBlock, CopiedArchive, StageCache, ExtractBlock, RenameCache, LinkShard, Answered,
         FetchBlock, FetchEnd, TableOpen, TableBlock, TableLink, TableUnlink, SourceBegin,
         SourceWritten, SourceTemp, SourceReceipt, Publish, AssetTypeOK
    <3> QED
      BY <1>0, <3>2
  <2>2. CASE r # want
    BY <1>0, <2>2, PathStep DEF PathEffect, Writes, AssetTypeOK, FetchEnd
  <2> QED
    BY <2>1, <2>2
<1>2. ~(pc' = "frozen" /\ want' = r)
  <2>1. ASSUME pc' = "frozen", want' = r
        PROVE  FALSE
    <3>1. CopyKit
      BY <2>1, Enters
    <3> QED
      BY <1>0, <2>1, <3>1 DEF CopyKit, Goto
  <2> QED
    BY <2>1
<1> QED
  BY <1>1, <1>2 DEF KitCut

\* A name is written only in its own phases.
LEMMA SharedNames ==
  ASSUME AssetInv, Next
  PROVE  /\ path'[Archive] # path[Archive] => CopiedArchive
         /\ path'[Cache] # path[Cache] => RenameCache
         /\ path'[Table] # path[Table] => TableLink
<1>0. /\ AssetTypeOK /\ want \in Revisions /\ place \in Dirs
      /\ {Archive, Cache, Table} \subseteq Files
      /\ Archive # Cache /\ Table \notin {Archive, Cache}
      /\ {Archive, Cache, Table} \cap {Kit(want), Source(want), Shard(place)} = {}
      /\ (pc \in Fetching => Target \notin {Archive, Cache, Table})
  BY Named, Apart, TargetNamed DEF AssetInv, AssetTypeOK
<1>1. CASE Records \/ CopyArchive \/ CopyBlock \/ StageCache \/ ExtractBlock \/ Answered
           \/ FetchBlock \/ TableOpen \/ TableBlock \/ TableUnlink \/ SourceTemp \/ SourceReceipt
  BY <1>1, RecordsWriteNone DEF CopyArchive, CopyBlock, StageCache, ExtractBlock, Answered,
     FetchBlock, TableOpen, TableBlock, TableUnlink, SourceTemp, SourceReceipt
<1>2. CASE CopyKit \/ CopiedKit \/ SourceBegin \/ SourceWritten \/ LinkShard \/ FetchEnd
  BY <1>0, <1>2 DEF CopyKit, CopiedKit, SourceBegin, SourceWritten, LinkShard, FetchEnd,
     Publish, AssetTypeOK
<1>3. CASE CopiedArchive \/ RenameCache \/ TableLink
  BY <1>0, <1>3 DEF CopiedArchive, RenameCache, TableLink, Publish, AssetTypeOK
<1> QED
  BY <1>1, <1>2, <1>3, NextForm

LEMMA StagedCutStays ==
  ASSUME AssetInv, Next, StagedCut
  PROVE  StagedCut'
<1>0. AssetTypeOK /\ want \in Revisions /\ {Archive, Cache} \subseteq Files
      /\ Archive # Cache /\ Table \notin {Archive, Cache}
      /\ {Archive, Cache} \cap {Source(want)} = {}
      /\ (pc \in Fetching => Target \notin {Archive, Cache})
  BY Named, Apart, TargetNamed DEF AssetInv, AssetTypeOK
<1>1. CASE path[Archive] = "none" /\ part[Archive] # NoPart /\ pc # "copied"
  <2>1. path'[Archive] = "none"
    BY <1>1, SharedNames DEF CopiedArchive
  <2>2. ~CopyArchive /\ ~CopyBlock
    BY <1>1 DEF CopyArchive, CopyBlock
  <2>3. part'[Archive] = part[Archive]
    <3>1. CASE pc = "archive"
      BY <2>2, <3>1, NextForm, RecordsWriteNone DEF CopyKit, CopiedKit, CopiedArchive, StageCache,
         ExtractBlock, RenameCache, LinkShard, Answered, FetchBlock, FetchEnd, TableOpen,
         TableBlock, TableLink, TableUnlink, SourceBegin, SourceWritten, SourceTemp,
         SourceReceipt, Fetching
    <3>2. CASE pc # "archive"
      BY <1>0, <1>1, <3>2, PartStep DEF PartEffect, Busy
    <3> QED
      BY <3>1, <3>2
  <2> QED
    BY <1>1, <2>1, <2>2, <2>3, Enters DEF StagedCut
<1>2. CASE path[Cache] = "none" /\ part[Cache] # NoPart /\ pc # "extracted"
  <2>1. path'[Cache] = "none"
    BY <1>2, SharedNames DEF RenameCache
  <2>2. ~StageCache /\ ~ExtractBlock
    BY <1>2 DEF StageCache, ExtractBlock
  <2>3. part'[Cache] = part[Cache]
    <3>1. CASE pc = "extract"
      BY <2>2, <3>1, NextForm, RecordsWriteNone DEF CopyKit, CopiedKit, CopyArchive, CopyBlock,
         CopiedArchive, RenameCache, LinkShard, Answered, FetchBlock, FetchEnd, TableOpen,
         TableBlock, TableLink, TableUnlink, SourceBegin, SourceWritten, SourceTemp,
         SourceReceipt, Fetching
    <3>2. CASE pc # "extract"
      BY <1>0, <1>2, <3>2, PartStep DEF PartEffect, Busy
    <3> QED
      BY <3>1, <3>2
  <2> QED
    BY <1>2, <2>1, <2>2, <2>3, Enters DEF StagedCut
<1> QED
  BY <1>1, <1>2 DEF StagedCut

LEMMA TableBadStays ==
  ASSUME AssetInv, Next, TableBad
  PROVE  TableBad'
<1>0. /\ AssetTypeOK /\ TableInv /\ want \in Revisions /\ Table \in Files
      /\ Table \notin {Archive, Cache, Source(want)}
      /\ (pc \in Fetching => Target # Table)
      /\ path[Table] = "none" /\ part[Table] # NoPart /\ ~part[Table].good
  BY Named, Apart, TargetNamed DEF AssetInv, AssetTypeOK, TableBad
<1>1. ~TableLink
  <2>1. Whole.good
    BY DEF Whole
  <2> QED
    BY <1>0, <2>1 DEF TableLink
<1>2. path'[Table] = "none"
  BY <1>0, <1>1, SharedNames
<1>3. ~TableBlock /\ pc # "unlink"
  BY <1>0 DEF TableBlock, TableInv
<1>4. part'[Table] = part[Table]
  <2>1. CASE pc = "table"
    <3>1. TableOpen => part'[Table] = part[Table]
      BY <1>0 DEF TableOpen, AssetTypeOK
    <3> QED
      BY <1>3, <2>1, <3>1, NextForm, RecordsWriteNone DEF CopyKit, CopiedKit, CopyArchive, CopyBlock,
         CopiedArchive, StageCache, ExtractBlock, RenameCache, LinkShard, Answered, FetchBlock,
         FetchEnd, TableLink, TableUnlink, SourceBegin, SourceWritten, SourceTemp,
         SourceReceipt, Fetching
  <2>2. CASE pc # "table"
    BY <1>0, <1>3, <2>2, PartStep DEF PartEffect, Busy
  <2> QED
    BY <2>1, <2>2
<1> QED
  BY <1>0, <1>2, <1>4 DEF TableBad

LEMMA SourceBesideStays ==
  ASSUME AssetInv, Next, NEW r \in Revisions, SourceBeside(r)
  PROVE  SourceBeside(r)'
<1>0. /\ AssetTypeOK /\ want \in Revisions /\ Source(r) \in Files
      /\ Source(r) \notin {Archive, Cache, Table} /\ (Source(r) = Source(want) => r = want)
      /\ (pc \in Fetching => Target # Source(r))
      /\ part[Source(r)] # NoPart
  BY Named, Apart, TargetNamed DEF AssetInv, AssetTypeOK, SourceBeside
<1>1. part'[Source(r)] = part[Source(r)]
  <2>1. CASE pc = "source receipt" /\ r = want
    <3>1. SourceTemp => part' = part
      BY <1>0, <2>1 DEF SourceTemp
    <3> QED
      BY <2>1, <3>1, NextForm, RecordsWriteNone DEF CopyKit, CopiedKit, CopyArchive, CopyBlock,
         CopiedArchive, StageCache, ExtractBlock, RenameCache, LinkShard, Answered, FetchBlock,
         FetchEnd, TableOpen, TableBlock, TableLink, TableUnlink, SourceBegin, SourceWritten,
         SourceReceipt, Fetching
  <2>2. CASE ~(pc = "source receipt" /\ r = want)
    BY <1>0, <2>2, PartStep DEF PartEffect, Busy, SourceBeside
  <2> QED
    BY <2>1, <2>2
<1>2. ~(pc' = "source rename" /\ want' = r)
  <2>1. SourceTemp /\ want' = r => pc' # "source rename"
    BY <1>0 DEF SourceTemp, Goto, Raise
  <2> QED
    BY <2>1, Enters
<1> QED
  BY <1>0, <1>1, <1>2 DEF SourceBeside

\* A full download is being written only if it was before.
LEMMA MidStays ==
  ASSUME AssetInv, Next, NEW f, Mid(f)'
  PROVE  Mid(f) \/ part[f].len # Blocks
<1>1. AssetTypeOK /\ WorkInv
  BY DEF AssetInv
<1>2. pc' \in Fetching /\ io' = "write" /\ f = Target'
  BY DEF Mid
<1>3. CASE Answered
  <2>1. pc' = pc /\ place' = place /\ part[Target].len # Blocks
    BY <1>2, <1>3 DEF Answered, Raise
  <2> QED
    BY <1>2, <2>1 DEF Target
<1>4. CASE FetchBlock
  <2>1. pc' = pc /\ place' = place /\ io = "write" /\ pc \in Fetching
    BY <1>4 DEF FetchBlock
  <2> QED
    BY <1>2, <2>1 DEF Target, Mid
<1>5. ~Records
  BY <1>1, <1>2 DEF Records, VerifyKit, Reuse, FindArchive, FindCache, ChoosePlace, FetchExisting,
     CheckReceipt, CheckTables, TableDiffers, VerifyFull, WriteReceipt, WriteDraftReceipt,
     TableReceipt, FetchBegin, Point, Stop, Prepare, Goto, Raise, WorkInv, Fetching
<1>6. ~(CopyKit \/ CopiedKit \/ CopyArchive \/ CopyBlock \/ CopiedArchive \/ StageCache
        \/ ExtractBlock \/ RenameCache \/ LinkShard \/ FetchEnd)
  BY <1>2 DEF CopyKit, CopiedKit, CopyArchive, CopyBlock, CopiedArchive, StageCache,
     ExtractBlock, RenameCache, LinkShard, FetchEnd, run, Goto, Raise, Fetching
<1>7. ~(TableOpen \/ TableBlock \/ TableLink \/ TableUnlink \/ SourceBegin \/ SourceWritten
        \/ SourceTemp \/ SourceReceipt)
  BY <1>2 DEF TableOpen, TableBlock, TableLink, TableUnlink, SourceBegin, SourceWritten, SourceTemp,
     SourceReceipt, Goto, Raise, Fetching
<1> QED
  BY <1>3, <1>4, <1>5, <1>6, <1>7, NextForm

\* A full partial file is not touched, but a shard may be linked beside it.
LEMMA FullStays ==
  ASSUME AssetInv, Next, NEW d \in Dirs, NEW f \in {Manifest(d), Shard(d), Draft, Packed},
         FullLeft(f)
  PROVE  FullLeft(f)' \/ (f = Shard(d) /\ ShardBeside(d)')
<1>0. /\ AssetTypeOK /\ f \in Files /\ want \in Revisions /\ place \in Dirs
      /\ f \notin {Kit(want), Archive, Cache, Table, Source(want)}
      /\ path[f] = "none" /\ part[f].len = Blocks /\ ~Mid(f) /\ Blocks \in Nat \ {0}
  BY AssetAssumption, Named, Apart DEF AssetInv, AssetTypeOK, FullLeft, Full
<1>1. ~Mid(f)'
  BY <1>0, MidStays
<1>2. part'[f] = part[f]
  <2>1. CASE pc \in Fetching /\ f = Target
    <3>1. ~FetchBlock /\ ~FetchEnd
      BY <1>0, <2>1 DEF FetchBlock, FetchEnd, Mid
    <3>2. Answered => part' = part
      BY <1>0, <2>1 DEF Answered
    <3> QED
      BY <2>1, <3>1, <3>2, NextForm, RecordsWriteNone DEF CopyKit, CopiedKit, CopyArchive,
         CopyBlock, CopiedArchive, StageCache, ExtractBlock, RenameCache, LinkShard, TableOpen,
         TableBlock, TableLink, TableUnlink, SourceBegin, SourceWritten, SourceTemp,
         SourceReceipt, Fetching
  <2>2. CASE ~(pc \in Fetching /\ f = Target)
    BY <1>0, <2>2, PartStep DEF PartEffect, Busy
  <2> QED
    BY <2>1, <2>2
<1>3. CASE path'[f] = "none"
  BY <1>0, <1>1, <1>2, <1>3 DEF FullLeft, Full
<1>4. CASE path'[f] # "none"
  <2>1. ~(FetchEnd /\ Writes(Target, "pinned"))
    <3>1. ASSUME FetchEnd, Writes(Target, "pinned")
          PROVE  FALSE
      <4>1. Target \in Files /\ f # Target
        BY <1>0, <3>1, TargetNamed DEF FetchEnd, Mid
      <4> QED
        BY <1>0, <1>4, <3>1, <4>1 DEF Writes, AssetTypeOK
    <3> QED
      BY <3>1
  <2>2. f = Shard(place)
    BY <1>0, <1>4, <2>1, PathStep DEF PathEffect, Writes, AssetTypeOK
  <2>3. f = Shard(d)
    BY <1>0, <2>2, Apart
  <2>4. part'[f] # NoPart
    BY <1>0, <1>2 DEF NoPart
  <2> QED
    BY <1>4, <2>3, <2>4 DEF ShardBeside
<1> QED
  BY <1>3, <1>4

LEMMA ReceiptOldStays ==
  ASSUME AssetInv, StuckInv, Next, NEW d \in Dirs, ReceiptOld(d)
  PROVE  ReceiptOld(d)'
<1>0. /\ AssetTypeOK /\ place \in Dirs /\ receipt[d] # None
      /\ receipt[d] \in {Torn} \cup ({"pinned"} \X (Nat \ {0}))
  BY DEF AssetInv, AssetTypeOK, ReceiptOld
<1>1. path[Shard(d)] = "pinned" /\ (receipt[d] # Torn => receipt[d][2] <= Links(d))
  BY <1>0 DEF StuckInv
<1>2. path'[Shard(d)] = "pinned" /\ Links(d) \in Nat /\ Links(d)' \in Nat /\ Links(d) <= Links(d)'
  BY <1>1, NamesStay, LinksGrow
<1>3. receipt'[d] = receipt[d]
  <2>1. CASE VerifyFull
    BY <1>0, <2>1 DEF VerifyFull, AssetTypeOK
  <2>2. CASE WriteReceipt
    BY <1>0, <2>2 DEF WriteReceipt, AssetTypeOK, ReceiptOld
  <2> QED
    BY <2>1, <2>2, RecordEffect
<1>4. receipt[d] # Stamp(d)'
  <2>1. CASE receipt[d] = Torn
    BY <1>2, <2>1 DEF Stamp, Torn
  <2>2. CASE receipt[d] # Torn
    <3>1. receipt[d] = <<"pinned", receipt[d][2]>> /\ receipt[d][2] \in Nat
      BY <1>0, <2>2
    <3>2. receipt[d][2] # Links(d)
      BY <1>1, <3>1 DEF ReceiptOld, Stamp
    <3>3. receipt[d][2] # Links(d)'
      BY <1>1, <1>2, <2>2, <3>1, <3>2
    <3> QED
      BY <3>3 DEF Stamp
  <2> QED
    BY <2>1, <2>2
<1>5. ~(pc' = "stamp" /\ place' = d)
  <2>1. VerifyFull /\ place' = d => FALSE
    BY <1>0 DEF VerifyFull, Goto, Raise
  <2> QED
    BY <2>1, Enters
<1> QED
  BY <1>0, <1>3, <1>4, <1>5 DEF ReceiptOld

LEMMA ShardBesideStays ==
  ASSUME AssetInv, Next, NEW d \in Dirs, ShardBeside(d)
  PROVE  ShardBeside(d)'
<1>0. /\ Shard(d) \in Files /\ path[Shard(d)] # "none" /\ part[Shard(d)] # NoPart
      /\ want \in Revisions /\ Shard(d) \notin {Archive, Cache, Table, Source(want)}
  BY Named, Apart DEF AssetInv, AssetTypeOK, ShardBeside
<1>1. path'[Shard(d)] # "none"
  BY <1>0, ShardWritten
<1>2. part'[Shard(d)] = part[Shard(d)]
  <2>1. CASE pc \in Fetching
    BY <1>0, <2>1, Downloads
  <2>2. CASE pc \notin Fetching
    BY <1>0, <2>2, PartStep DEF PartEffect, Busy
  <2> QED
    BY <2>1, <2>2
<1> QED
  BY <1>0, <1>1, <1>2 DEF ShardBeside

LEMMA StuckStays ==
  ASSUME AssetInv, StuckInv, Next, NEW r \in Revisions, Stuck(r)
  PROVE  Stuck(r)'
<1>1. CASE KitCut(r) \/ StagedCut \/ TableBad \/ SourceBeside(r)
  BY <1>1, KitCutStays, StagedCutStays, TableBadStays, SourceBesideStays DEF Stuck
<1>2. CASE FullLeft(Draft) \/ FullLeft(Packed)
  <2>1. "model" \in Dirs /\ Draft # Shard("model") /\ Packed # Shard("model")
    BY Named, Apart
  <2> QED
    BY <1>2, <2>1, FullStays DEF Stuck
<1>3. CASE StuckIn(Place(r))
  <2>1. PICK d \in Dirs : d = Place(r) /\ d = Place(r)' /\ StuckIn(d)
    BY <1>3, PlaceSettled
  <2>2. StuckIn(d)'
    BY <2>1, FullStays, ReceiptOldStays, ShardBesideStays DEF StuckIn
  <2> QED
    BY <2>1, <2>2 DEF Stuck, StuckIn, FullLeft, Full, Mid, Target, ReceiptOld, ShardBeside, Stamp, Links
<1> QED
  BY <1>1, <1>2, <1>3 DEF Stuck

\* A preparation that comes to its end has found everything in place.
LEMMA CompletesClear ==
  ASSUME AssetInv, RetryInv, StuckInv, Next, Completes
  PROVE  ~Stuck(want)
<1>0. /\ want \in Revisions /\ DoneInv /\ TableInv /\ PlaceInv /\ FileInv /\ NoRev \notin Revisions
      /\ Place(want) \in Dirs /\ place \in Dirs
  BY AssetAssumption, Named DEF AssetInv, AssetTypeOK, Place
<1>1. (Reuse /\ pointer = want /\ Reusable(want)) \/ Point
  <2>1. ~Fails
    BY DEF Fails, Completes
  <2>2. /\ ~(VerifyKit \/ CopiedArchive \/ FindArchive \/ FindCache \/ FetchExisting \/ FetchEnd)
        /\ ~(CheckReceipt \/ VerifyFull \/ CheckTables \/ TableOpen \/ TableDiffers \/ SourceTemp)
        /\ ~Answered
    BY DEF Completes, VerifyKit, CopiedArchive, FindArchive, FindCache, FetchExisting, FetchEnd,
       CheckReceipt, VerifyFull, CheckTables, TableOpen, TableDiffers, SourceTemp, Answered,
       Goto, Raise, AfterFetch, Fetching
  <2>3. ~(CopyKit \/ CopiedKit \/ CopyArchive \/ CopyBlock \/ StageCache \/ ExtractBlock
          \/ RenameCache \/ ChoosePlace \/ LinkShard \/ FetchBegin \/ FetchBlock)
    BY DEF Completes, CopyKit, CopiedKit, CopyArchive, CopyBlock, StageCache, ExtractBlock, RenameCache,
       ChoosePlace, LinkShard, FetchBegin, FetchBlock, run, Goto
  <2>4. ~(WriteReceipt \/ WriteDraftReceipt \/ TableBlock \/ TableLink \/ TableUnlink
          \/ TableReceipt \/ SourceBegin \/ SourceWritten \/ SourceReceipt \/ Stop
          \/ \E r \in Revisions : Prepare(r))
    BY DEF Completes, WriteReceipt, WriteDraftReceipt, TableBlock, TableLink, TableUnlink, TableReceipt,
       SourceBegin, SourceWritten, SourceReceipt, Stop, Prepare, Goto
  <2>5. Reuse => pointer = want /\ Reusable(want)
    BY DEF Reuse, Completes, Goto, Raise
  <2> QED
    BY <2>2, <2>3, <2>4, <2>5 DEF Next, Step
<1>2. /\ path[Kit(want)] = "pinned"
      /\ \A f \in {Archive, Cache, Draft, Packed, Table} : path[f] = "pinned"
      /\ want \in sourceOk
      /\ path[Manifest(Place(want))] = "pinned" /\ ReceiptHolds(Place(want))
  <2>1. CASE Reuse /\ pointer = want /\ Reusable(want)
    <3>1. pc = "reuse" /\ pointer # NoRev
      BY <1>0, <2>1 DEF Reuse
    <3>2. Installed(want)
      BY <2>1, <3>1 DEF RetryInv
    <3> QED
      BY <1>0, <2>1, <3>1, <3>2 DEF AssetInv, PointerInv, Shared, Reusable, Installed
  <2>2. CASE Point
    <3>1. pc = "point"
      BY <2>2 DEF Point
    <3>2. Place(want) = place
      BY <1>0, <3>1, SameChoice DEF Elsewhere, Placed, CacheDone, ArchiveDone, KitDone, Phases
    <3>3. /\ path[Kit(want)] = "pinned" /\ path[Archive] = "pinned" /\ path[Cache] = "pinned"
          /\ path[Draft] = "pinned" /\ path[Manifest(place)] = "pinned" /\ ReceiptHolds(place)
      BY <1>0, <3>1 DEF DoneInv, ReceiptDone, DraftDone, ShardDone, ManifestDone, Placed,
         CacheDone, ArchiveDone, KitDone, Phases
    <3>4. tableOk # None /\ want \in sourceOk
      BY <1>0, <3>1 DEF TableInv, TableDone
    <3> QED
      BY <1>0, <3>2, <3>3, <3>4 DEF FileInv
  <2> QED
    BY <1>1, <2>1, <2>2
<1>3. part[Source(want)] = NoPart
  BY <1>2 DEF StuckInv
<1>4. ~StuckIn(Place(want))
  BY <1>2 DEF StuckIn, FullLeft, Full, ReceiptOld, ShardBeside, ReceiptHolds, Inventory
<1> QED
  BY <1>2, <1>3, <1>4 DEF Stuck, KitCut, StagedCut, TableBad, FullLeft, Full, SourceBeside

\* The other half: what Blocked names is no excuse that heals.  Once a run has
\* left one of those conditions on the disk, no preparation, of that revision or
\* of another, takes it away, and none of that revision comes to its end; between
\* two preparations, that is exactly Blocked.
THEOREM BlockedForGood ==
  Spec => StuckForGood /\ [](pc = "idle" => \A r \in Revisions : Blocked(r) <=> Stuck(r))
<1>1. AssetInv /\ RetryInv /\ StuckInv /\ [Next]_vars
      => [\A r \in Revisions : Stuck(r) => Stuck(r)' /\ ~(Completes /\ want = r)]_vars
  BY StuckStays, CompletesClear
<1>2. AssetInv => (pc = "idle" => \A r \in Revisions : Blocked(r) <=> Stuck(r))
  <2>1. ASSUME pc = "idle", NEW r \in Revisions
        PROVE  Blocked(r) <=> Stuck(r)
    <3>1. \A f : ~Mid(f)
      BY <2>1 DEF Mid, Fetching
    <3> QED
      BY <2>1, <3>1 DEF Blocked, Stuck, KitCut, StagedCut, TableBad, FullLeft, StuckIn, ReceiptOld,
         ShardBeside, SourceBeside
  <2> QED
    BY <2>1
<1> QED
  BY <1>1, <1>2, AssetInvariant, RetryInvariant, StuckInvariant, PTL DEF Spec, StuckForGood
=============================================================================

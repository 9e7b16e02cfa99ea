------------------------- MODULE StoredFiles_proofs -------------------------
(***************************************************************************)
(* Proofs about StoredFiles, for any number of requests, media,            *)
(* conversations and drafts.                                               *)
(*                                                                         *)
(* A file may be removed once no row points to it and none will: its own   *)
(* upload is the only request that can write its row, so the invariant     *)
(* follows what each upload may still write and what each deletion read.   *)
(***************************************************************************)
EXTENDS StoredFiles, TLAPS

\* The request that saved f writes no row any more.
Written(f) == req[f].pc \notin {"unused", "looked", "saved", "previous"}

\* f may go: no row needs it, or its own upload takes it back.
Expendable(f) ==
  /\ Written(f)
  /\ asset[f].status # "READY"
  /\ \A u \in Media : media[u].key # f
  /\ doc.key = f => req[f].late

FileOfUpload(f) == f # None => req[f].op = "TAX" /\ Written(f)

\* Each row was written by the request that saved its file.
RowsAreWritten ==
  /\ \A f \in Files : asset[f].status # "ABSENT" => req[f].op = "UPLOAD" /\ req[f].pc = "done"
  /\ \A u \in Media : Captured(u) => req[media[u].key].op = "CAPTURE" /\ req[media[u].key].pc = "done"
  /\ \A u, v \in Media : Captured(u) /\ media[u].key = media[v].key => u = v
  /\ FileOfUpload(doc.key)

\* Which operations have a saved file to write a row for.
Stages(r) ==
  /\ req[r].pc = "saved" => req[r].op \in {"UPLOAD", "CAPTURE", "TAX"}
  /\ req[r].pc \in {"previous", "applied"} => req[r].op = "TAX"

\* What a request read is still true, or can no longer harm.
ReadsHold(r) ==
  /\ req[r].pc \in {"saved", "previous"} => r \in stored
  /\ req[r].pc = "removing" => \A f \in req[r].doomed : Expendable(f)
  /\ At(r, "found", "DELETE") => /\ req[r].file \in Files
                                 /\ asset[req[r].file].status # "ABSENT"
  /\ At(r, "found", "DELETE_CHAT") =>
       \A f \in req[r].doomed :
         /\ req[f].op = "CAPTURE" /\ req[f].pc = "done"
         /\ \A u \in Media : media[u].key = f => media[u].chat = req[r].chat
  /\ At(r, "found", "DELETE_ROW") => FileOfUpload(req[r].file)
  /\ At(r, "previous", "TAX") => FileOfUpload(req[r].file)
  /\ At(r, "applied", "TAX") => /\ FileOfUpload(req[r].file)
                                /\ req[r].file # None => doc.key # req[r].file

FInv ==
  /\ TypeOK
  /\ RowsHaveFiles
  /\ DocumentLostByItsUpload
  /\ RowsAreWritten
  /\ \A r \in Requests : Stages(r)
  /\ \A r \in Requests : ReadsHold(r)

-----------------------------------------------------------------------------
(* Records of requests.                                                    *)

LEMMA FreshIsRequest == Fresh \in Request
  BY FilesAssumption DEF Fresh, Request

LEMMA ToRemoveIsRequest ==
  ASSUME NEW q \in Request, NEW files \in SUBSET Files
  PROVE  [q EXCEPT !.pc = "removing", !.doomed = files] \in Request
  BY DEF Request

LEMMA FailedIsRequest ==
  ASSUME NEW q \in Request, NEW files \in SUBSET Files, NEW late \in BOOLEAN
  PROVE  [q EXCEPT !.pc = "removing", !.late = late, !.doomed = files] \in Request
  BY DEF Request

LEMMA WithPreviousIsRequest ==
  ASSUME NEW q \in Request, NEW f \in Files \cup {None}
  PROVE  [q EXCEPT !.pc = "previous", !.file = f] \in Request
  BY DEF Request

LEMMA MovesToRequest ==
  ASSUME TypeOK, NEW r \in Requests, NEW rec \in Request, Moves(r, rec)
  PROVE  req' \in [Requests -> Request]
  BY DEF TypeOK, Moves

-----------------------------------------------------------------------------
(* Each step keeps the invariant.                                          *)

LEMMA SaveUploadKeeps ==
  ASSUME FInv, NEW r \in Requests, NEW draft \in Drafts \cup {None}, SaveUpload(r, draft)
  PROVE  FInv'
<1>. USE FilesAssumption DEF SaveUpload, FInv, Stages, Files, At, Moves, Done, Dooms,
     Captured, HasRow
<1>1. TypeOK'
  <2>1. stored' \subseteq Files
    BY DEF TypeOK, Request
  <2>2. asset' \in [Files -> Asset]
    BY DEF TypeOK, Asset, Request
  <2>3. media' \in [Media -> Medium]
    BY DEF TypeOK, Medium, Request, AbsentMedium
  <2>4. chat' \in [Chats -> {"none", "open", "deleted"}]
    BY DEF TypeOK, Request
  <2>5. doc' \in Document
    BY DEF TypeOK, Document, Request
  <2>6. req' \in [Requests -> Request]
    <3>1. [Fresh EXCEPT !.pc = "saved", !.op = "UPLOAD", !.draft = draft] \in Request
      BY FreshIsRequest DEF Request
    <3>. QED
      BY <3>1, MovesToRequest
  <2>. QED
    BY <2>1, <2>2, <2>3, <2>4, <2>5, <2>6 DEF TypeOK
<1>2. RowsHaveFiles'
  BY DEF TypeOK, RowsHaveFiles, RowsAreWritten, ReadsHold, Expendable, FileOfUpload, Asset,
     Medium, Document, Request, Fresh, AbsentMedium, MediaOf
<1>3. DocumentLostByItsUpload'
  BY DEF TypeOK, DocumentLostByItsUpload, RowsAreWritten, ReadsHold, Expendable,
     FileOfUpload, Written, Asset, Medium, Document, Request, Fresh
<1>4. RowsAreWritten'
  BY DEF TypeOK, RowsAreWritten, FileOfUpload, Written, Asset, Medium, Document, Request,
     Fresh, AbsentMedium, MediaOf
<1>5. ASSUME NEW q \in Requests PROVE Stages(q)'
  BY DEF TypeOK, Request, Fresh
<1>6. ASSUME NEW q \in Requests PROVE ReadsHold(q)'
  BY DEF TypeOK, RowsAreWritten, ReadsHold, Expendable, FileOfUpload, Written, Asset,
     Medium, Document, Request, Fresh, AbsentMedium, MediaOf
<1>. QED
  BY <1>1, <1>2, <1>3, <1>4, <1>5, <1>6

LEMMA RecordAssetKeeps ==
  ASSUME FInv, NEW r \in Requests, RecordAsset(r)
  PROVE  FInv'
<1>. USE FilesAssumption DEF RecordAsset, FInv, Stages, Files, At, Moves, Done, Dooms,
     Captured, HasRow
<1>1. TypeOK'
  <2>1. stored' \subseteq Files
    BY DEF TypeOK, Request
  <2>2. asset' \in [Files -> Asset]
    BY DEF TypeOK, Asset, Request
  <2>3. media' \in [Media -> Medium]
    BY DEF TypeOK, Medium, Request, AbsentMedium
  <2>4. chat' \in [Chats -> {"none", "open", "deleted"}]
    BY DEF TypeOK, Request
  <2>5. doc' \in Document
    BY DEF TypeOK, Document, Request
  <2>6. req' \in [Requests -> Request]
    BY DEF TypeOK, Request, Fresh, Document, Medium, MediaOf
  <2>. QED
    BY <2>1, <2>2, <2>3, <2>4, <2>5, <2>6 DEF TypeOK
<1>2. RowsHaveFiles'
  BY DEF TypeOK, RowsHaveFiles, RowsAreWritten, ReadsHold, Expendable, FileOfUpload, Asset,
     Medium, Document, Request, Fresh, AbsentMedium, MediaOf
<1>3. DocumentLostByItsUpload'
  BY DEF TypeOK, DocumentLostByItsUpload, RowsAreWritten, ReadsHold, Expendable,
     FileOfUpload, Written, Asset, Medium, Document, Request, Fresh
<1>4. RowsAreWritten'
  BY DEF TypeOK, RowsAreWritten, FileOfUpload, Written, Asset, Medium, Document, Request,
     Fresh, AbsentMedium, MediaOf
<1>5. ASSUME NEW q \in Requests PROVE Stages(q)'
  BY DEF TypeOK, Request, Fresh
<1>6. ASSUME NEW q \in Requests PROVE ReadsHold(q)'
  BY DEF TypeOK, RowsAreWritten, ReadsHold, Expendable, FileOfUpload, Written, Asset,
     Medium, Document, Request, Fresh, AbsentMedium, MediaOf
<1>. QED
  BY <1>1, <1>2, <1>3, <1>4, <1>5, <1>6

LEMMA FindAssetKeeps ==
  ASSUME FInv, NEW r \in Requests, NEW f \in Files, FindAsset(r, f)
  PROVE  FInv'
<1>. USE FilesAssumption DEF FindAsset, FInv, Stages, Files, At, Moves, Done, Dooms, Captured,
     HasRow
<1>1. TypeOK'
  <2>1. stored' \subseteq Files
    BY DEF TypeOK, Request
  <2>2. asset' \in [Files -> Asset]
    BY DEF TypeOK, Asset, Request
  <2>3. media' \in [Media -> Medium]
    BY DEF TypeOK, Medium, Request, AbsentMedium
  <2>4. chat' \in [Chats -> {"none", "open", "deleted"}]
    BY DEF TypeOK, Request
  <2>5. doc' \in Document
    BY DEF TypeOK, Document, Request
  <2>6. req' \in [Requests -> Request]
    <3>1. [Fresh EXCEPT !.pc = "found", !.op = "DELETE", !.file = f] \in Request
      BY FreshIsRequest DEF Request
    <3>. QED
      BY <3>1, MovesToRequest
  <2>. QED
    BY <2>1, <2>2, <2>3, <2>4, <2>5, <2>6 DEF TypeOK
<1>2. RowsHaveFiles'
  BY DEF TypeOK, RowsHaveFiles, RowsAreWritten, ReadsHold, Expendable, FileOfUpload, Asset,
     Medium, Document, Request, Fresh, AbsentMedium, MediaOf
<1>3. DocumentLostByItsUpload'
  BY DEF TypeOK, DocumentLostByItsUpload, RowsAreWritten, ReadsHold, Expendable,
     FileOfUpload, Written, Asset, Medium, Document, Request, Fresh
<1>4. RowsAreWritten'
  BY DEF TypeOK, RowsAreWritten, FileOfUpload, Written, Asset, Medium, Document, Request,
     Fresh, AbsentMedium, MediaOf
<1>5. ASSUME NEW q \in Requests PROVE Stages(q)'
  BY DEF TypeOK, Request, Fresh
<1>6. ASSUME NEW q \in Requests PROVE ReadsHold(q)'
  BY DEF TypeOK, RowsAreWritten, ReadsHold, Expendable, FileOfUpload, Written, Asset,
     Medium, Document, Request, Fresh, AbsentMedium, MediaOf
<1>. QED
  BY <1>1, <1>2, <1>3, <1>4, <1>5, <1>6

LEMMA DeleteAssetKeeps ==
  ASSUME FInv, NEW r \in Requests, DeleteAsset(r)
  PROVE  FInv'
<1>. USE FilesAssumption DEF DeleteAsset, FInv, Stages, Files, At, Moves, Done, Dooms,
     Captured, HasRow
<1>0. req[r].file \in Files /\ asset[req[r].file].status # "ABSENT"
  BY DEF ReadsHold
<1>1. TypeOK'
  <2>1. stored' \subseteq Files
    BY DEF TypeOK, Request
  <2>2. asset' \in [Files -> Asset]
    BY <1>0 DEF TypeOK, Asset
  <2>3. media' \in [Media -> Medium]
    BY DEF TypeOK, Medium, Request, AbsentMedium
  <2>4. chat' \in [Chats -> {"none", "open", "deleted"}]
    BY DEF TypeOK, Request
  <2>5. doc' \in Document
    BY DEF TypeOK, Document, Request
  <2>6. req' \in [Requests -> Request]
    <3>1. [req[r] EXCEPT !.pc = "removing", !.doomed = {req[r].file}] \in Request
      <4>1. req[r] \in Request /\ {req[r].file} \in SUBSET Files
        BY <1>0 DEF TypeOK
      <4>. QED
        BY <4>1, ToRemoveIsRequest
    <3>. QED
      BY <3>1, MovesToRequest
  <2>. QED
    BY <2>1, <2>2, <2>3, <2>4, <2>5, <2>6 DEF TypeOK
<1>2. RowsHaveFiles'
  BY DEF TypeOK, RowsHaveFiles, RowsAreWritten, ReadsHold, Expendable, FileOfUpload, Asset,
     Medium, Document, Request, Fresh, AbsentMedium, MediaOf
<1>3. DocumentLostByItsUpload'
  BY DEF TypeOK, DocumentLostByItsUpload, RowsAreWritten, ReadsHold, Expendable,
     FileOfUpload, Written, Asset, Medium, Document, Request, Fresh
<1>4. RowsAreWritten'
  BY <1>0 DEF TypeOK, RowsAreWritten, FileOfUpload, Written, Asset, Medium, Document,
     Request, Fresh, AbsentMedium, MediaOf
<1>5. ASSUME NEW q \in Requests PROVE Stages(q)'
  BY DEF TypeOK, Request, Fresh
<1>6. ASSUME NEW q \in Requests PROVE ReadsHold(q)'
  BY DEF TypeOK, RowsAreWritten, ReadsHold, Expendable, FileOfUpload, Written, Asset,
     Medium, Document, Request, Fresh, AbsentMedium, MediaOf
<1>. QED
  BY <1>1, <1>2, <1>3, <1>4, <1>5, <1>6

LEMMA OpenChatKeeps ==
  ASSUME FInv, NEW c \in Chats, OpenChat(c)
  PROVE  FInv'
<1>. USE FilesAssumption DEF OpenChat, FInv, Stages, Files, At, Moves, Done, Dooms, Captured,
     HasRow
<1>1. TypeOK'
  <2>1. stored' \subseteq Files
    BY DEF TypeOK, Request
  <2>2. asset' \in [Files -> Asset]
    BY DEF TypeOK, Asset, Request
  <2>3. media' \in [Media -> Medium]
    BY DEF TypeOK, Medium, Request, AbsentMedium
  <2>4. chat' \in [Chats -> {"none", "open", "deleted"}]
    BY DEF TypeOK, Request
  <2>5. doc' \in Document
    BY DEF TypeOK, Document, Request
  <2>6. req' \in [Requests -> Request]
    BY DEF TypeOK, Request, Fresh, Document, Medium, MediaOf
  <2>. QED
    BY <2>1, <2>2, <2>3, <2>4, <2>5, <2>6 DEF TypeOK
<1>2. RowsHaveFiles'
  BY DEF TypeOK, RowsHaveFiles, RowsAreWritten, ReadsHold, Expendable, FileOfUpload, Asset,
     Medium, Document, Request, Fresh, AbsentMedium, MediaOf
<1>3. DocumentLostByItsUpload'
  BY DEF TypeOK, DocumentLostByItsUpload, RowsAreWritten, ReadsHold, Expendable,
     FileOfUpload, Written, Asset, Medium, Document, Request, Fresh
<1>4. RowsAreWritten'
  BY DEF TypeOK, RowsAreWritten, FileOfUpload, Written, Asset, Medium, Document, Request,
     Fresh, AbsentMedium, MediaOf
<1>5. ASSUME NEW q \in Requests PROVE Stages(q)'
  BY DEF TypeOK, Request, Fresh
<1>6. ASSUME NEW q \in Requests PROVE ReadsHold(q)'
  BY DEF TypeOK, RowsAreWritten, ReadsHold, Expendable, FileOfUpload, Written, Asset,
     Medium, Document, Request, Fresh, AbsentMedium, MediaOf
<1>. QED
  BY <1>1, <1>2, <1>3, <1>4, <1>5, <1>6

LEMMA LookUpKeeps ==
  ASSUME FInv, NEW r \in Requests, NEW u \in Media, NEW c \in Chats, LookUp(r, u, c)
  PROVE  FInv'
<1>. USE FilesAssumption DEF LookUp, FInv, Stages, Files, At, Moves, Done, Dooms, Captured,
     HasRow
<1>1. TypeOK'
  <2>1. stored' \subseteq Files
    BY DEF TypeOK, Request
  <2>2. asset' \in [Files -> Asset]
    BY DEF TypeOK, Asset, Request
  <2>3. media' \in [Media -> Medium]
    BY DEF TypeOK, Medium, Request, AbsentMedium
  <2>4. chat' \in [Chats -> {"none", "open", "deleted"}]
    BY DEF TypeOK, Request
  <2>5. doc' \in Document
    BY DEF TypeOK, Document, Request
  <2>6. req' \in [Requests -> Request]
    <3>1. [Fresh EXCEPT !.pc = "looked", !.op = "CAPTURE", !.medium = u, !.chat = c] \in Request
      BY FreshIsRequest DEF Request
    <3>. QED
      BY <3>1, MovesToRequest
  <2>. QED
    BY <2>1, <2>2, <2>3, <2>4, <2>5, <2>6 DEF TypeOK
<1>2. RowsHaveFiles'
  BY DEF TypeOK, RowsHaveFiles, RowsAreWritten, ReadsHold, Expendable, FileOfUpload, Asset,
     Medium, Document, Request, Fresh, AbsentMedium, MediaOf
<1>3. DocumentLostByItsUpload'
  BY DEF TypeOK, DocumentLostByItsUpload, RowsAreWritten, ReadsHold, Expendable,
     FileOfUpload, Written, Asset, Medium, Document, Request, Fresh
<1>4. RowsAreWritten'
  BY DEF TypeOK, RowsAreWritten, FileOfUpload, Written, Asset, Medium, Document, Request,
     Fresh, AbsentMedium, MediaOf
<1>5. ASSUME NEW q \in Requests PROVE Stages(q)'
  BY DEF TypeOK, Request, Fresh
<1>6. ASSUME NEW q \in Requests PROVE ReadsHold(q)'
  BY DEF TypeOK, RowsAreWritten, ReadsHold, Expendable, FileOfUpload, Written, Asset,
     Medium, Document, Request, Fresh, AbsentMedium, MediaOf
<1>. QED
  BY <1>1, <1>2, <1>3, <1>4, <1>5, <1>6

LEMMA SaveCaptureKeeps ==
  ASSUME FInv, NEW r \in Requests, SaveCapture(r)
  PROVE  FInv'
<1>. USE FilesAssumption DEF SaveCapture, FInv, Stages, Files, At, Moves, Done, Dooms,
     Captured, HasRow
<1>1. TypeOK'
  <2>1. stored' \subseteq Files
    BY DEF TypeOK, Request
  <2>2. asset' \in [Files -> Asset]
    BY DEF TypeOK, Asset, Request
  <2>3. media' \in [Media -> Medium]
    BY DEF TypeOK, Medium, Request, AbsentMedium
  <2>4. chat' \in [Chats -> {"none", "open", "deleted"}]
    BY DEF TypeOK, Request
  <2>5. doc' \in Document
    BY DEF TypeOK, Document, Request
  <2>6. req' \in [Requests -> Request]
    BY DEF TypeOK, Request, Fresh, Document, Medium, MediaOf
  <2>. QED
    BY <2>1, <2>2, <2>3, <2>4, <2>5, <2>6 DEF TypeOK
<1>2. RowsHaveFiles'
  BY DEF TypeOK, RowsHaveFiles, RowsAreWritten, ReadsHold, Expendable, FileOfUpload, Asset,
     Medium, Document, Request, Fresh, AbsentMedium, MediaOf
<1>3. DocumentLostByItsUpload'
  BY DEF TypeOK, DocumentLostByItsUpload, RowsAreWritten, ReadsHold, Expendable,
     FileOfUpload, Written, Asset, Medium, Document, Request, Fresh
<1>4. RowsAreWritten'
  BY DEF TypeOK, RowsAreWritten, FileOfUpload, Written, Asset, Medium, Document, Request,
     Fresh, AbsentMedium, MediaOf
<1>5. ASSUME NEW q \in Requests PROVE Stages(q)'
  BY DEF TypeOK, Request, Fresh
<1>6. ASSUME NEW q \in Requests PROVE ReadsHold(q)'
  BY DEF TypeOK, RowsAreWritten, ReadsHold, Expendable, FileOfUpload, Written, Asset,
     Medium, Document, Request, Fresh, AbsentMedium, MediaOf
<1>. QED
  BY <1>1, <1>2, <1>3, <1>4, <1>5, <1>6

LEMMA RecordMediumKeeps ==
  ASSUME FInv, NEW r \in Requests, RecordMedium(r)
  PROVE  FInv'
<1>. USE FilesAssumption DEF RecordMedium, FInv, Stages, Files, At, Moves, Done, Dooms,
     Captured, HasRow
<1>1. TypeOK'
  <2>1. stored' \subseteq Files
    BY DEF TypeOK, Request
  <2>2. asset' \in [Files -> Asset]
    BY DEF TypeOK, Asset, Request
  <2>3. media' \in [Media -> Medium]
    BY DEF TypeOK, Medium, Request, AbsentMedium
  <2>4. chat' \in [Chats -> {"none", "open", "deleted"}]
    BY DEF TypeOK, Request
  <2>5. doc' \in Document
    BY DEF TypeOK, Document, Request
  <2>6. req' \in [Requests -> Request]
    BY DEF TypeOK, Request, Fresh, Document, Medium, MediaOf
  <2>. QED
    BY <2>1, <2>2, <2>3, <2>4, <2>5, <2>6 DEF TypeOK
<1>2. RowsHaveFiles'
  BY DEF TypeOK, RowsHaveFiles, RowsAreWritten, ReadsHold, Expendable, FileOfUpload, Asset,
     Medium, Document, Request, Fresh, AbsentMedium, MediaOf
<1>3. DocumentLostByItsUpload'
  BY DEF TypeOK, DocumentLostByItsUpload, RowsAreWritten, ReadsHold, Expendable,
     FileOfUpload, Written, Asset, Medium, Document, Request, Fresh
<1>4. RowsAreWritten'
  BY DEF TypeOK, RowsAreWritten, FileOfUpload, Written, Asset, Medium, Document, Request,
     Fresh, AbsentMedium, MediaOf
<1>5. ASSUME NEW q \in Requests PROVE Stages(q)'
  BY DEF TypeOK, Request, Fresh
<1>6. ASSUME NEW q \in Requests PROVE ReadsHold(q)'
  BY DEF TypeOK, RowsAreWritten, ReadsHold, Expendable, FileOfUpload, Written, Asset,
     Medium, Document, Request, Fresh, AbsentMedium, MediaOf
<1>. QED
  BY <1>1, <1>2, <1>3, <1>4, <1>5, <1>6

LEMMA MarkExtractionKeeps ==
  ASSUME FInv, NEW u \in Media, NEW draft \in Drafts, MarkExtraction(u, draft)
  PROVE  FInv'
<1>. USE FilesAssumption DEF MarkExtraction, FInv, Stages, Files, At, Moves, Done, Dooms,
     Captured, HasRow
<1>1. TypeOK'
  <2>1. stored' \subseteq Files
    BY DEF TypeOK, Request
  <2>2. asset' \in [Files -> Asset]
    BY DEF TypeOK, Asset, Request
  <2>3. media' \in [Media -> Medium]
    BY DEF TypeOK, Medium, Request, AbsentMedium
  <2>4. chat' \in [Chats -> {"none", "open", "deleted"}]
    BY DEF TypeOK, Request
  <2>5. doc' \in Document
    BY DEF TypeOK, Document, Request
  <2>6. req' \in [Requests -> Request]
    BY DEF TypeOK, Request, Fresh, Document, Medium, MediaOf
  <2>. QED
    BY <2>1, <2>2, <2>3, <2>4, <2>5, <2>6 DEF TypeOK
<1>2. RowsHaveFiles'
  BY DEF TypeOK, RowsHaveFiles, RowsAreWritten, ReadsHold, Expendable, FileOfUpload, Asset,
     Medium, Document, Request, Fresh, AbsentMedium, MediaOf
<1>3. DocumentLostByItsUpload'
  BY DEF TypeOK, DocumentLostByItsUpload, RowsAreWritten, ReadsHold, Expendable,
     FileOfUpload, Written, Asset, Medium, Document, Request, Fresh
<1>4. RowsAreWritten'
  BY DEF TypeOK, RowsAreWritten, FileOfUpload, Written, Asset, Medium, Document, Request,
     Fresh, AbsentMedium, MediaOf
<1>5. ASSUME NEW q \in Requests PROVE Stages(q)'
  BY DEF TypeOK, Request, Fresh
<1>6. ASSUME NEW q \in Requests PROVE ReadsHold(q)'
  BY DEF TypeOK, RowsAreWritten, ReadsHold, Expendable, FileOfUpload, Written, Asset,
     Medium, Document, Request, Fresh, AbsentMedium, MediaOf
<1>. QED
  BY <1>1, <1>2, <1>3, <1>4, <1>5, <1>6

LEMMA ReadChatKeeps ==
  ASSUME FInv, NEW r \in Requests, NEW c \in Chats, ReadChat(r, c)
  PROVE  FInv'
<1>. USE FilesAssumption DEF ReadChat, FInv, Stages, Files, At, Moves, Done, Dooms, Captured,
     HasRow
<1>. DEFINE Doomed == {media[u].key : u \in
                      {v \in MediaOf(c) : media[v].draft # None => SourceKept(media[v].draft)}}
<1>0. Doomed \subseteq Files
  BY DEF TypeOK, Medium, MediaOf
<1>1. TypeOK'
  <2>1. stored' \subseteq Files
    BY DEF TypeOK, Request
  <2>2. asset' \in [Files -> Asset]
    BY DEF TypeOK, Asset, Request
  <2>3. media' \in [Media -> Medium]
    BY DEF TypeOK, Medium, Request, AbsentMedium
  <2>4. chat' \in [Chats -> {"none", "open", "deleted"}]
    BY DEF TypeOK, Request
  <2>5. doc' \in Document
    BY DEF TypeOK, Document, Request
  <2>6. req' \in [Requests -> Request]
    <3>1. [Fresh EXCEPT !.pc = "found", !.op = "DELETE_CHAT", !.chat = c, !.doomed = Doomed] \in Request
      BY <1>0, FreshIsRequest DEF Request
    <3>. QED
      BY <3>1, MovesToRequest
  <2>. QED
    BY <2>1, <2>2, <2>3, <2>4, <2>5, <2>6 DEF TypeOK
<1>2. RowsHaveFiles'
  BY DEF TypeOK, RowsHaveFiles, RowsAreWritten, ReadsHold, Expendable, FileOfUpload, Asset,
     Medium, Document, Request, Fresh, AbsentMedium, MediaOf
<1>3. DocumentLostByItsUpload'
  BY DEF TypeOK, DocumentLostByItsUpload, RowsAreWritten, ReadsHold, Expendable,
     FileOfUpload, Written, Asset, Medium, Document, Request, Fresh
<1>4. RowsAreWritten'
  BY DEF TypeOK, RowsAreWritten, FileOfUpload, Written, Asset, Medium, Document, Request,
     Fresh, AbsentMedium, MediaOf
<1>5. ASSUME NEW q \in Requests PROVE Stages(q)'
  BY DEF TypeOK, Request, Fresh
<1>6. ASSUME NEW q \in Requests PROVE ReadsHold(q)'
  <2>1. CASE q = r
    <3>1. ASSUME NEW f \in Doomed
          PROVE  /\ req[f].op = "CAPTURE" /\ req[f].pc = "done" /\ f # r
                 /\ \A u \in Media : media[u].key = f => media[u].chat = c
      <4>1. PICK v \in MediaOf(c) : f = media[v].key
        OBVIOUS
      <4>. QED
        BY <4>1 DEF RowsAreWritten, MediaOf
    <3>2. /\ req'[r].pc = "found" /\ req'[r].op = "DELETE_CHAT" /\ req'[r].chat = c
          /\ req'[r].doomed = Doomed /\ \A f \in Files : f # r => req'[f] = req[f]
      BY DEF TypeOK, Fresh
    <3>. QED
      BY <2>1, <1>0, <3>1, <3>2 DEF ReadsHold
  <2>2. CASE q # r
    BY <2>2 DEF TypeOK, RowsAreWritten, ReadsHold, Expendable, FileOfUpload, Written,
       Asset, Medium, Document, Request, Fresh, AbsentMedium, MediaOf
  <2>. QED
    BY <2>1, <2>2
<1>. QED
  BY <1>1, <1>2, <1>3, <1>4, <1>5, <1>6

LEMMA DeleteChatKeeps ==
  ASSUME FInv, NEW r \in Requests, DeleteChat(r)
  PROVE  FInv'
<1>. USE FilesAssumption DEF DeleteChat, FInv, Stages, Files, At, Moves, Done, Dooms,
     Captured, HasRow
<1>1. TypeOK'
  <2>1. stored' \subseteq Files
    BY DEF TypeOK, Request
  <2>2. asset' \in [Files -> Asset]
    BY DEF TypeOK, Asset, Request
  <2>3. media' \in [Media -> Medium]
    BY DEF TypeOK, Medium, Request, AbsentMedium
  <2>4. chat' \in [Chats -> {"none", "open", "deleted"}]
    BY DEF TypeOK, Request
  <2>5. doc' \in Document
    BY DEF TypeOK, Document, Request
  <2>6. req' \in [Requests -> Request]
    <3>1. [req[r] EXCEPT !.pc = "removing", !.doomed = req[r].doomed] \in Request
      <4>1. req[r] \in Request /\ req[r].doomed \in SUBSET Files
        BY DEF TypeOK, Request
      <4>. QED
        BY <4>1, ToRemoveIsRequest
    <3>. QED
      BY <3>1, MovesToRequest
  <2>. QED
    BY <2>1, <2>2, <2>3, <2>4, <2>5, <2>6 DEF TypeOK
<1>2. RowsHaveFiles'
  BY DEF TypeOK, RowsHaveFiles, RowsAreWritten, ReadsHold, Expendable, FileOfUpload, Asset,
     Medium, Document, Request, Fresh, AbsentMedium, MediaOf
<1>3. DocumentLostByItsUpload'
  BY DEF TypeOK, DocumentLostByItsUpload, RowsAreWritten, ReadsHold, Expendable,
     FileOfUpload, Written, Asset, Medium, Document, Request, Fresh
<1>4. RowsAreWritten'
  BY DEF TypeOK, RowsAreWritten, FileOfUpload, Written, Asset, Medium, Document, Request,
     Fresh, AbsentMedium, MediaOf
<1>5. ASSUME NEW q \in Requests PROVE Stages(q)'
  BY DEF TypeOK, Request, Fresh
<1>6. ASSUME NEW q \in Requests PROVE ReadsHold(q)'
  BY DEF TypeOK, RowsAreWritten, ReadsHold, Expendable, FileOfUpload, Written, Asset,
     Medium, Document, Request, Fresh, AbsentMedium, MediaOf
<1>. QED
  BY <1>1, <1>2, <1>3, <1>4, <1>5, <1>6

LEMMA OpenRowKeeps ==
  ASSUME FInv, OpenRow
  PROVE  FInv'
<1>. USE FilesAssumption DEF OpenRow, FInv, Stages, Files, At, Moves, Done, Dooms, Captured,
     HasRow
<1>1. TypeOK'
  <2>1. stored' \subseteq Files
    BY DEF TypeOK, Request
  <2>2. asset' \in [Files -> Asset]
    BY DEF TypeOK, Asset, Request
  <2>3. media' \in [Media -> Medium]
    BY DEF TypeOK, Medium, Request, AbsentMedium
  <2>4. chat' \in [Chats -> {"none", "open", "deleted"}]
    BY DEF TypeOK, Request
  <2>5. doc' \in Document
    BY DEF TypeOK, Document, Request
  <2>6. req' \in [Requests -> Request]
    BY DEF TypeOK, Request, Fresh, Document, Medium, MediaOf
  <2>. QED
    BY <2>1, <2>2, <2>3, <2>4, <2>5, <2>6 DEF TypeOK
<1>2. RowsHaveFiles'
  BY DEF TypeOK, RowsHaveFiles, RowsAreWritten, ReadsHold, Expendable, FileOfUpload, Asset,
     Medium, Document, Request, Fresh, AbsentMedium, MediaOf
<1>3. DocumentLostByItsUpload'
  BY DEF TypeOK, DocumentLostByItsUpload, RowsAreWritten, ReadsHold, Expendable,
     FileOfUpload, Written, Asset, Medium, Document, Request, Fresh
<1>4. RowsAreWritten'
  BY DEF TypeOK, RowsAreWritten, FileOfUpload, Written, Asset, Medium, Document, Request,
     Fresh, AbsentMedium, MediaOf
<1>5. ASSUME NEW q \in Requests PROVE Stages(q)'
  BY DEF TypeOK, Request, Fresh
<1>6. ASSUME NEW q \in Requests PROVE ReadsHold(q)'
  BY DEF TypeOK, RowsAreWritten, ReadsHold, Expendable, FileOfUpload, Written, Asset,
     Medium, Document, Request, Fresh, AbsentMedium, MediaOf
<1>. QED
  BY <1>1, <1>2, <1>3, <1>4, <1>5, <1>6

LEMMA SaveDocumentKeeps ==
  ASSUME FInv, NEW r \in Requests, SaveDocument(r)
  PROVE  FInv'
<1>. USE FilesAssumption DEF SaveDocument, FInv, Stages, Files, At, Moves, Done, Dooms,
     Captured, HasRow
<1>1. TypeOK'
  <2>1. stored' \subseteq Files
    BY DEF TypeOK, Request
  <2>2. asset' \in [Files -> Asset]
    BY DEF TypeOK, Asset, Request
  <2>3. media' \in [Media -> Medium]
    BY DEF TypeOK, Medium, Request, AbsentMedium
  <2>4. chat' \in [Chats -> {"none", "open", "deleted"}]
    BY DEF TypeOK, Request
  <2>5. doc' \in Document
    BY DEF TypeOK, Document, Request
  <2>6. req' \in [Requests -> Request]
    BY DEF TypeOK, Request, Fresh, Document, Medium, MediaOf
  <2>. QED
    BY <2>1, <2>2, <2>3, <2>4, <2>5, <2>6 DEF TypeOK
<1>2. RowsHaveFiles'
  BY DEF TypeOK, RowsHaveFiles, RowsAreWritten, ReadsHold, Expendable, FileOfUpload, Asset,
     Medium, Document, Request, Fresh, AbsentMedium, MediaOf
<1>3. DocumentLostByItsUpload'
  BY DEF TypeOK, DocumentLostByItsUpload, RowsAreWritten, ReadsHold, Expendable,
     FileOfUpload, Written, Asset, Medium, Document, Request, Fresh
<1>4. RowsAreWritten'
  BY DEF TypeOK, RowsAreWritten, FileOfUpload, Written, Asset, Medium, Document, Request,
     Fresh, AbsentMedium, MediaOf
<1>5. ASSUME NEW q \in Requests PROVE Stages(q)'
  BY DEF TypeOK, Request, Fresh
<1>6. ASSUME NEW q \in Requests PROVE ReadsHold(q)'
  BY DEF TypeOK, RowsAreWritten, ReadsHold, Expendable, FileOfUpload, Written, Asset,
     Medium, Document, Request, Fresh, AbsentMedium, MediaOf
<1>. QED
  BY <1>1, <1>2, <1>3, <1>4, <1>5, <1>6

LEMMA ReadPreviousKeeps ==
  ASSUME FInv, NEW r \in Requests, ReadPrevious(r)
  PROVE  FInv'
<1>. USE FilesAssumption DEF ReadPrevious, FInv, Stages, Files, At, Moves, Done, Dooms,
     Captured, HasRow
<1>1. TypeOK'
  <2>1. stored' \subseteq Files
    BY DEF TypeOK, Request
  <2>2. asset' \in [Files -> Asset]
    BY DEF TypeOK, Asset, Request
  <2>3. media' \in [Media -> Medium]
    BY DEF TypeOK, Medium, Request, AbsentMedium
  <2>4. chat' \in [Chats -> {"none", "open", "deleted"}]
    BY DEF TypeOK, Request
  <2>5. doc' \in Document
    BY DEF TypeOK, Document, Request
  <2>6. req' \in [Requests -> Request]
    <3>1. [req[r] EXCEPT !.pc = "previous", !.file = IF HasRow(r) THEN doc.key ELSE None] \in Request
      <4>1. req[r] \in Request /\ (IF HasRow(r) THEN doc.key ELSE None) \in Files \cup {None}
        BY DEF TypeOK, Document
      <4>. QED
        BY <4>1, WithPreviousIsRequest
    <3>. QED
      BY <3>1, MovesToRequest
  <2>. QED
    BY <2>1, <2>2, <2>3, <2>4, <2>5, <2>6 DEF TypeOK
<1>2. RowsHaveFiles'
  BY DEF TypeOK, RowsHaveFiles, RowsAreWritten, ReadsHold, Expendable, FileOfUpload, Asset,
     Medium, Document, Request, Fresh, AbsentMedium, MediaOf
<1>3. DocumentLostByItsUpload'
  BY DEF TypeOK, DocumentLostByItsUpload, RowsAreWritten, ReadsHold, Expendable,
     FileOfUpload, Written, Asset, Medium, Document, Request, Fresh
<1>4. RowsAreWritten'
  BY DEF TypeOK, RowsAreWritten, FileOfUpload, Written, Asset, Medium, Document, Request,
     Fresh, AbsentMedium, MediaOf
<1>5. ASSUME NEW q \in Requests PROVE Stages(q)'
  BY DEF TypeOK, Request, Fresh
<1>6. ASSUME NEW q \in Requests PROVE ReadsHold(q)'
  BY DEF TypeOK, RowsAreWritten, ReadsHold, Expendable, FileOfUpload, Written, Asset,
     Medium, Document, Request, Fresh, AbsentMedium, MediaOf
<1>. QED
  BY <1>1, <1>2, <1>3, <1>4, <1>5, <1>6

LEMMA RecordDocumentKeeps ==
  ASSUME FInv, NEW r \in Requests, RecordDocument(r)
  PROVE  FInv'
<1>. USE FilesAssumption DEF RecordDocument, FInv, Stages, Files, At, Moves, Done, Dooms,
     Captured, HasRow
<1>1. TypeOK'
  <2>1. stored' \subseteq Files
    BY DEF TypeOK, Request
  <2>2. asset' \in [Files -> Asset]
    BY DEF TypeOK, Asset, Request
  <2>3. media' \in [Media -> Medium]
    BY DEF TypeOK, Medium, Request, AbsentMedium
  <2>4. chat' \in [Chats -> {"none", "open", "deleted"}]
    BY DEF TypeOK, Request
  <2>5. doc' \in Document
    BY DEF TypeOK, Document, Request
  <2>6. req' \in [Requests -> Request]
    BY DEF TypeOK, Request, Fresh, Document, Medium, MediaOf
  <2>. QED
    BY <2>1, <2>2, <2>3, <2>4, <2>5, <2>6 DEF TypeOK
<1>2. RowsHaveFiles'
  BY DEF TypeOK, RowsHaveFiles, RowsAreWritten, ReadsHold, Expendable, FileOfUpload, Asset,
     Medium, Document, Request, Fresh, AbsentMedium, MediaOf
<1>3. DocumentLostByItsUpload'
  BY DEF TypeOK, DocumentLostByItsUpload, RowsAreWritten, ReadsHold, Expendable,
     FileOfUpload, Written, Asset, Medium, Document, Request, Fresh
<1>4. RowsAreWritten'
  BY DEF TypeOK, RowsAreWritten, FileOfUpload, Written, Asset, Medium, Document, Request,
     Fresh, AbsentMedium, MediaOf
<1>5. ASSUME NEW q \in Requests PROVE Stages(q)'
  BY DEF TypeOK, Request, Fresh
<1>6. ASSUME NEW q \in Requests PROVE ReadsHold(q)'
  BY DEF TypeOK, RowsAreWritten, ReadsHold, Expendable, FileOfUpload, Written, Asset,
     Medium, Document, Request, Fresh, AbsentMedium, MediaOf
<1>. QED
  BY <1>1, <1>2, <1>3, <1>4, <1>5, <1>6

LEMMA RemovePreviousKeeps ==
  ASSUME FInv, NEW r \in Requests, RemovePrevious(r)
  PROVE  FInv'
<1>. USE FilesAssumption DEF RemovePrevious, FInv, Stages, Files, At, Moves, Done, Dooms,
     Captured, HasRow
<1>1. TypeOK'
  <2>1. stored' \subseteq Files
    BY DEF TypeOK, Request
  <2>2. asset' \in [Files -> Asset]
    BY DEF TypeOK, Asset, Request
  <2>3. media' \in [Media -> Medium]
    BY DEF TypeOK, Medium, Request, AbsentMedium
  <2>4. chat' \in [Chats -> {"none", "open", "deleted"}]
    BY DEF TypeOK, Request
  <2>5. doc' \in Document
    BY DEF TypeOK, Document, Request
  <2>6. req' \in [Requests -> Request]
    BY DEF TypeOK, Request, Fresh, Document, Medium, MediaOf
  <2>. QED
    BY <2>1, <2>2, <2>3, <2>4, <2>5, <2>6 DEF TypeOK
<1>2. RowsHaveFiles'
  BY DEF TypeOK, RowsHaveFiles, RowsAreWritten, ReadsHold, Expendable, FileOfUpload, Asset,
     Medium, Document, Request, Fresh, AbsentMedium, MediaOf
<1>3. DocumentLostByItsUpload'
  BY DEF TypeOK, DocumentLostByItsUpload, RowsAreWritten, ReadsHold, Expendable,
     FileOfUpload, Written, Asset, Medium, Document, Request, Fresh
<1>4. RowsAreWritten'
  BY DEF TypeOK, RowsAreWritten, FileOfUpload, Written, Asset, Medium, Document, Request,
     Fresh, AbsentMedium, MediaOf
<1>5. ASSUME NEW q \in Requests PROVE Stages(q)'
  BY DEF TypeOK, Request, Fresh
<1>6. ASSUME NEW q \in Requests PROVE ReadsHold(q)'
  BY DEF TypeOK, RowsAreWritten, ReadsHold, Expendable, FileOfUpload, Written, Asset,
     Medium, Document, Request, Fresh, AbsentMedium, MediaOf
<1>. QED
  BY <1>1, <1>2, <1>3, <1>4, <1>5, <1>6

LEMMA FindMediumKeeps ==
  ASSUME FInv, NEW r \in Requests, NEW u \in Media, FindMedium(r, u)
  PROVE  FInv'
<1>. USE FilesAssumption DEF FindMedium, FInv, Stages, Files, At, Moves, Done, Dooms,
     Captured, HasRow
<1>1. TypeOK'
  <2>1. stored' \subseteq Files
    BY DEF TypeOK, Request
  <2>2. asset' \in [Files -> Asset]
    BY DEF TypeOK, Asset, Request
  <2>3. media' \in [Media -> Medium]
    BY DEF TypeOK, Medium, Request, AbsentMedium
  <2>4. chat' \in [Chats -> {"none", "open", "deleted"}]
    BY DEF TypeOK, Request
  <2>5. doc' \in Document
    BY DEF TypeOK, Document, Request
  <2>6. req' \in [Requests -> Request]
    BY DEF TypeOK, Request, Fresh, Document, Medium, MediaOf
  <2>. QED
    BY <2>1, <2>2, <2>3, <2>4, <2>5, <2>6 DEF TypeOK
<1>2. RowsHaveFiles'
  BY DEF TypeOK, RowsHaveFiles, RowsAreWritten, ReadsHold, Expendable, FileOfUpload, Asset,
     Medium, Document, Request, Fresh, AbsentMedium, MediaOf
<1>3. DocumentLostByItsUpload'
  BY DEF TypeOK, DocumentLostByItsUpload, RowsAreWritten, ReadsHold, Expendable,
     FileOfUpload, Written, Asset, Medium, Document, Request, Fresh
<1>4. RowsAreWritten'
  BY DEF TypeOK, RowsAreWritten, FileOfUpload, Written, Asset, Medium, Document, Request,
     Fresh, AbsentMedium, MediaOf
<1>5. ASSUME NEW q \in Requests PROVE Stages(q)'
  BY DEF TypeOK, Request, Fresh
<1>6. ASSUME NEW q \in Requests PROVE ReadsHold(q)'
  BY DEF TypeOK, RowsAreWritten, ReadsHold, Expendable, FileOfUpload, Written, Asset,
     Medium, Document, Request, Fresh, AbsentMedium, MediaOf
<1>. QED
  BY <1>1, <1>2, <1>3, <1>4, <1>5, <1>6

LEMMA LinkMediumKeeps ==
  ASSUME FInv, NEW r \in Requests, LinkMedium(r)
  PROVE  FInv'
<1>. USE FilesAssumption DEF LinkMedium, FInv, Stages, Files, At, Moves, Done, Dooms,
     Captured, HasRow
<1>1. TypeOK'
  <2>1. stored' \subseteq Files
    BY DEF TypeOK, Request
  <2>2. asset' \in [Files -> Asset]
    BY DEF TypeOK, Asset, Request
  <2>3. media' \in [Media -> Medium]
    BY DEF TypeOK, Medium, Request, AbsentMedium
  <2>4. chat' \in [Chats -> {"none", "open", "deleted"}]
    BY DEF TypeOK, Request
  <2>5. doc' \in Document
    BY DEF TypeOK, Document, Request
  <2>6. req' \in [Requests -> Request]
    <3>1. [req[r] EXCEPT !.pc = "done"] \in Request
      BY DEF TypeOK, Request
    <3>. QED
      BY <3>1, MovesToRequest
  <2>. QED
    BY <2>1, <2>2, <2>3, <2>4, <2>5, <2>6 DEF TypeOK
<1>2. RowsHaveFiles'
  BY DEF TypeOK, RowsHaveFiles, RowsAreWritten, ReadsHold, Expendable, FileOfUpload, Asset,
     Medium, Document, Request, Fresh, AbsentMedium, MediaOf
<1>3. DocumentLostByItsUpload'
  BY DEF TypeOK, DocumentLostByItsUpload, RowsAreWritten, ReadsHold, Expendable,
     FileOfUpload, Written, Asset, Medium, Document, Request, Fresh
<1>4. RowsAreWritten'
  BY DEF TypeOK, RowsAreWritten, FileOfUpload, Written, Asset, Medium, Document, Request,
     Fresh, AbsentMedium, MediaOf
<1>5. ASSUME NEW q \in Requests PROVE Stages(q)'
  BY DEF TypeOK, Request, Fresh
<1>6. ASSUME NEW q \in Requests PROVE ReadsHold(q)'
  BY DEF TypeOK, RowsAreWritten, ReadsHold, Expendable, FileOfUpload, Written, Asset,
     Medium, Document, Request, Fresh, AbsentMedium, MediaOf
<1>. QED
  BY <1>1, <1>2, <1>3, <1>4, <1>5, <1>6

LEMMA ReadRowKeeps ==
  ASSUME FInv, NEW r \in Requests, ReadRow(r)
  PROVE  FInv'
<1>. USE FilesAssumption DEF ReadRow, FInv, Stages, Files, At, Moves, Done, Dooms, Captured,
     HasRow
<1>1. TypeOK'
  <2>1. stored' \subseteq Files
    BY DEF TypeOK, Request
  <2>2. asset' \in [Files -> Asset]
    BY DEF TypeOK, Asset, Request
  <2>3. media' \in [Media -> Medium]
    BY DEF TypeOK, Medium, Request, AbsentMedium
  <2>4. chat' \in [Chats -> {"none", "open", "deleted"}]
    BY DEF TypeOK, Request
  <2>5. doc' \in Document
    BY DEF TypeOK, Document, Request
  <2>6. req' \in [Requests -> Request]
    BY DEF TypeOK, Request, Fresh, Document, Medium, MediaOf
  <2>. QED
    BY <2>1, <2>2, <2>3, <2>4, <2>5, <2>6 DEF TypeOK
<1>2. RowsHaveFiles'
  BY DEF TypeOK, RowsHaveFiles, RowsAreWritten, ReadsHold, Expendable, FileOfUpload, Asset,
     Medium, Document, Request, Fresh, AbsentMedium, MediaOf
<1>3. DocumentLostByItsUpload'
  BY DEF TypeOK, DocumentLostByItsUpload, RowsAreWritten, ReadsHold, Expendable,
     FileOfUpload, Written, Asset, Medium, Document, Request, Fresh
<1>4. RowsAreWritten'
  BY DEF TypeOK, RowsAreWritten, FileOfUpload, Written, Asset, Medium, Document, Request,
     Fresh, AbsentMedium, MediaOf
<1>5. ASSUME NEW q \in Requests PROVE Stages(q)'
  BY DEF TypeOK, Request, Fresh
<1>6. ASSUME NEW q \in Requests PROVE ReadsHold(q)'
  BY DEF TypeOK, RowsAreWritten, ReadsHold, Expendable, FileOfUpload, Written, Asset,
     Medium, Document, Request, Fresh, AbsentMedium, MediaOf
<1>. QED
  BY <1>1, <1>2, <1>3, <1>4, <1>5, <1>6

LEMMA DeleteRowKeeps ==
  ASSUME FInv, NEW r \in Requests, DeleteRow(r)
  PROVE  FInv'
<1>. USE FilesAssumption DEF DeleteRow, FInv, Stages, Files, At, Moves, Done, Dooms, Captured,
     HasRow
<1>1. TypeOK'
  <2>1. stored' \subseteq Files
    BY DEF TypeOK, Request
  <2>2. asset' \in [Files -> Asset]
    BY DEF TypeOK, Asset, Request
  <2>3. media' \in [Media -> Medium]
    BY DEF TypeOK, Medium, Request, AbsentMedium
  <2>4. chat' \in [Chats -> {"none", "open", "deleted"}]
    BY DEF TypeOK, Request
  <2>5. doc' \in Document
    BY DEF TypeOK, Document, Request
  <2>6. req' \in [Requests -> Request]
    <3>1. [req[r] EXCEPT !.pc = "removing", !.doomed = {req[r].file} \ {None}] \in Request
      <4>1. req[r] \in Request /\ {req[r].file} \ {None} \in SUBSET Files
        BY DEF TypeOK, Request
      <4>. QED
        BY <4>1, ToRemoveIsRequest
    <3>. QED
      BY <3>1, MovesToRequest
  <2>. QED
    BY <2>1, <2>2, <2>3, <2>4, <2>5, <2>6 DEF TypeOK
<1>2. RowsHaveFiles'
  BY DEF TypeOK, RowsHaveFiles, RowsAreWritten, ReadsHold, Expendable, FileOfUpload, Asset,
     Medium, Document, Request, Fresh, AbsentMedium, MediaOf
<1>3. DocumentLostByItsUpload'
  BY DEF TypeOK, DocumentLostByItsUpload, RowsAreWritten, ReadsHold, Expendable,
     FileOfUpload, Written, Asset, Medium, Document, Request, Fresh
<1>4. RowsAreWritten'
  BY DEF TypeOK, RowsAreWritten, FileOfUpload, Written, Asset, Medium, Document, Request,
     Fresh, AbsentMedium, MediaOf
<1>5. ASSUME NEW q \in Requests PROVE Stages(q)'
  BY DEF TypeOK, Request, Fresh
<1>6. ASSUME NEW q \in Requests PROVE ReadsHold(q)'
  BY DEF TypeOK, RowsAreWritten, ReadsHold, Expendable, FileOfUpload, Written, Asset,
     Medium, Document, Request, Fresh, AbsentMedium, MediaOf
<1>. QED
  BY <1>1, <1>2, <1>3, <1>4, <1>5, <1>6

LEMMA FailKeeps ==
  ASSUME FInv, NEW r \in Requests, Fail(r)
  PROVE  FInv'
<1>. USE FilesAssumption DEF Fail, FInv, Stages, Files, At, Moves, Done, Dooms, Captured, HasRow
<1>1. TypeOK'
  <2>1. stored' \subseteq Files
    BY DEF TypeOK, Request
  <2>2. asset' \in [Files -> Asset]
    BY DEF TypeOK, Asset, Request
  <2>3. media' \in [Media -> Medium]
    BY DEF TypeOK, Medium, Request, AbsentMedium
  <2>4. chat' \in [Chats -> {"none", "open", "deleted"}]
    BY DEF TypeOK, Request
  <2>5. doc' \in Document
    BY DEF TypeOK, Document, Request
  <2>6. req' \in [Requests -> Request]
    <3>1. [req[r] EXCEPT !.pc = "removing", !.late = req[r].pc = "applied", !.doomed = {r}] \in Request
      <4>1. req[r] \in Request /\ {r} \in SUBSET Files
        BY DEF TypeOK
      <4>. QED
        BY <4>1, FailedIsRequest
    <3>. QED
      BY <3>1, MovesToRequest
  <2>. QED
    BY <2>1, <2>2, <2>3, <2>4, <2>5, <2>6 DEF TypeOK
<1>2. RowsHaveFiles'
  BY DEF TypeOK, RowsHaveFiles, RowsAreWritten, ReadsHold, Expendable, FileOfUpload, Asset,
     Medium, Document, Request, Fresh, AbsentMedium, MediaOf
<1>3. DocumentLostByItsUpload'
  BY DEF TypeOK, DocumentLostByItsUpload, RowsAreWritten, ReadsHold, Expendable,
     FileOfUpload, Written, Asset, Medium, Document, Request, Fresh
<1>4. RowsAreWritten'
  BY DEF TypeOK, RowsAreWritten, FileOfUpload, Written, Asset, Medium, Document, Request,
     Fresh, AbsentMedium, MediaOf
<1>5. ASSUME NEW q \in Requests PROVE Stages(q)'
  BY DEF TypeOK, Request, Fresh
<1>6. ASSUME NEW q \in Requests PROVE ReadsHold(q)'
  <2>1. CASE q = r
    <3>1. asset[r].status = "ABSENT" /\ \A u \in Media : media[u].key # r
      BY DEF TypeOK, RowsAreWritten
    <3>2. doc.key = r => req[r].pc = "applied"
      BY DEF TypeOK, RowsAreWritten, FileOfUpload, Written
    <3>3. req'[r].pc = "removing" /\ req'[r].doomed = {r} /\ req'[r].late = (req[r].pc = "applied")
      BY DEF TypeOK, Request
    <3>4. Expendable(r)'
      BY <3>1, <3>2, <3>3 DEF Expendable, Written
    <3>. QED
      BY <2>1, <3>3, <3>4 DEF ReadsHold
  <2>2. CASE q # r
    BY <2>2 DEF TypeOK, RowsAreWritten, ReadsHold, Expendable, FileOfUpload, Written,
       Asset, Medium, Document, Request, Fresh, AbsentMedium, MediaOf
  <2>. QED
    BY <2>1, <2>2
<1>. QED
  BY <1>1, <1>2, <1>3, <1>4, <1>5, <1>6

LEMMA RemoveFilesKeeps ==
  ASSUME FInv, NEW r \in Requests, RemoveFiles(r)
  PROVE  FInv'
<1>. USE FilesAssumption DEF RemoveFiles, FInv, Stages, Files, At, Moves, Done, Dooms,
     Captured, HasRow
<1>1. TypeOK'
  <2>1. stored' \subseteq Files
    BY DEF TypeOK, Request
  <2>2. asset' \in [Files -> Asset]
    BY DEF TypeOK, Asset, Request
  <2>3. media' \in [Media -> Medium]
    BY DEF TypeOK, Medium, Request, AbsentMedium
  <2>4. chat' \in [Chats -> {"none", "open", "deleted"}]
    BY DEF TypeOK, Request
  <2>5. doc' \in Document
    BY DEF TypeOK, Document, Request
  <2>6. req' \in [Requests -> Request]
    BY DEF TypeOK, Request, Fresh, Document, Medium, MediaOf
  <2>. QED
    BY <2>1, <2>2, <2>3, <2>4, <2>5, <2>6 DEF TypeOK
<1>2. RowsHaveFiles'
  BY DEF TypeOK, RowsHaveFiles, RowsAreWritten, ReadsHold, Expendable, FileOfUpload, Asset,
     Medium, Document, Request, Fresh, AbsentMedium, MediaOf
<1>3. DocumentLostByItsUpload'
  BY DEF TypeOK, DocumentLostByItsUpload, RowsAreWritten, ReadsHold, Expendable,
     FileOfUpload, Written, Asset, Medium, Document, Request, Fresh
<1>4. RowsAreWritten'
  BY DEF TypeOK, RowsAreWritten, FileOfUpload, Written, Asset, Medium, Document, Request,
     Fresh, AbsentMedium, MediaOf
<1>5. ASSUME NEW q \in Requests PROVE Stages(q)'
  BY DEF TypeOK, Request, Fresh
<1>6. ASSUME NEW q \in Requests PROVE ReadsHold(q)'
  BY DEF TypeOK, RowsAreWritten, ReadsHold, Expendable, FileOfUpload, Written, Asset,
     Medium, Document, Request, Fresh, AbsentMedium, MediaOf
<1>. QED
  BY <1>1, <1>2, <1>3, <1>4, <1>5, <1>6

LEMMA StopKeeps ==
  ASSUME FInv, NEW r \in Requests, Stop(r)
  PROVE  FInv'
<1>. USE FilesAssumption DEF Stop, FInv, Stages, Files, At, Moves, Done, Dooms, Captured, HasRow
<1>1. TypeOK'
  <2>1. stored' \subseteq Files
    BY DEF TypeOK, Request
  <2>2. asset' \in [Files -> Asset]
    BY DEF TypeOK, Asset, Request
  <2>3. media' \in [Media -> Medium]
    BY DEF TypeOK, Medium, Request, AbsentMedium
  <2>4. chat' \in [Chats -> {"none", "open", "deleted"}]
    BY DEF TypeOK, Request
  <2>5. doc' \in Document
    BY DEF TypeOK, Document, Request
  <2>6. req' \in [Requests -> Request]
    BY DEF TypeOK, Request, Fresh, Document, Medium, MediaOf
  <2>. QED
    BY <2>1, <2>2, <2>3, <2>4, <2>5, <2>6 DEF TypeOK
<1>2. RowsHaveFiles'
  BY DEF TypeOK, RowsHaveFiles, RowsAreWritten, ReadsHold, Expendable, FileOfUpload, Asset,
     Medium, Document, Request, Fresh, AbsentMedium, MediaOf
<1>3. DocumentLostByItsUpload'
  BY DEF TypeOK, DocumentLostByItsUpload, RowsAreWritten, ReadsHold, Expendable,
     FileOfUpload, Written, Asset, Medium, Document, Request, Fresh
<1>4. RowsAreWritten'
  BY DEF TypeOK, RowsAreWritten, FileOfUpload, Written, Asset, Medium, Document, Request,
     Fresh, AbsentMedium, MediaOf
<1>5. ASSUME NEW q \in Requests PROVE Stages(q)'
  BY DEF TypeOK, Request, Fresh
<1>6. ASSUME NEW q \in Requests PROVE ReadsHold(q)'
  BY DEF TypeOK, RowsAreWritten, ReadsHold, Expendable, FileOfUpload, Written, Asset,
     Medium, Document, Request, Fresh, AbsentMedium, MediaOf
<1>. QED
  BY <1>1, <1>2, <1>3, <1>4, <1>5, <1>6

-----------------------------------------------------------------------------
LEMMA InitEstablishes == Init => FInv
  BY FilesAssumption DEF Init, FInv, TypeOK, RowsHaveFiles, DocumentLostByItsUpload,
     RowsAreWritten, Stages, ReadsHold, At, FileOfUpload, Files, Captured, Fresh, AbsentMedium,
     Asset, Medium, Document, Request

LEMMA StepKeeps == FInv /\ [Next]_vars => FInv'
<1>. SUFFICES ASSUME FInv, [Next]_vars PROVE FInv'
  OBVIOUS
<1>1. CASE \E c \in Chats : OpenChat(c)
  BY <1>1, OpenChatKeeps
<1>2. CASE \E u \in Media, draft \in Drafts : MarkExtraction(u, draft)
  BY <1>2, MarkExtractionKeeps
<1>3. CASE OpenRow
  BY <1>3, OpenRowKeeps
<1>4. ASSUME NEW r \in Requests, Attach(r) PROVE FInv'
  BY <1>4, SaveUploadKeeps, RecordAssetKeeps, FindAssetKeeps, DeleteAssetKeeps DEF Attach
<1>5. ASSUME NEW r \in Requests, Converse(r) PROVE FInv'
  BY <1>5, LookUpKeeps, SaveCaptureKeeps, RecordMediumKeeps, ReadChatKeeps, DeleteChatKeeps
     DEF Converse
<1>6. ASSUME NEW r \in Requests, Onboard(r) PROVE FInv'
  BY <1>6, SaveDocumentKeeps, ReadPreviousKeeps, RecordDocumentKeeps, RemovePreviousKeeps,
     FindMediumKeeps, LinkMediumKeeps, ReadRowKeeps, DeleteRowKeeps DEF Onboard
<1>7. ASSUME NEW r \in Requests, Fail(r) \/ RemoveFiles(r) \/ Stop(r) PROVE FInv'
  BY <1>7, FailKeeps, RemoveFilesKeeps, StopKeeps
<1>8. CASE UNCHANGED vars
  BY <1>8 DEF vars, FInv, TypeOK, RowsHaveFiles, DocumentLostByItsUpload, RowsAreWritten,
     Stages, ReadsHold, At, Expendable, Written, FileOfUpload, Captured
<1>. QED
  BY <1>1, <1>2, <1>3, <1>4, <1>5, <1>6, <1>7, <1>8 DEF Next

\* What the requests have read and may still write stays consistent with the
\* rows and the files, whatever the interleaving and wherever a request fails.
THEOREM FilesInvariance == Spec => []FInv
  BY InitEstablishes, StepKeeps, PTL DEF Spec

\* Rows, requests and the storage keep their types.
THEOREM TypeCorrect == Spec => []TypeOK
  BY FilesInvariance, PTL DEF FInv

\* The file of a READY attachment and of a captured medium is in the storage,
\* whichever uploads, deletions and captures overlap or fail half-way.
THEOREM DownloadsFindTheirFile == Spec => []RowsHaveFiles
  BY FilesInvariance, PTL DEF FInv

\* The fiscal document an onboarding row points to is lost by nothing but the
\* failure of its own upload after the row was written.
THEOREM DocumentsStay == Spec => []DocumentLostByItsUpload
  BY FilesInvariance, PTL DEF FInv

=============================================================================

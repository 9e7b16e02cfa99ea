---------------------------- MODULE StoredFiles ----------------------------
(***************************************************************************)
(* The files of the system and the rows that promise them.  A file lives   *)
(* in the storage, its row in the database, and no transaction spans the   *)
(* two: uploads save the file and then write the row, and take the file    *)
(* back when that fails; deletions drop the row and then the file.         *)
(*                                                                         *)
(* Three kinds of row hold a storage key: the attachments of quotes and    *)
(* purchase offers, the media captured from WhatsApp conversations, and    *)
(* the fiscal document of a customer's onboarding.                         *)
(***************************************************************************)
EXTENDS Naturals

CONSTANTS
  Requests,   \* HTTP requests, webhooks and tool calls, one operation each
  Media,      \* media URLs of the provider
  Chats,      \* WhatsApp conversations
  Drafts,     \* drafts of quotes (clientDraftId)
  None,
  MaxRows     \* bound: onboarding rows the customer gets, one after another

ASSUME FilesAssumption ==
  /\ None \notin Requests \cup Media \cup Chats \cup Drafts
  /\ MaxRows \in Nat

VARIABLES
  stored,   \* the files in the storage
  asset,    \* table file_assets, with the draft it is the source document of
  media,    \* table whatsapp_inbound_attachments
  chat,     \* table whatsapp_conversations
  doc,      \* table customer_onboardings, of one customer
  req       \* what each request has read and has to do

vars == <<stored, asset, media, chat, doc, req>>

\* save() makes a new key: the key of the file a request saves is the request.
Files == Requests
-----------------------------------------------------------------------------
Asset == [status: {"ABSENT", "READY", "DELETED"}, draft: Drafts \cup {None}]

\* ABSENT: key None.  draft: lastQuoteDraftId, None while nothing was extracted.
Medium == [key: Files \cup {None}, chat: Chats \cup {None}, draft: Drafts \cup {None}]

AbsentMedium == [key |-> None, chat |-> None, draft |-> None]

\* id counts the rows the customer had; at most one exists.
Document == [id: 0..MaxRows, row: BOOLEAN, key: Files \cup {None}, medium: Files \cup {None}]

Request == [pc: {"unused", "looked", "saved", "found", "previous", "applied",
                 "removing", "done"},
            op: {"NONE", "UPLOAD", "DELETE", "CAPTURE", "DELETE_CHAT", "TAX",
                 "TAX_WHATSAPP", "DELETE_ROW"},
            draft: Drafts \cup {None}, file: Files \cup {None},
            medium: Media \cup {None}, chat: Chats \cup {None},
            id: 0..MaxRows, doomed: SUBSET Files, late: BOOLEAN]

Fresh == [pc |-> "unused", op |-> "NONE", draft |-> None, file |-> None,
          medium |-> None, chat |-> None, id |-> 0, doomed |-> {}, late |-> FALSE]

Init ==
  /\ stored = {}
  /\ asset = [f \in Files |-> [status |-> "ABSENT", draft |-> None]]
  /\ media = [u \in Media |-> AbsentMedium]
  /\ chat = [c \in Chats |-> "none"]
  /\ doc = [id |-> 0, row |-> FALSE, key |-> None, medium |-> None]
  /\ req = [r \in Requests |-> Fresh]

Captured(u) == media[u].key # None

At(r, pc, op) == req[r].pc = pc /\ req[r].op = op
Moves(r, rec) == req' = [req EXCEPT ![r] = rec]
Done(r) == Moves(r, [req[r] EXCEPT !.pc = "done"])
Dooms(r, files) == Moves(r, [req[r] EXCEPT !.pc = "removing", !.doomed = files])
-----------------------------------------------------------------------------
(* Attachments of quotes and of purchase offers (file-attachments).        *)

SaveUpload(r, draft) ==
  /\ req[r].pc = "unused"
  /\ Moves(r, [Fresh EXCEPT !.pc = "saved", !.op = "UPLOAD", !.draft = draft])
  /\ stored' = stored \cup {r}
  /\ UNCHANGED <<asset, media, chat, doc>>

RecordAsset(r) ==
  /\ At(r, "saved", "UPLOAD")
  /\ asset' = [asset EXCEPT ![r] = [status |-> "READY", draft |-> req[r].draft]]
  /\ Done(r)
  /\ UNCHANGED <<stored, media, chat, doc>>

\* findAccessibleFile, for a request that may delete the file it finds.
FindAsset(r, f) ==
  /\ req[r].pc = "unused"
  /\ asset[f].status = "READY"
  /\ Moves(r, [Fresh EXCEPT !.pc = "found", !.op = "DELETE", !.file = f])
  /\ UNCHANGED <<stored, asset, media, chat, doc>>

\* softDelete, by id: another request may have deleted it meanwhile.
DeleteAsset(r) ==
  /\ At(r, "found", "DELETE")
  /\ asset' = [asset EXCEPT ![req[r].file].status = "DELETED"]
  /\ Dooms(r, {req[r].file})
  /\ UNCHANGED <<stored, media, chat, doc>>
-----------------------------------------------------------------------------
(* Media of WhatsApp conversations.                                        *)

\* A first message opens the conversation.
OpenChat(c) ==
  /\ chat[c] = "none"
  /\ chat' = [chat EXCEPT ![c] = "open"]
  /\ UNCHANGED <<stored, asset, media, doc, req>>

\* capture-whatsapp-inbound-media: the webhook may be delivered twice at once,
\* and a message delivered again may be one of another conversation.
LookUp(r, u, c) ==
  /\ req[r].pc = "unused"
  /\ chat[c] = "open"
  /\ ~Captured(u)
  /\ Moves(r, [Fresh EXCEPT !.pc = "looked", !.op = "CAPTURE", !.medium = u, !.chat = c])
  /\ UNCHANGED <<stored, asset, media, chat, doc>>

SaveCapture(r) ==
  /\ At(r, "looked", "CAPTURE")
  /\ stored' = stored \cup {r}
  /\ Moves(r, [req[r] EXCEPT !.pc = "saved"])
  /\ UNCHANGED <<asset, media, chat, doc>>

\* The index on the URL and the reference to the message decide the insertion.
RecordMedium(r) ==
  /\ At(r, "saved", "CAPTURE")
  /\ ~Captured(req[r].medium)
  /\ chat[req[r].chat] = "open"
  /\ media' = [media EXCEPT ![req[r].medium] = [key |-> r, chat |-> req[r].chat, draft |-> None]]
  /\ Done(r)
  /\ UNCHANGED <<stored, asset, chat, doc>>

\* markQuoteExtraction
MarkExtraction(u, draft) ==
  /\ Captured(u)
  /\ media' = [media EXCEPT ![u].draft = draft]
  /\ UNCHANGED <<stored, asset, chat, doc, req>>

\* A draft that keeps its own copy of the source document.
SourceKept(draft) ==
  \E f \in Files : asset[f].status = "READY" /\ asset[f].draft = draft

MediaOf(c) == {u \in Media : Captured(u) /\ media[u].chat = c}

\* deleteConversation reads what hangs from it: files extracted to a draft that
\* keeps no copy stay.
ReadChat(r, c) ==
  /\ req[r].pc = "unused"
  /\ chat[c] = "open"
  /\ Moves(r, [Fresh EXCEPT !.pc = "found", !.op = "DELETE_CHAT", !.chat = c,
                 !.doomed = {media[u].key : u \in
                    {v \in MediaOf(c) : media[v].draft # None => SourceKept(media[v].draft)}}])
  /\ UNCHANGED <<stored, asset, media, chat, doc>>

\* Faulty variant: the media outlive the conversation.
DeleteChatOnly(r) ==
  /\ At(r, "found", "DELETE_CHAT")
  /\ chat[req[r].chat] = "open"
  /\ chat' = [chat EXCEPT ![req[r].chat] = "deleted"]
  /\ Dooms(r, req[r].doomed)
  /\ UNCHANGED <<stored, asset, media, doc>>

\* The rows of its media go with the conversation, and the links to them.
DeleteChat(r) ==
  LET c == req[r].chat IN
  /\ At(r, "found", "DELETE_CHAT")
  /\ chat[c] = "open"
  /\ chat' = [chat EXCEPT ![c] = "deleted"]
  /\ media' = [u \in Media |-> IF u \in MediaOf(c) THEN AbsentMedium ELSE media[u]]
  /\ doc' = [doc EXCEPT !.medium = IF @ \in {media[u].key : u \in MediaOf(c)} THEN None ELSE @]
  /\ Dooms(r, req[r].doomed)
  /\ UNCHANGED <<stored, asset>>
-----------------------------------------------------------------------------
(* The fiscal document of the customer (customer-onboarding).              *)

\* createManual, ensureAfterAcceptance
OpenRow ==
  /\ ~doc.row
  /\ doc.id < MaxRows
  /\ doc' = [id |-> doc.id + 1, row |-> TRUE, key |-> None, medium |-> None]
  /\ UNCHANGED <<stored, asset, media, chat, req>>

HasRow(r) == doc.row /\ doc.id = req[r].id

\* uploadTaxDocument
SaveDocument(r) ==
  /\ req[r].pc = "unused"
  /\ doc.row
  /\ stored' = stored \cup {r}
  /\ Moves(r, [Fresh EXCEPT !.pc = "saved", !.op = "TAX", !.id = doc.id])
  /\ UNCHANGED <<asset, media, chat, doc>>

\* ... after the extraction, which takes its time.
ReadPrevious(r) ==
  /\ At(r, "saved", "TAX")
  /\ Moves(r, [req[r] EXCEPT !.pc = "previous", !.file = IF HasRow(r) THEN doc.key ELSE None])
  /\ UNCHANGED <<stored, asset, media, chat, doc>>

\* The first update of applyExtraction.
RecordDocument(r) ==
  /\ At(r, "previous", "TAX")
  /\ HasRow(r)
  /\ doc' = [doc EXCEPT !.key = r, !.medium = None]
  /\ Moves(r, [req[r] EXCEPT !.pc = "applied"])
  /\ UNCHANGED <<stored, asset, media, chat>>

\* Its second update, of the status, went through; the previous file can go.
RemovePrevious(r) ==
  /\ At(r, "applied", "TAX")
  /\ HasRow(r)
  /\ stored' = stored \ {req[r].file}
  /\ Done(r)
  /\ UNCHANGED <<asset, media, chat, doc>>

\* processWhatsAppTaxDocument: the row links the attachment and drops its key.
FindMedium(r, u) ==
  /\ req[r].pc = "unused"
  /\ doc.row
  /\ Captured(u)
  /\ Moves(r, [Fresh EXCEPT !.pc = "found", !.op = "TAX_WHATSAPP", !.file = media[u].key,
                 !.id = doc.id])
  /\ UNCHANGED <<stored, asset, media, chat, doc>>

LinkMedium(r) ==
  /\ At(r, "found", "TAX_WHATSAPP")
  /\ HasRow(r)
  /\ \E u \in Media : media[u].key = req[r].file
  /\ doc' = [doc EXCEPT !.key = None, !.medium = req[r].file]
  /\ Done(r)
  /\ UNCHANGED <<stored, asset, media, chat>>

\* deleteUnlinked reads the row ...
ReadRow(r) ==
  /\ req[r].pc = "unused"
  /\ doc.row
  /\ Moves(r, [Fresh EXCEPT !.pc = "found", !.op = "DELETE_ROW", !.id = doc.id, !.file = doc.key])
  /\ UNCHANGED <<stored, asset, media, chat, doc>>

\* Faulty variant: storage.delete is called for a row without a document too.
DeleteRowAnyKey(r) ==
  /\ At(r, "found", "DELETE_ROW")
  /\ HasRow(r)
  /\ doc' = [doc EXCEPT !.row = FALSE, !.key = None, !.medium = None]
  /\ Dooms(r, {req[r].file})
  /\ UNCHANGED <<stored, asset, media, chat>>

\* ... and deletes it if its status is still the one read: other fields may
\* have changed.
DeleteRow(r) ==
  /\ At(r, "found", "DELETE_ROW")
  /\ HasRow(r)
  /\ doc' = [doc EXCEPT !.row = FALSE, !.key = None, !.medium = None]
  /\ Dooms(r, {req[r].file} \ {None})
  /\ UNCHANGED <<stored, asset, media, chat>>
-----------------------------------------------------------------------------
\* Faulty variant: what a failed upload takes back is the file of another row.
FailTakesPrevious(r) ==
  /\ req[r].pc \in {"saved", "previous", "applied"}
  /\ Moves(r, [req[r] EXCEPT !.pc = "removing", !.late = req[r].pc = "applied",
                 !.doomed = ({r} \cup {req[r].file}) \ {None}])
  /\ UNCHANGED <<stored, asset, media, chat, doc>>

\* A step after save() throws: the catch takes the saved file back, whatever
\* was already written.
Fail(r) ==
  /\ req[r].pc \in {"saved", "previous", "applied"}
  /\ Moves(r, [req[r] EXCEPT !.pc = "removing", !.late = req[r].pc = "applied", !.doomed = {r}])
  /\ UNCHANGED <<stored, asset, media, chat, doc>>

\* storage.delete of each file, of which any may fail.
RemoveFiles(r) ==
  /\ req[r].pc = "removing"
  /\ \E gone \in SUBSET req[r].doomed : stored' = stored \ gone
  /\ Done(r)
  /\ UNCHANGED <<asset, media, chat, doc>>

\* A guard refuses, an error is not handled, or the process dies.
Stop(r) ==
  /\ req[r].pc \notin {"unused", "done"}
  /\ Done(r)
  /\ UNCHANGED <<stored, asset, media, chat, doc>>

Attach(r) ==
  \/ \E draft \in Drafts \cup {None} : SaveUpload(r, draft)
  \/ RecordAsset(r)
  \/ \E f \in Files : FindAsset(r, f)
  \/ DeleteAsset(r)

Converse(r) ==
  \/ \E u \in Media, c \in Chats : LookUp(r, u, c)
  \/ SaveCapture(r)
  \/ RecordMedium(r)
  \/ \E c \in Chats : ReadChat(r, c)
  \/ DeleteChat(r)

Onboard(r) ==
  \/ SaveDocument(r)
  \/ ReadPrevious(r)
  \/ RecordDocument(r)
  \/ RemovePrevious(r)
  \/ \E u \in Media : FindMedium(r, u)
  \/ LinkMedium(r)
  \/ ReadRow(r)
  \/ DeleteRow(r)

Next ==
  \/ \E c \in Chats : OpenChat(c)
  \/ \E u \in Media, draft \in Drafts : MarkExtraction(u, draft)
  \/ OpenRow
  \/ \E r \in Requests :
       Attach(r) \/ Converse(r) \/ Onboard(r) \/ Fail(r) \/ RemoveFiles(r) \/ Stop(r)

Spec == Init /\ [][Next]_vars
-----------------------------------------------------------------------------
(* Properties.                                                             *)

\* Rows and requests have the shape of their tables.
TypeOK ==
  /\ stored \subseteq Files
  /\ asset \in [Files -> Asset]
  /\ media \in [Media -> Medium]
  /\ chat \in [Chats -> {"none", "open", "deleted"}]
  /\ doc \in Document
  /\ req \in [Requests -> Request]

\* What is listed can be downloaded: whatever runs at the same time or fails
\* half-way, the file of a READY attachment and of a captured medium is in the
\* storage ("Attachment content not found." is for a file just being deleted).
RowsHaveFiles ==
  /\ \A f \in Files : asset[f].status = "READY" => f \in stored
  /\ \A u \in Media : Captured(u) => media[u].key \in stored

\* The fiscal document of a row is gone from the storage only if its own upload
\* failed after the row was written: replacing it, concurrent uploads and the
\* deletion of another row never take it (uploadTaxDocument, deleteUnlinked).
DocumentLostByItsUpload ==
  doc.key # None /\ doc.key \notin stored => req[doc.key].late
=============================================================================

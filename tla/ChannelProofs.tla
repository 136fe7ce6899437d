--------------------------- MODULE ChannelProofs ----------------------------
(***************************************************************************)
(* The file table, the channel and what users see of both.                 *)
(*                                                                         *)
(* No request touches a message of an earlier mount, whatever the network  *)
(* does: every message id that the process holds, in the table or in the   *)
(* response buffer, is of its own mount, although the buffer keeps parts   *)
(* of old answers and is parsed after calls that failed.                   *)
(*                                                                         *)
(* While answers come whole, granted or refused, every file has a message  *)
(* of its own; while they are granted, table and channel agree and the     *)
(* handlers implement the document store.                                  *)
(***************************************************************************)
EXTENDS TelegramFSProofs

\* The message ids in a buffer, an answer, a record, a table are above e.  In
\* a buffer one may lack its end.
LaterJson(buf, e) ==
  \A k \in 1 .. 3 : buf[k].key = "message_id" =>
                      buf[k].val = Unended \/ buf[k].val > e

LaterReply(reply, e) ==
  \A k \in 1 .. Len(reply) : reply[k].key = "message_id" => reply[k].val > e

LaterFile(f, e) == f.message_id # NoId => f.message_id > e

LaterTable(t, e) == \A i \in 1 .. Len(t.files) : LaterFile(t.files[i], e)

\* The invariant: ids of this mount are above epoch, and the process holds
\* no others.
LaterInv ==
  /\ epoch <= Len(blobs)
  /\ up => LaterJson(json, epoch) /\ LaterTable(st, epoch)

-----------------------------------------------------------------------------
(* The response buffer.                                                    *)

\* An answer, or a piece of one, over an older answer.
LEMMA WriterLater ==
  ASSUME NEW e \in Nat, NEW buf, LaterJson(buf, e),
         NEW reply \in Seq(Cells), LaterReply(reply, e)
  PROVE  LaterJson(curl_response_json_writer(buf, reply), e)
<1>1. Len(reply) \in Nat
  OBVIOUS
<1> QED
  BY <1>1 DEF curl_response_json_writer, LaterJson, LaterReply

\* The buffer after a call, however the answer came.
LEMMA ReceivedLater ==
  ASSUME NEW e \in Nat, NEW buf \in JsonBuffers, Legible(buf), LaterJson(buf, e),
         NEW reply \in Replies, LaterReply(reply, e), NEW o,
         NEW new \in Received(buf, o, reply)
  PROVE  LaterJson(new, e)
<1>1. reply \in Seq(Cells) /\ Len(reply) \in Nat \ {0}
  BY ReplyShape
<1>2. CASE Failed(o)
  <2>1. new \in BrokenOff(buf, reply)
    BY <1>2 DEF Received
  <2>2. \A k \in 1 .. 3 : \/ new[k].val = Unended
                          \/ new[k] = buf[k]
                          \/ new[k].key = "other"
                          \/ k \in 1 .. Len(reply) /\ new[k] = reply[k]
    BY <2>1, BrokenBuffer
  <2> QED
    BY <2>2 DEF LaterJson, LaterReply
<1>3. CASE ~Failed(o) /\ o = "split"
  <2> DEFINE piece == <<reply[1]>>
             first == curl_response_json_writer(buf, piece)
  <2>1. piece \in Seq(Cells) /\ Len(piece) = 1 /\ piece[1] = reply[1]
    BY <1>1
  <2> HIDE DEF piece
  <2>2. LaterReply(piece, e)
    BY <1>1, <2>1 DEF LaterReply
  <2>3. LaterJson(first, e)
    BY <2>1, <2>2, WriterLater
  <2>4. /\ Tail(reply) \in Seq(Cells) /\ Len(Tail(reply)) = Len(reply) - 1
        /\ \A k \in 1 .. Len(Tail(reply)) : Tail(reply)[k] = reply[k + 1]
    BY <1>1
  <2>5. LaterReply(Tail(reply), e)
    BY <1>1, <2>4 DEF LaterReply
  <2>6. new = curl_response_json_writer(first, Tail(reply))
    BY <1>3 DEF Received, piece
  <2> HIDE DEF first
  <2> QED
    BY <2>3, <2>4, <2>5, <2>6, WriterLater
<1>4. CASE ~Failed(o) /\ o # "split"
  BY <1>1, <1>4, WriterLater DEF Received
<1> QED
  BY <1>2, <1>3, <1>4

\* A message id that is parsed is above e, or the one that was there before.
LEMMA ParsedLater ==
  ASSUME NEW e \in Nat, NEW buf \in JsonBuffers, LaterJson(buf, e),
         HasField(buf, "message_id"), NEW dst \in Nat,
         NEW v, v = parse_response_field_from_json(dst, buf, "message_id")
  PROVE  v = dst \/ v > e
<1>1. PICK k \in 1 .. 3 :
        /\ buf[k].key = "message_id"
        /\ v = IF buf[k].val = Unended THEN dst ELSE buf[k].val
  BY ParsedField
<1> QED
  BY <1>1 DEF LaterJson

\* Only an upload's answer has a message id.
LEMMA AnswersLater ==
  ASSUME NEW e \in Nat
  PROVE  /\ LaterReply(RefusedReply, e)
         /\ LaterReply(DeletedReply, e)
         /\ \A fid \in Nat : LaterReply(FileReply(fid), e)
         /\ \A mid, fid \in Nat : mid > e => LaterReply(SentReply(mid, fid), e)
         /\ LaterJson(EmptyJson, e)
<1> USE DEF Cell, Other, LaterReply
<1>1. LaterReply(RefusedReply, e) /\ LaterReply(DeletedReply, e)
  BY DEF RefusedReply, DeletedReply
<1>2. \A fid \in Nat : LaterReply(FileReply(fid), e)
  BY DEF FileReply
<1>3. \A mid, fid \in Nat : mid > e => LaterReply(SentReply(mid, fid), e)
  BY DEF SentReply
<1>4. LaterJson(EmptyJson, e)
  BY DEF EmptyJson, LaterJson
<1> QED
  BY <1>1, <1>2, <1>3, <1>4

\* A call whose answer, if it is granted, has ids above e.
LEMMA CallLater ==
  ASSUME NEW e \in Nat, NEW buf \in JsonBuffers, Legible(buf), LaterJson(buf, e),
         NEW o, NEW granted,
         NEW reply, granted => reply \in Replies /\ LaterReply(reply, e),
         NEW new \in Received(buf, o, Answer(o, granted, reply))
  PROVE  LaterJson(new, e)
<1>1. RefusedReply \in Replies /\ LaterReply(RefusedReply, e)
  BY ReplyCells, 1 \in Nat \ {0}, AnswersLater
<1>2. /\ Answer(o, granted, reply) \in Replies
      /\ LaterReply(Answer(o, granted, reply), e)
  BY <1>1 DEF Answer
<1> QED
  BY <1>2, ReceivedLater

-----------------------------------------------------------------------------
(* The calls.                                                              *)

\* tg_file_load_contents clears the buffer and gets no message id.
LEMMA LoadLater ==
  ASSUME ClientOK, NEW e \in Nat, NEW f \in TgFiles,
         NEW src \in tg_file_load_contents(f)
  PROVE  LaterJson(src.json, e)
<1>0. PICK o \in Outcomes :
        \E buf \in GotFile(EmptyJson, f, o) : src \in Loads(buf, o)
  BY DEF tg_file_load_contents
<1>1. PICK buf \in GotFile(EmptyJson, f, o) : src \in Loads(buf, o)
  BY <1>0
<1>2. src.json = buf
  BY <1>1 DEF Loads, Load
<1> DEFINE known == f.file_id \in 1 .. Len(blobs)
<1>3. ASSUME known
      PROVE  /\ FileReply(f.file_id) \in Replies
             /\ LaterReply(FileReply(f.file_id), e)
  <2>1. f.file_id \in Nat \ {0}
    BY <1>3 DEF ClientOK
  <2> QED
    BY <2>1, ReplyCells, AnswersLater
<1>4. LaterJson(EmptyJson, e)
  BY AnswersLater
<1> HIDE DEF known
<1>5. buf \in Received(EmptyJson, o, Answer(o, known, FileReply(f.file_id)))
  BY <1>1 DEF GotFile, known
<1>6. LaterJson(buf, e)
  BY <1>3, <1>4, <1>5, ClearedBuffer, CallLater
<1> QED
  BY <1>2, <1>6

\* What a call leaves of the channel up to e.
KeptUpTo(e) ==
  /\ \A m \in msgs : m.mid <= e => m \in msgs'
  /\ Len(blobs) <= Len(blobs')

\* sendDocument adds a message with a new id.
LEMMA SendLater ==
  ASSUME ClientOK, NEW e \in Nat, e <= Len(blobs),
         NEW buf \in JsonBuffers, Legible(buf), LaterJson(buf, e),
         NEW f, NEW data \in Contents, NEW o,
         sendDocument(buf, f, data, o)
  PROVE  LaterJson(json', e) /\ KeptUpTo(e)
<1>1. blobs \in Seq(Contents) /\ Len(blobs) \in Nat
  BY DEF ClientOK
<1>2. NewId \in Nat \ {0} /\ NewId > e
  BY <1>1 DEF NewId
<1>3. json' \in Received(buf, o, Answer(o, TRUE, SentReply(NewId, NewId)))
  BY DEF sendDocument
<1>4. SentReply(NewId, NewId) \in Replies /\ LaterReply(SentReply(NewId, NewId), e)
  BY <1>2, ReplyCells, AnswersLater
<1>5. LaterJson(json', e)
  BY <1>3, <1>4, CallLater
<1>6. KeptUpTo(e)
  BY <1>1 DEF sendDocument, KeptUpTo
<1> QED
  BY <1>5, <1>6

\* editMessageMedia changes the message it names, and answers with its id.
LEMMA EditLater ==
  ASSUME ClientOK, NEW e \in Nat, e <= Len(blobs),
         NEW buf \in JsonBuffers, Legible(buf), LaterJson(buf, e),
         NEW f \in TgFiles, f.message_id > e, NEW data \in Contents, NEW o,
         editMessageMedia(buf, f, data, o)
  PROVE  LaterJson(json', e) /\ KeptUpTo(e)
<1>1. /\ blobs \in Seq(Contents) /\ Len(blobs) \in Nat
      /\ \A m \in msgs : m.mid \in Nat
  BY DEF ClientOK, Messages
<1>2. NewId \in Nat \ {0} /\ f.message_id \in Nat \ {0}
  BY <1>1 DEF NewId, TgFiles
<1> DEFINE granted == InChannel(f.message_id)
           reply   == SentReply(f.message_id, NewId)
<1>3. json' \in Received(buf, o, Answer(o, granted, reply))
  BY DEF editMessageMedia
<1>4. reply \in Replies /\ LaterReply(reply, e)
  BY <1>2, ReplyCells, AnswersLater
<1> HIDE DEF granted, reply
<1>5. LaterJson(json', e)
  BY <1>3, <1>4, CallLater
<1>6. ASSUME NEW m \in msgs, m.mid <= e PROVE m \in msgs'
  <2>1. m.mid # f.message_id
    BY <1>1, <1>2, <1>6
  <2> QED
    BY <2>1 DEF editMessageMedia
<1>7. Len(blobs) <= Len(blobs')
  BY <1>1 DEF editMessageMedia
<1> QED
  BY <1>5, <1>6, <1>7 DEF KeptUpTo

\* tg_put_file, with any outcome: what the record then holds is above e.
LEMMA PutLater ==
  ASSUME ClientOK, NEW e \in Nat, e <= Len(blobs),
         NEW buf \in JsonBuffers, Legible(buf), LaterJson(buf, e),
         NEW f \in TgFiles, HasMessage(f), LaterFile(f, e),
         NEW data \in Contents, NEW o \in Outcomes,
         tg_put_file(buf, f, data, o)
  PROVE  /\ LaterJson(json', e) /\ KeptUpTo(e)
         /\ ~PutAborts(json', f, o) => LaterFile(PutRecord(json', f), e)
<1>1. LaterJson(json', e) /\ KeptUpTo(e)
  <2>1. CASE f.file_id = NoId
    BY <2>1, SendLater DEF tg_put_file
  <2>2. CASE f.file_id # NoId
    <3>1. f.message_id > e
      BY <2>2 DEF HasMessage, LaterFile
    <3> QED
      BY <2>2, <3>1, EditLater DEF tg_put_file
  <2> QED
    BY <2>1, <2>2
<1>2. json' \in JsonBuffers
  BY PutOK DEF ClientOK
<1>3. ASSUME ~PutAborts(json', f, o)
      PROVE  LaterFile(PutRecord(json', f), e)
  <2> DEFINE fid == parse_response_field_from_json(NoId, json', "file_id")
             mid == parse_response_field_from_json(f.message_id, json', "message_id")
  <2>1. CASE check_ok_status_in_json(json') /\ f.file_id = NoId
    <3>1. HasField(json', "message_id")
      BY <1>3, <2>1 DEF PutAborts
    <3>a. f.message_id \in Nat
      BY DEF TgFiles
    <3>2. mid = f.message_id \/ mid > e
      <4>1. PICK b \in JsonBuffers, d \in Nat : b = json' /\ d = f.message_id
        BY <1>2, <3>a
      <4>2. PICK v : v = parse_response_field_from_json(d, b, "message_id")
        OBVIOUS
      <4>3. HasField(b, "message_id") /\ LaterJson(b, e) /\ v = mid
        BY <1>1, <3>1, <4>1, <4>2
      <4> QED
        BY <4>1, <4>2, <4>3, ParsedLater
    <3> HIDE DEF fid, mid
    <3>3. PutRecord(json', f) = [f EXCEPT !.file_id = fid, !.message_id = mid]
      BY <2>1 DEF PutRecord, fid, mid
    <3>4. PutRecord(json', f).message_id = mid
      BY <3>3 DEF TgFiles
    <3> QED
      BY <3>2, <3>4 DEF LaterFile
  <2>2. CASE ~(check_ok_status_in_json(json') /\ f.file_id = NoId)
    <3>1. PutRecord(json', f) = f \/ PutRecord(json', f) = [f EXCEPT !.file_id = fid]
      BY <2>2 DEF PutRecord
    <3> HIDE DEF fid
    <3>2. PutRecord(json', f).message_id = f.message_id
      BY <3>1 DEF TgFiles
    <3> QED
      BY <3>2 DEF LaterFile
  <2> QED
    BY <2>1, <2>2
<1> QED
  BY <1>1, <1>3

\* deleteMessage takes the message it names, with no id none.
LEMMA DeleteLater ==
  ASSUME ClientOK, NEW e \in Nat, LaterJson(json, e),
         NEW f \in TgFiles, LaterFile(f, e), NEW o,
         tg_remove_message_with_file(f, o)
  PROVE  LaterJson(json', e) /\ KeptUpTo(e)
<1>1. /\ Len(blobs) \in Nat /\ f.message_id \in Nat
      /\ \A m \in msgs : m.mid \in Nat /\ m.mid # NoId
  BY DEF ClientOK, Messages, TgFiles
<1>2. json' \in Received(json, o, Answer(o, InChannel(f.message_id), DeletedReply))
  BY DEF tg_remove_message_with_file
<1>3. DeletedReply \in Replies /\ LaterReply(DeletedReply, e)
  BY ReplyCells, 1 \in Nat \ {0}, AnswersLater
<1>4. LaterJson(json', e)
  BY <1>2, <1>3, CallLater DEF ClientOK
<1>5. ASSUME NEW m \in msgs, m.mid <= e PROVE m \in msgs'
  <2>1. m.mid # f.message_id
    BY <1>1, <1>5 DEF LaterFile, NoId
  <2> QED
    BY <2>1 DEF tg_remove_message_with_file
<1>6. Len(blobs) <= Len(blobs')
  BY <1>1 DEF tg_remove_message_with_file
<1> QED
  BY <1>4, <1>5, <1>6 DEF KeptUpTo

-----------------------------------------------------------------------------
(* The table.                                                              *)

\* A push, a removal and an assignment bring in no other ids.
LEMMA PushLater ==
  ASSUME NEW e, NEW t \in Storages, LaterTable(t, e),
         NEW f \in TgFiles, LaterFile(f, e),
         NEW u, u = tg_storage_push(t, f)
  PROVE  LaterTable(u, e)
<1>1. /\ Len(t.files) \in Nat
      /\ Len(u.files) = Len(t.files) + 1
      /\ u.files[Len(t.files) + 1] = f
      /\ \A k \in 1 .. Len(t.files) : u.files[k] = t.files[k]
  <2>1. Len(t.files) \in Nat
    BY StorageShape
  <2> QED
    BY <2>1, PushTable
<1>2. ASSUME NEW k \in 1 .. Len(u.files) PROVE LaterFile(u.files[k], e)
  <2>1. k \in 1 .. Len(t.files) \/ k = Len(t.files) + 1
    BY <1>1
  <2> QED
    BY <1>1, <2>1 DEF LaterTable
<1> QED
  BY <1>2 DEF LaterTable

\* A removal leaves no id that was not there.
LEMMA RemoveLater ==
  ASSUME NEW e, NEW t \in Storages, LaterTable(t, e), NEW q,
         NEW u, u = tg_storage_remove_by_path(t, q)
  PROVE  LaterTable(u, e)
<1> DEFINE i == tg_storage_find_by_path(t, q)
<1>1. CASE i = 0
  BY <1>1 DEF tg_storage_remove_by_path
<1>2. CASE i # 0
  <2>1. /\ Len(t.files) \in Nat /\ i \in 1 .. Len(t.files)
        /\ Len(u.files) = Len(t.files) - 1
        /\ \A k \in 1 .. Len(u.files) :
             u.files[k] = IF k = i THEN t.files[Len(t.files)] ELSE t.files[k]
    BY <1>2, RemoveTable, StorageShape
  <2> HIDE DEF i
  <2> QED
    BY <2>1 DEF LaterTable
<1> QED
  BY <1>1, <1>2

\* An entry is replaced by one whose id is later too.
LEMMA UpdateLater ==
  ASSUME NEW e, NEW t \in Storages, LaterTable(t, e), NEW i,
         NEW f, LaterFile(f, e),
         NEW u, u = [t EXCEPT !.files[i] = f]
  PROVE  LaterTable(u, e)
<1>1. t.files \in Seq(TgFiles) /\ Len(t.files) \in Nat
  BY StorageShape
<1>2. u.files = [t.files EXCEPT ![i] = f]
  BY DEF Storages
<1>3. /\ Len(u.files) = Len(t.files)
      /\ \A k \in 1 .. Len(t.files) :
           u.files[k] = IF k = i THEN f ELSE t.files[k]
  BY <1>1, <1>2
<1> QED
  BY <1>3 DEF LaterTable

-----------------------------------------------------------------------------
(* The steps.                                                              *)

EarlierOK == LaterInv' /\ KeepsEarlierMounts

\* What a step of a mounted file system has to show.
LEMMA MountedStep ==
  ASSUME IInv, LaterInv, epoch' = epoch, KeptUpTo(epoch),
         up' => LaterJson(json', epoch) /\ LaterTable(st', epoch),
         Len(blobs') \in Nat
  PROVE  EarlierOK
<1>1. epoch \in Nat /\ Len(blobs) \in Nat
  BY DEF IInv, ProcessInv, ClientOK
<1>2. epoch' <= Len(blobs')
  BY <1>1 DEF LaterInv, KeptUpTo
<1> QED
  BY <1>2 DEF EarlierOK, LaterInv, KeepsEarlierMounts, KeptUpTo

\* A step without a call.
LEMMA SilentStep ==
  ASSUME IInv, LaterInv, epoch' = epoch, UNCHANGED clientVars,
         up' => up /\ LaterTable(st', epoch)
  PROVE  EarlierOK
<1>1. Len(blobs) \in Nat
  BY DEF IInv, ClientOK
<1>2. KeptUpTo(epoch) /\ Len(blobs') \in Nat
  BY <1>1 DEF KeptUpTo, clientVars
<1>3. up' => LaterJson(json', epoch) /\ LaterTable(st', epoch)
  BY DEF LaterInv, clientVars
<1> QED
  BY <1>2, <1>3, MountedStep

\* A mount starts with neither table nor answers.
LEMMA MountLater ==
  ASSUME IInv, Mount
  PROVE  EarlierOK
<1>1. /\ ~up /\ json' = EmptyJson /\ epoch' = Len(blobs) /\ blobs' = blobs
      /\ st' = tg_storage_push(tg_storage_new, tg_file_new_dir(Root))
  BY DEF Mount
<1>2. Len(blobs) \in Nat
  BY DEF IInv, ClientOK
<1>3. LaterJson(json', epoch')
  BY <1>1, <1>2, AnswersLater
<1>4. tg_storage_new \in Storages /\ LaterTable(tg_storage_new, Len(blobs))
  BY DEF tg_storage_new, Storages, LaterTable
<1>5. tg_file_new_dir(Root) \in TgFiles /\ LaterFile(tg_file_new_dir(Root), Len(blobs))
  BY DEF tg_file_new_dir, TgFiles, LaterFile, NoId
<1>6. LaterTable(st', epoch')
  BY <1>1, <1>4, <1>5, PushLater
<1> QED
  BY <1>1, <1>2, <1>3, <1>6 DEF EarlierOK, LaterInv, KeepsEarlierMounts

\* hello_create and hello_mkdir push entries without ids.
LEMMA NewEntryLater ==
  ASSUME IInv, LaterInv, up, NEW f \in TgFiles, f.message_id = NoId,
         st' = tg_storage_push(st, f), epoch' = epoch, UNCHANGED clientVars
  PROVE  EarlierOK
<1>1. LaterTable(st', epoch)
  BY PushLater DEF IInv, TableInv, LaterInv, LaterFile
<1> QED
  BY <1>1, SilentStep

\* The removal of an entry and of its message, or the end of the process.
LEMMA DeletedLater ==
  ASSUME IInv, LaterInv, up, NEW k \in 1 .. Len(st.files), NEW o \in Outcomes,
         tg_remove_message_with_file(st.files[k], o), epoch' = epoch,
         up' => \E q : st' = tg_storage_remove_by_path(st, q)
  PROVE  EarlierOK
<1>1. st \in Storages /\ epoch \in Nat /\ ClientOK
  BY DEF IInv, TableInv, ProcessInv
<1>2. st.files[k] \in TgFiles /\ LaterFile(st.files[k], epoch)
  BY <1>1, StorageShape DEF LaterInv, LaterTable
<1>3. LaterJson(json', epoch) /\ KeptUpTo(epoch)
  BY <1>1, <1>2, DeleteLater DEF LaterInv
<1>4. Len(blobs') \in Nat
  BY <1>1 DEF tg_remove_message_with_file, ClientOK
<1>5. up' => LaterTable(st', epoch)
  BY <1>1, RemoveLater DEF LaterInv
<1> QED
  BY <1>3, <1>4, <1>5, MountedStep

\* hello_unlink.
LEMMA UnlinkLater ==
  ASSUME IInv, LaterInv, NEW p \in Paths, hello_unlink(p)
  PROVE  EarlierOK
<1>1. Ready /\ IsFile(p)
  BY DEF hello_unlink
<1>2. PICK o \in Outcomes :
        /\ tg_remove_message_with_file(Entry(p), o)
        /\ IF RemoveAborts(json', o) THEN Gone
           ELSE /\ st' = tg_storage_remove_by_path(st, p)
                /\ UNCHANGED <<up, handles, stray, sweep, epoch>>
  BY DEF hello_unlink, RemovedEntry
<1>3. epoch' = epoch /\ (up' => st' = tg_storage_remove_by_path(st, p))
  BY <1>2 DEF Gone
<1>4. In(st, p) /\ st \in Storages
  BY <1>1, IsFileEntry DEF IInv, TableInv
<1>5. PICK k \in 1 .. Len(st.files) : EntryAt(st, p) = st.files[k]
  BY <1>4, EntryPosition
<1>6. Entry(p) = st.files[k]
  BY <1>5 DEF Entry, EntryAt, Find
<1> QED
  BY <1>1, <1>2, <1>3, <1>6, DeletedLater DEF Ready

\* One turn of hello_rmdir's loop.
LEMMA RmdirTurnLater ==
  ASSUME IInv, LaterInv, rmdir_turn
  PROVE  EarlierOK
<1> DEFINE file == st.files[NextInDir]
<1>1. up /\ Sweeping /\ NextInDir # 0
  BY DEF rmdir_turn
<1>2. NextInDir \in 1 .. Len(st.files)
  BY <1>1, FoundInDirectory
<1>3. epoch' = epoch /\ (up' => st' = tg_storage_remove_by_path(st, file.path))
  BY DEF rmdir_turn, Gone
<1>4. CASE file.file_size > 0
  <2>1. PICK o \in Outcomes : tg_remove_message_with_file(file, o)
    BY <1>4 DEF rmdir_turn
  <2> QED
    BY <1>1, <1>2, <1>3, <2>1, DeletedLater
<1>5. CASE ~(file.file_size > 0)
  <2>1. UNCHANGED clientVars
    BY <1>5 DEF rmdir_turn
  <2>2. up' => LaterTable(st', epoch)
    BY <1>1, <1>3, RemoveLater DEF IInv, TableInv, LaterInv
  <2> QED
    BY <1>1, <1>3, <2>1, <2>2, SilentStep
<1> QED
  BY <1>4, <1>5

\* hello_read.
LEMMA ReadLater ==
  ASSUME IInv, LaterInv, NEW p \in Paths, NEW range \in Ranges,
         hello_read(p, range)
  PROVE  EarlierOK
<1>1. Ready /\ is_open(p) /\ UNCHANGED <<msgs, blobs>>
  BY DEF hello_read
<1>2. Exists(p) /\ Entry(p) \in TgFiles /\ epoch \in Nat /\ ClientOK /\ up
  BY <1>1, OpenFile DEF IInv, ProcessInv, Ready
<1>3. epoch' = epoch /\ (up' => st' = st) /\ LaterJson(json', epoch)
  <2>1. CASE Entry(p).file_id = NoId
    BY <1>2, <2>1 DEF hello_read, LaterInv
  <2>2. CASE Entry(p).file_id # NoId
    <3>1. PICK src \in tg_file_load_contents(Entry(p)) :
            /\ json' = src.json
            /\ Gone \/ UNCHANGED <<up, st, handles, stray, sweep, epoch>>
      BY <1>2, <2>2 DEF hello_read
    <3>2. LaterJson(src.json, epoch)
      BY <1>2, LoadLater
    <3> QED
      BY <3>1, <3>2 DEF Gone
  <2> QED
    BY <2>1, <2>2
<1>4. KeptUpTo(epoch) /\ Len(blobs') \in Nat
  BY <1>1, <1>2 DEF KeptUpTo, ClientOK
<1>5. up' => LaterTable(st', epoch)
  BY <1>2, <1>3 DEF LaterInv
<1> QED
  BY <1>3, <1>4, <1>5, MountedStep

\* hello_write: whatever was parsed as the answer, its ids are of this mount.
LEMMA WriteLater ==
  ASSUME IInv, LaterInv, NEW p \in Paths, NEW chunk \in Chunks,
         hello_write(p, chunk)
  PROVE  EarlierOK
<1> DEFINE file == Entry(p)
<1>1. Ready /\ is_open(p)
  BY DEF hello_write
<1>2. /\ In(st, p) /\ Exists(p) /\ st \in Storages
      /\ file = EntryAt(st, p) /\ file \in TgFiles
      /\ file.type = TG_FILE /\ HasMessage(file)
      /\ epoch \in Nat /\ ClientOK /\ up
  BY <1>1, OpenFile DEF IInv, ProcessInv, Ready
<1>3. LaterFile(file, epoch)
  <2>1. PICK k \in 1 .. Len(st.files) : EntryAt(st, p) = st.files[k]
    BY <1>2, EntryPosition
  <2> QED
    BY <1>2, <2>1 DEF LaterInv, LaterTable
<1>4. PICK src \in Original(file, FALSE) :
        IF src.dies THEN Gone /\ json' = src.json /\ UNCHANGED <<msgs, blobs>>
        ELSE \E o \in Outcomes :
          LET data == Inserted(src.data, chunk.off, chunk.data) IN
          /\ tg_put_file(src.json, file, data, o)
          /\ IF PutAborts(json', file, o) THEN Gone
             ELSE
               /\ st' = [st EXCEPT !.files[Find(p)] =
                          [PutRecord(json', file) EXCEPT !.file_size = Len(data)]]
               /\ UNCHANGED <<up, handles, stray, sweep, epoch>>
  <2>1. TG_FILE # TG_DIR
    BY DEF TG_FILE, TG_DIR
  <2> QED
    BY <1>2, <2>1 DEF hello_write
<1>5. /\ src.data \in Contents
      /\ src.json \in JsonBuffers /\ Legible(src.json)
      /\ LaterJson(src.json, epoch)
  <2>1. CASE file.file_size > 0
    BY <1>2, <2>1, LoadOK, LoadLater DEF Original
  <2>2. CASE ~(file.file_size > 0)
    <3>1. src.data = << >> /\ src.json = json
      BY <2>2 DEF Original, Load
    <3>2. << >> \in Contents
      BY DEF Contents
    <3> QED
      BY <1>2, <3>1, <3>2 DEF ClientOK, LaterInv
  <2> QED
    BY <2>1, <2>2
<1>6. CASE src.dies
  <2>1. Gone /\ json' = src.json /\ UNCHANGED <<msgs, blobs>>
    BY <1>4, <1>6
  <2>2. KeptUpTo(epoch) /\ Len(blobs') \in Nat
    BY <1>2, <2>1 DEF KeptUpTo, ClientOK
  <2>3. epoch' = epoch /\ ~up'
    BY <2>1 DEF Gone
  <2> QED
    BY <2>2, <2>3, MountedStep
<1>7. CASE ~src.dies
  <2> DEFINE data == Inserted(src.data, chunk.off, chunk.data)
             r    == PutRecord(json', file)
             e    == [r EXCEPT !.file_size = Len(data)]
  <2>1. PICK o \in Outcomes :
          /\ tg_put_file(src.json, file, data, o)
          /\ IF PutAborts(json', file, o) THEN Gone
             ELSE /\ st' = [st EXCEPT !.files[Find(p)] = e]
                  /\ UNCHANGED <<up, handles, stray, sweep, epoch>>
    BY <1>4, <1>7
  <2>2. data \in Contents
    <3>1. chunk.off \in Nat /\ chunk.data \in Seq(Bytes)
      BY ChunksAssumption
    <3> QED
      BY <1>5, <3>1, InsertedString
  <2>3. tg_put_file(src.json, file, data, o)
    BY <2>1
  <2>4. epoch <= Len(blobs)
    BY DEF LaterInv
  <2>5. /\ LaterJson(json', epoch) /\ KeptUpTo(epoch)
        /\ ~PutAborts(json', file, o) => LaterFile(r, epoch) /\ r \in TgFiles
        /\ ClientOK'
    <3> HIDE DEF data, file
    <3> QED
      BY <1>2, <1>3, <1>5, <2>2, <2>3, <2>4, PutLater, PutOK
  <2>6. epoch' = epoch /\ Len(blobs') \in Nat
    BY <2>1, <2>5 DEF Gone, ClientOK
  <2>7. CASE PutAborts(json', file, o)
    <3>1. ~up'
      BY <2>1, <2>7 DEF Gone
    <3> QED
      BY <2>5, <2>6, <3>1, MountedStep
  <2>8. CASE ~PutAborts(json', file, o)
    <3>1. LaterFile(e, epoch)
      <4> HIDE DEF r, data
      <4>1. e.message_id = r.message_id
        BY <2>5, <2>8 DEF TgFiles
      <4> QED
        BY <2>5, <2>8, <4>1 DEF LaterFile
    <3>2. st' = [st EXCEPT !.files[Find(p)] = e]
      BY <2>1, <2>8
    <3> HIDE DEF e
    <3>3. LaterTable(st', epoch)
      BY <1>2, <3>1, <3>2, UpdateLater DEF LaterInv
    <3> QED
      BY <2>5, <2>6, <3>3, MountedStep
  <2> QED
    BY <2>7, <2>8
<1> QED
  BY <1>6, <1>7

-----------------------------------------------------------------------------
(* The specification.                                                      *)

\* Every step keeps the invariant and the messages of earlier mounts.
LEMMA NextLater ==
  ASSUME IInv, LaterInv, Next
  PROVE  EarlierOK
<1>1. CASE Mount
  BY <1>1, MountLater
<1>2. CASE hello_destroy \/ stray_io
  <2>1. epoch' = epoch /\ ~up' /\ UNCHANGED clientVars
    BY <1>2 DEF hello_destroy, stray_io, Gone
  <2> QED
    BY <2>1, SilentStep
<1>3. ASSUME up, UNCHANGED <<up, st, epoch, clientVars>>
      PROVE  EarlierOK
  BY <1>3, SilentStep DEF LaterInv
<1>4. CASE stray_release
  BY <1>3, <1>4 DEF stray_release, Ready
<1>5. CASE rmdir_turn
  BY <1>5, RmdirTurnLater
<1>6. CASE rmdir_return
  <2>1. /\ up /\ epoch' = epoch /\ UNCHANGED clientVars
        /\ st' = tg_storage_remove_by_path(st, sweep.dir)
    BY <1>6 DEF rmdir_return
  <2>2. LaterTable(st', epoch)
    BY <2>1, RemoveLater DEF IInv, TableInv, LaterInv
  <2> QED
    BY <2>1, <2>2, SilentStep
<1>7. ASSUME NEW p \in AllPaths, hello_getattr(p) \/ hello_readdir(p)
      PROVE  EarlierOK
  BY <1>3, <1>7 DEF hello_getattr, hello_readdir, Ready
<1>8. ASSUME NEW p \in Paths, Request(p)
      PROVE  EarlierOK
  <2>1. CASE hello_create(p)
    <3>1. /\ tg_file_new_file(p, 0) \in TgFiles
          /\ tg_file_new_file(p, 0).message_id = NoId
      BY DEF tg_file_new_file, TgFiles, NoId
    <3> QED
      BY <2>1, <3>1, NewEntryLater DEF hello_create, Ready
  <2>2. CASE hello_mkdir(p)
    <3>1. tg_file_new_dir(p) \in TgFiles /\ tg_file_new_dir(p).message_id = NoId
      BY DEF tg_file_new_dir, TgFiles, NoId
    <3> QED
      BY <2>2, <3>1, NewEntryLater DEF hello_mkdir, Ready
  <2>3. CASE hello_unlink(p)
    BY <2>3, UnlinkLater
  <2>4. CASE \/ hello_rmdir(p) \/ hello_ignored(p) \/ release(p) \/ unlink_open(p)
             \/ \E trunc \in BOOLEAN : hello_open(p, trunc)
    BY <1>3, <2>4
       DEF hello_rmdir, hello_ignored, release, unlink_open, hello_open, Ready
  <2>5. CASE \E range \in Ranges : hello_read(p, range)
    BY <2>5, ReadLater
  <2>6. CASE \E chunk \in Chunks : hello_write(p, chunk)
    BY <2>6, WriteLater
  <2> QED
    BY <1>8, <2>1, <2>2, <2>3, <2>4, <2>5, <2>6 DEF Request
<1> QED
  BY <1>1, <1>2, <1>4, <1>5, <1>6, <1>7, <1>8 DEF Next

\* No request edits or deletes a message of an earlier mount, for any faults:
\* neither ids from stale answers nor those of the table lead there.
THEOREM EarlierMountsStayKept == Spec => EarlierMountsKept
<1>1. Init => LaterInv
  BY DEF Init, LaterInv
<1>2. IInv /\ LaterInv /\ [Next]_vars => LaterInv'
  <2>1. ASSUME LaterInv, UNCHANGED vars PROVE LaterInv'
    BY <2>1 DEF LaterInv, LaterJson, LaterTable, LaterFile, vars, fsVars, clientVars
  <2> QED
    BY <2>1, NextLater DEF EarlierOK
<1>3. IInv /\ LaterInv /\ [Next]_vars => [KeepsEarlierMounts]_vars
  BY NextLater DEF EarlierOK
<1> QED
  BY <1>1, <1>2, <1>3, Invariance, PTL DEF Spec, EarlierMountsKept

-----------------------------------------------------------------------------
(* Every file has its own message.                                         *)

\* No two entries have one message, and every message_id was drawn from the
\* counter, which stands at n.
OwnMessages(t, n) ==
  /\ \A i, j \in 1 .. Len(t.files) :
       /\ t.files[i].message_id # NoId
       /\ t.files[i].message_id = t.files[j].message_id
       => i = j
  /\ \A i \in 1 .. Len(t.files) : t.files[i].message_id <= n

\* A new entry has no message.
LEMMA PushOwn ==
  ASSUME NEW n \in Nat, NEW t \in Storages, OwnMessages(t, n),
         NEW f \in TgFiles, f.message_id = NoId,
         NEW u, u = tg_storage_push(t, f)
  PROVE  OwnMessages(u, n)
<1>1. Len(t.files) \in Nat
  BY StorageShape
<1>2. /\ Len(u.files) = Len(t.files) + 1
      /\ u.files[Len(t.files) + 1] = f
      /\ \A k \in 1 .. Len(t.files) : u.files[k] = t.files[k]
  BY PushTable
<1>3. ASSUME NEW i \in 1 .. Len(u.files)
      PROVE  u.files[i].message_id <= n
  <2>1. i \in 1 .. Len(t.files) \/ i = Len(t.files) + 1
    BY <1>1, <1>2
  <2> QED
    BY <1>2, <2>1 DEF OwnMessages, NoId
<1>4. ASSUME NEW i \in 1 .. Len(u.files), NEW j \in 1 .. Len(u.files),
             u.files[i].message_id # NoId,
             u.files[i].message_id = u.files[j].message_id
      PROVE  i = j
  <2>1. i \in 1 .. Len(t.files) /\ j \in 1 .. Len(t.files)
    <3>1. i # Len(t.files) + 1 /\ j # Len(t.files) + 1
      BY <1>2, <1>4
    <3> QED
      BY <1>1, <1>2, <3>1
  <2> QED
    BY <1>2, <1>4, <2>1 DEF OwnMessages
<1> QED
  BY <1>3, <1>4 DEF OwnMessages

\* A removal moves an entry and copies none.
LEMMA RemoveOwn ==
  ASSUME NEW n, NEW t \in Storages, OwnMessages(t, n), NEW q, In(t, q),
         NEW u, u = tg_storage_remove_by_path(t, q)
  PROVE  OwnMessages(u, n)
<1>1. PICK i \in 1 .. Len(t.files) :
        /\ Len(u.files) = Len(t.files) - 1
        /\ \A k \in 1 .. Len(u.files) :
             u.files[k] = IF k = i THEN t.files[Len(t.files)] ELSE t.files[k]
  BY RemoveTable DEF In
<1>2. Len(t.files) \in Nat
  BY StorageShape
<1>3. ASSUME NEW k \in 1 .. Len(u.files)
      PROVE  u.files[k].message_id <= n
  BY <1>1, <1>2 DEF OwnMessages
<1>4. ASSUME NEW j \in 1 .. Len(u.files), NEW k \in 1 .. Len(u.files),
             u.files[j].message_id # NoId,
             u.files[j].message_id = u.files[k].message_id
      PROVE  j = k
  <2> DEFINE J == IF j = i THEN Len(t.files) ELSE j
             K == IF k = i THEN Len(t.files) ELSE k
  <2>1. /\ J \in 1 .. Len(t.files) /\ K \in 1 .. Len(t.files)
        /\ u.files[j] = t.files[J] /\ u.files[k] = t.files[K]
    BY <1>1, <1>2
  <2>2. J = K
    BY <1>4, <2>1 DEF OwnMessages
  <2> QED
    BY <1>1, <1>2, <2>2
<1> QED
  BY <1>3, <1>4 DEF OwnMessages

\* An assignment keeps the message, or brings in a new one.
LEMMA UpdateOwn ==
  ASSUME NEW n \in Nat, NEW c \in Nat, n <= c,
         NEW t \in Storages, OwnMessages(t, n),
         NEW i \in 1 .. Len(t.files), NEW e \in TgFiles,
         \/ e.message_id = t.files[i].message_id
         \/ e.message_id > n /\ e.message_id <= c,
         NEW u, u = [t EXCEPT !.files[i] = e]
  PROVE  OwnMessages(u, c)
<1>1. t.files \in Seq(TgFiles) /\ Len(t.files) \in Nat
  BY StorageShape
<1>2. u.files = [t.files EXCEPT ![i] = e]
  BY DEF Storages
<1>3. /\ Len(u.files) = Len(t.files)
      /\ \A k \in 1 .. Len(t.files) :
           u.files[k] = IF k = i THEN e ELSE t.files[k]
  BY <1>1, <1>2
<1>4. \A k \in 1 .. Len(t.files) :
        t.files[k].message_id \in Nat /\ t.files[k].message_id <= n
  <2>1. \A k \in 1 .. Len(t.files) : t.files[k] \in TgFiles
    BY StorageShape
  <2>2. \A g \in TgFiles : g.message_id \in Nat
    BY DEF TgFiles
  <2> QED
    BY <2>1, <2>2 DEF OwnMessages
<1>5. e.message_id \in Nat
  BY DEF TgFiles
<1>6. ASSUME NEW k \in 1 .. Len(u.files)
      PROVE  u.files[k].message_id <= c
  BY <1>3, <1>4, <1>5
<1>7. ASSUME NEW j \in 1 .. Len(u.files), NEW k \in 1 .. Len(u.files),
             u.files[j].message_id # NoId,
             u.files[j].message_id = u.files[k].message_id
      PROVE  j = k
  <2>1. CASE e.message_id = t.files[i].message_id
    <3>1. \A l \in 1 .. Len(t.files) : u.files[l].message_id = t.files[l].message_id
      BY <1>3, <2>1
    <3> QED
      BY <1>3, <1>7, <3>1 DEF OwnMessages
  <2>2. CASE e.message_id > n
    <3>1. \A l \in 1 .. Len(t.files) : t.files[l].message_id # e.message_id
      BY <1>4, <1>5, <2>2
    <3>2. j = i <=> k = i
      BY <1>3, <1>7, <3>1
    <3> QED
      BY <1>3, <1>7, <3>2 DEF OwnMessages
  <2> QED
    BY <2>1, <2>2
<1> QED
  BY <1>6, <1>7 DEF OwnMessages

IdInv == OwnMessages(st, Len(blobs))

\* The record after an upload has its old message or the newest.
LEMMA PutOwn ==
  ASSUME ClientOK, NEW f \in TgFiles, NEW data \in Contents, NEW r,
         PutEffect(f, data, r)
  PROVE  /\ Len(blobs) \in Nat /\ Len(blobs') \in Nat /\ Len(blobs) <= Len(blobs')
         /\ \/ r.message_id = f.message_id
            \/ r.message_id > Len(blobs) /\ r.message_id <= Len(blobs')
<1>1. Len(blobs) \in Nat /\ blobs \in Seq(Contents)
  BY DEF ClientOK
<1>2. CASE PutRefused(f, r)
  BY <1>1, <1>2 DEF PutRefused
<1>3. CASE PutSent(f, data, r)
  <2>1. r.message_id = NewId
    BY <1>3 DEF PutSent, TgFiles
  <2> QED
    BY <1>1, <1>3, <2>1 DEF PutSent, NewId
<1>4. CASE PutEdited(f, data, r)
  <2>1. r.message_id = f.message_id
    BY <1>4 DEF PutEdited, TgFiles
  <2> QED
    BY <1>1, <1>4, <2>1 DEF PutEdited
<1> QED
  BY <1>2, <1>3, <1>4 DEF PutEffect

\* Every step keeps the messages of the files apart.
LEMMA NextOwn ==
  ASSUME IInv, IdInv, Effect
  PROVE  IdInv'
<1>1. st \in Storages /\ Len(blobs) \in Nat
  BY DEF IInv, TableInv, ClientOK
<1>2. CASE Restarted
  <2>1. tg_storage_new \in Storages /\ OwnMessages(tg_storage_new, Len(blobs))
    BY DEF tg_storage_new, Storages, OwnMessages
  <2>2. /\ tg_file_new_dir(Root) \in TgFiles
        /\ tg_file_new_dir(Root).message_id = NoId
    BY DEF tg_file_new_dir, TgFiles, NoId
  <2>3. PICK n \in Nat : n = Len(blobs)
    BY <1>1
  <2>4. OwnMessages(st', n)
    BY <1>2, <2>1, <2>2, <2>3, PushOwn DEF Restarted
  <2> QED
    BY <1>2, <2>3, <2>4 DEF Restarted, IdInv
<1>3. CASE Ended
  BY <1>3 DEF Ended, tg_storage_free, IdInv, OwnMessages
<1>4. CASE Looked
  BY <1>4 DEF Looked, IdInv
<1>5. CASE \E f \in TgFiles : Added(f)
  <2>1. PICK f \in TgFiles : Added(f)
    BY <1>5
  <2>2. PICK n \in Nat : n = Len(blobs)
    BY <1>1
  <2>3. OwnMessages(st', n)
    BY <1>1, <2>1, <2>2, PushOwn DEF Added, IdInv
  <2> QED
    BY <2>1, <2>2, <2>3 DEF Added, IdInv
<1>6. CASE \E p \in Paths : Dropped(p)
  <2>1. PICK p \in Paths : Dropped(p)
    BY <1>6
  <2>2. OwnMessages(st', Len(blobs))
    BY <1>1, <2>1, RemoveOwn DEF Dropped, IdInv
  <2> QED
    BY <2>1, <2>2 DEF Dropped, IdInv
<1>7. CASE \E p \in Paths, data \in Contents \ {<< >>}, r \in TgFiles :
             r.path = p /\ r.type = TG_FILE /\ Wrote(p, data, r)
  <2>1. PICK p \in Paths, data \in Contents \ {<< >>}, r \in TgFiles :
          Wrote(p, data, r)
    BY <1>7
  <2>2. PICK i \in 1 .. Len(st.files) :
          EntryAt(st, p) = st.files[i] /\ tg_storage_find_by_path(st, p) = i
    BY <1>1, <2>1, EntryPosition DEF Wrote
  <2>3. PICK f \in TgFiles : f = st.files[i]
    BY <1>1, StorageShape
  <2>4. PICK e : e = [r EXCEPT !.file_size = Len(data)]
    OBVIOUS
  <2>5. e \in TgFiles /\ e.message_id = r.message_id
    <3>1. Len(data) \in Nat
      BY DEF Contents
    <3> QED
      BY <2>4, <3>1 DEF TgFiles
  <2>6. PutEffect(f, data, r) /\ st' = [st EXCEPT !.files[i] = e]
    BY <2>1, <2>2, <2>3, <2>4 DEF Wrote
  <2>7. /\ Len(blobs) \in Nat /\ Len(blobs') \in Nat /\ Len(blobs) <= Len(blobs')
        /\ \/ r.message_id = f.message_id
           \/ r.message_id > Len(blobs) /\ r.message_id <= Len(blobs')
    BY <2>6, PutOwn DEF IInv
  <2>8. PICK n \in Nat, c \in Nat : n = Len(blobs) /\ c = Len(blobs')
    BY <2>7
  <2>9. OwnMessages(st, n) /\ n <= c
    BY <2>7, <2>8 DEF IdInv
  <2>10. \/ e.message_id = st.files[i].message_id
         \/ e.message_id > n /\ e.message_id <= c
    BY <2>3, <2>5, <2>7, <2>8
  <2>11. OwnMessages(st', c)
    BY <1>1, <2>5, <2>6, <2>9, <2>10, UpdateOwn
  <2> QED
    BY <2>8, <2>11 DEF IdInv
<1> QED
  BY <1>2, <1>3, <1>4, <1>5, <1>6, <1>7 DEF Effect

\* Two paths with one message are the same path.
LEMMA OwnerOf ==
  ASSUME IInv, IdInv, NEW p, NEW q, In(st, p), In(st, q),
         EntryAt(st, p).message_id # NoId,
         EntryAt(st, p).message_id = EntryAt(st, q).message_id
  PROVE  p = q
<1>1. st \in Storages
  BY DEF IInv, TableInv
<1>2. PICK i \in 1 .. Len(st.files) :
        EntryAt(st, p) = st.files[i] /\ st.files[i].path = p
  BY <1>1, EntryPosition
<1>3. PICK j \in 1 .. Len(st.files) :
        EntryAt(st, q) = st.files[j] /\ st.files[j].path = q
  BY <1>1, EntryPosition
<1>4. i = j
  BY <1>2, <1>3 DEF IdInv, OwnMessages
<1> QED
  BY <1>2, <1>3, <1>4

\* A step touches the message of the path it is about, and no other.
LEMMA NextMessages ==
  ASSUME IInv, IdInv, Effect
  PROVE  KeepsOtherMessages
<1> SUFFICES ASSUME NEW p \in Paths, NEW m \in msgs,
                    Exists(p), Entry(p).message_id = m.mid, m \notin msgs'
             PROVE  \/ out'[1] \in {"write", "unlink"} /\ out'[2] = p
                    \/ Sweeping /\ Under(sweep.dir, p)
  BY DEF KeepsOtherMessages
<1>1. In(st, p) /\ EntryAt(st, p).message_id = m.mid
  BY DEF Exists, Entry, Find, In, EntryAt
<1>2. m.mid # NoId
  BY DEF IInv, ClientOK
<1>3. ~Restarted /\ ~Ended /\ ~Looked /\ \A f \in TgFiles : ~Added(f)
  BY DEF Restarted, Ended, Looked, Added
<1>4. CASE \E q \in Paths : Dropped(q)
  <2>1. PICK q \in Paths : Dropped(q)
    BY <1>4
  <2>2. m.mid = EntryAt(st, q).message_id /\ In(st, q) /\ Concerns(q)
    BY <2>1 DEF Dropped
  <2>3. p = q
    BY <1>1, <1>2, <2>2, OwnerOf
  <2> QED
    BY <2>2, <2>3 DEF Concerns
<1>5. CASE \E q \in Paths, data \in Contents \ {<< >>}, r \in TgFiles :
             r.path = q /\ r.type = TG_FILE /\ Wrote(q, data, r)
  <2>1. PICK q \in Paths, data \in Contents \ {<< >>}, r \in TgFiles :
          Wrote(q, data, r)
    BY <1>5
  <2>2. PutEdited(EntryAt(st, q), data, r)
    BY <2>1 DEF Wrote, PutEffect, PutRefused, PutSent
  <2>3. m.mid = EntryAt(st, q).message_id
    BY <2>2 DEF PutEdited
  <2>4. In(st, q) /\ Concerns(q)
    BY <2>1 DEF Wrote
  <2>5. p = q
    BY <1>1, <1>2, <2>3, <2>4, OwnerOf
  <2> QED
    BY <2>4, <2>5 DEF Concerns
<1> QED
  BY <1>3, <1>4, <1>5 DEF Effect

\* hello_write, refused or not.
LEMMA WriteStored ==
  ASSUME Whole, IInv, NEW p \in Paths, NEW chunk \in Chunks,
         hello_write(p, chunk)
  PROVE  \/ Stored(p, chunk)'
         \/ /\ Entry(p)' = [Entry(p) EXCEPT !.file_size = Entry(p)'.file_size]
            /\ UNCHANGED <<msgs, blobs>>
<1>1. PICK src \in Original(Entry(p), FALSE), data \in Contents \ {<< >>},
           r \in TgFiles :
        /\ src.data \in Contents
        /\ data = Inserted(src.data, chunk.off, chunk.data)
        /\ r.path = p
        /\ Wrote(p, data, r)
  BY WriteWhole
<1>2. PICK e : e = [r EXCEPT !.file_size = Len(data)]
  OBVIOUS
<1>3. Len(data) \in Nat /\ e \in TgFiles /\ e.path = p
      /\ e.file_id = r.file_id /\ e.file_size = Len(data)
  <2>1. Len(data) \in Nat
    BY DEF Contents
  <2> QED
    BY <1>1, <1>2, <2>1 DEF TgFiles
<1>4. In(st, p) /\ st' = [st EXCEPT !.files[tg_storage_find_by_path(st, p)] = e]
  BY <1>1, <1>2 DEF Wrote
<1>5. In(st', p) /\ EntryAt(st', p) = e
  BY <1>3, <1>4, UpdateEntry DEF IInv, TableInv
<1>6. Entry(p)' = e
  BY <1>5 DEF Entry, EntryAt, Find
<1>7. PICK f : f = EntryAt(st, p)
  OBVIOUS
<1>8. f = Entry(p) /\ f \in TgFiles /\ PutEffect(f, data, r)
  <2>1. EntryAt(st, p) \in TgFiles
    BY <1>4, EntryPosition DEF IInv, TableInv
  <2> QED
    BY <1>1, <1>7, <2>1 DEF Wrote, Entry, EntryAt, Find
<1>9. CASE PutRefused(f, r)
  <2>1. e = [f EXCEPT !.file_size = e.file_size]
    BY <1>2, <1>3, <1>9 DEF PutRefused
  <2> QED
    BY <1>6, <1>8, <1>9, <2>1 DEF PutRefused
<1>10. CASE PutSent(f, data, r) \/ PutEdited(f, data, r)
  <2>1. blobs \in Seq(Contents) /\ NewId \in Nat \ {0} /\ NewId = Len(blobs) + 1
    BY FreshId DEF IInv, ClientOK, NewId
  <2>2. r.file_id = NewId /\ blobs' = Append(blobs, data)
    BY <1>8, <1>10 DEF PutSent, PutEdited, TgFiles
  <2>3. blobs'[NewId] = data
    BY <2>1, <2>2
  <2>4. Slice(data, chunk.off, Len(chunk.data)) = chunk.data
    BY <1>1, NewData
  <2>5. Entry(p)'.file_id # NoId /\ blobs'[Entry(p)'.file_id] = data
    BY <1>3, <1>6, <2>1, <2>2, <2>3 DEF NoId
  <2> QED
    BY <2>4, <2>5 DEF Stored
<1> QED
  BY <1>8, <1>9, <1>10 DEF PutEffect

-----------------------------------------------------------------------------
(* What holds of the specification then.                                   *)

\* The invariant with refusals.
LEMMA WholeInvariance ==
  ASSUME Whole
  PROVE  Spec => [](IInv /\ IdInv)
<1>1. Init => IdInv
  BY DEF Init, tg_storage_free, IdInv, OwnMessages
<1>2. IInv /\ IdInv /\ [Next]_vars => IdInv'
  <2>1. ASSUME IdInv, UNCHANGED vars PROVE IdInv'
    BY <2>1 DEF IdInv, vars, fsVars, clientVars
  <2>2. ASSUME IInv, IdInv, Next PROVE IdInv'
    BY <2>2, NextEffect, NextOwn DEF EffectOK
  <2> QED
    BY <2>1, <2>2
<1> QED
  BY <1>1, <1>2, Invariance, PTL DEF Spec

\* No two files point to the same message: no answer, and nothing an older
\* answer left in the buffer, gives a file the message of another.
THEOREM MessagesStayOwn == Whole => (Spec => []NoSharedMessage)
<1> SUFFICES ASSUME Whole PROVE Spec => []NoSharedMessage
  OBVIOUS
<1>1. IInv /\ IdInv => NoSharedMessage
  BY DEF IdInv, OwnMessages, NoSharedMessage
<1> QED
  BY <1>1, WholeInvariance, PTL

\* Only the use of a file in a removed directory ends the process.
THEOREM OnlyStraysEnd == Whole => (Spec => []OnlyStraysKill)
<1> SUFFICES ASSUME Whole PROVE Spec => []OnlyStraysKill
  OBVIOUS
<1>1. Init => OnlyStraysKill
  <2>1. ASSUME Init PROVE out[3] = "OK"
    BY <2>1 DEF Init
  <2> QED
    BY <2>1 DEF OnlyStraysKill, NeverDies
<1>2. IInv /\ OnlyStraysKill /\ [Next]_vars => OnlyStraysKill'
  <2>1. ASSUME OnlyStraysKill, UNCHANGED vars PROVE OnlyStraysKill'
    BY <2>1 DEF OnlyStraysKill, NeverDies, vars, fsVars
  <2>2. ASSUME IInv, OnlyStraysKill, Next PROVE OnlyStraysKill'
    BY <2>2, NextEffect DEF EffectOK, Survived, OnlyStraysKill, NeverDies
  <2> QED
    BY <2>1, <2>2
<1> QED
  BY <1>1, <1>2, Invariance, PTL DEF Spec

\* No request edits or deletes the message of a file it is not about.
THEOREM MessagesStayIndependent == Whole => (Spec => MessagesIndependent)
<1> SUFFICES ASSUME Whole PROVE Spec => MessagesIndependent
  OBVIOUS
<1>1. IInv /\ IdInv /\ [Next]_vars => [KeepsOtherMessages]_vars
  BY NextEffect, NextMessages DEF EffectOK
<1> QED
  BY <1>1, WholeInvariance, PTL DEF Spec, MessagesIndependent

\* A write that reports success has stored its bytes, or has left the entry,
\* its size apart, and the channel as they were.
THEOREM WritesWhole == Whole => (Spec => WriteAllOrNothing)
<1> SUFFICES ASSUME Whole PROVE Spec => WriteAllOrNothing
  OBVIOUS
<1>1. IInv /\ [Next]_vars =>
        [\A p \in Paths, chunk \in Chunks :
           hello_write(p, chunk) /\ out'[3] = "OK" =>
             \/ Stored(p, chunk)'
             \/ /\ Entry(p)' = [Entry(p) EXCEPT !.file_size = Entry(p)'.file_size]
                /\ UNCHANGED <<msgs, blobs>>]_vars
  BY WriteStored
<1> QED
  BY <1>1, Invariance, PTL DEF Spec, WriteAllOrNothing

-----------------------------------------------------------------------------
(* Table and channel agree when every call is granted.                     *)

Entries(t) == {t.files[i] : i \in 1 .. Len(t.files)}

\* A push adds an entry, a removal takes that of the path, an assignment
\* replaces it.
LEMMA PushEntries ==
  ASSUME NEW t \in Storages, NEW f \in TgFiles, NEW u, u = tg_storage_push(t, f)
  PROVE  Entries(u) = Entries(t) \cup {f}
<1>1. Len(t.files) \in Nat
  BY StorageShape
<1>2. /\ Len(u.files) = Len(t.files) + 1
      /\ u.files[Len(t.files) + 1] = f
      /\ \A k \in 1 .. Len(t.files) : u.files[k] = t.files[k]
  BY PushTable
<1>3. 1 .. Len(u.files) = 1 .. Len(t.files) \cup {Len(t.files) + 1}
  BY <1>1, <1>2
<1> QED
  BY <1>2, <1>3 DEF Entries

\* A removal takes the entry of the path and no other.
LEMMA RemoveEntries ==
  ASSUME NEW t \in Storages, DistinctPaths(t), NEW p, In(t, p),
         NEW u, u = tg_storage_remove_by_path(t, p)
  PROVE  Entries(u) = Entries(t) \ {EntryAt(t, p)}
<1>1. PICK i : i = tg_storage_find_by_path(t, p)
  OBVIOUS
<1>2. /\ i \in 1 .. Len(t.files)
      /\ Len(u.files) = Len(t.files) - 1
      /\ \A k \in 1 .. Len(u.files) :
           u.files[k] = IF k = i THEN t.files[Len(t.files)] ELSE t.files[k]
  BY <1>1, RemoveTable DEF In
<1>3. Len(t.files) \in Nat /\ EntryAt(t, p) = t.files[i]
  BY <1>1, StorageShape DEF EntryAt
<1>4. \A j \in 1 .. Len(t.files) : t.files[j] = t.files[i] => j = i
  BY <1>2 DEF DistinctPaths
<1>5. ASSUME NEW k \in 1 .. Len(u.files)
      PROVE  u.files[k] \in Entries(t) \ {t.files[i]}
  <2>1. PICK j \in 1 .. Len(t.files) : j # i /\ u.files[k] = t.files[j]
    <3>1. CASE k = i
      BY <1>2, <1>3, <3>1
    <3>2. CASE k # i
      BY <1>2, <1>3, <3>2
    <3> QED
      BY <3>1, <3>2
  <2> QED
    BY <1>2, <1>4, <2>1 DEF Entries
<1>6. ASSUME NEW j \in 1 .. Len(t.files), t.files[j] # t.files[i]
      PROVE  t.files[j] \in Entries(u)
  <2>1. CASE j = Len(t.files)
    <3>1. i \in 1 .. Len(u.files) /\ u.files[i] = t.files[j]
      BY <1>2, <1>3, <1>6, <2>1
    <3> QED
      BY <3>1 DEF Entries
  <2>2. CASE j # Len(t.files)
    <3>1. j \in 1 .. Len(u.files) /\ u.files[j] = t.files[j]
      BY <1>2, <1>3, <1>6, <2>2
    <3> QED
      BY <3>1 DEF Entries
  <2> QED
    BY <2>1, <2>2
<1>7. \A g \in Entries(u) : g \in Entries(t) \ {t.files[i]}
  BY <1>5 DEF Entries
<1>8. \A g \in Entries(t) : g # t.files[i] => g \in Entries(u)
  BY <1>6 DEF Entries
<1> QED
  BY <1>3, <1>7, <1>8

\* An assignment replaces the entry of the path.
LEMMA UpdateEntries ==
  ASSUME NEW t \in Storages, DistinctPaths(t), NEW p, In(t, p),
         NEW e \in TgFiles, e.path = p,
         NEW u, u = [t EXCEPT !.files[tg_storage_find_by_path(t, p)] = e]
  PROVE  Entries(u) = (Entries(t) \ {EntryAt(t, p)}) \cup {e}
<1>1. PICK i : i = tg_storage_find_by_path(t, p)
  OBVIOUS
<1>2. /\ Len(u.files) = Len(t.files)
      /\ \A k \in 1 .. Len(t.files) : u.files[k] = IF k = i THEN e ELSE t.files[k]
  BY <1>1, UpdateEntry
<1>3. i \in 1 .. Len(t.files) /\ EntryAt(t, p) = t.files[i]
  BY <1>1, EntryPosition
<1>4. \A j \in 1 .. Len(t.files) : t.files[j] = t.files[i] => j = i
  BY <1>3 DEF DistinctPaths
<1>5. \A g \in Entries(u) : g \in (Entries(t) \ {t.files[i]}) \cup {e}
  BY <1>2, <1>3, <1>4 DEF Entries
<1>6. ASSUME NEW g \in (Entries(t) \ {t.files[i]}) \cup {e} PROVE g \in Entries(u)
  <2>1. CASE g = e
    BY <1>2, <1>3, <2>1 DEF Entries
  <2>2. CASE g \in Entries(t) /\ g # t.files[i]
    BY <1>2, <2>2 DEF Entries
  <2> QED
    BY <2>1, <2>2
<1> QED
  BY <1>3, <1>5, <1>6

\* Message m holds the contents of f, with documents bs.
Held(m, f, bs) ==
  /\ m.mid = f.message_id
  /\ m.fid = f.file_id
  /\ m.tag = tg_file_extract_directory(f.path)
  /\ Len(bs[m.fid]) = f.file_size

\* A file with bytes has a message with them; nothing else has ids.
Backed(f, ms, bs) ==
  IF f.file_size > 0 THEN f.type = TG_FILE /\ \E m \in ms : Held(m, f, bs)
  ELSE f.file_id = NoId /\ f.message_id = NoId

\* The messages have ids of their own, and documents.
Channel(ms, bs) ==
  /\ \A m \in ms : m.mid \in 1 .. Len(bs) /\ m.fid \in 1 .. Len(bs)
  /\ \A m, n \in ms : m.mid = n.mid => m = n

\* Table and channel agree; messages up to e are of earlier mounts.
Agree(es, ms, bs, e) ==
  /\ \A f \in es : Backed(f, ms, bs)
  /\ \A m \in ms : m.mid > e => \E f \in es : Held(m, f, bs)

\* The directory that hello_rmdir empties is one.
SweepsDir ==
  Sweeping /\ In(st, sweep.dir) => EntryAt(st, sweep.dir).type = TG_DIR

MatchInv ==
  /\ Channel(msgs, blobs)
  /\ up => Agree(Entries(st), msgs, blobs, epoch)
  /\ SweepsDir

\* The entries of the table have messages of their own.
LEMMA OwnEntries ==
  ASSUME NEW t, NEW n, OwnMessages(t, n)
  PROVE  \A f, g \in Entries(t) :
           f.message_id # NoId /\ f.message_id = g.message_id => f = g
BY DEF OwnMessages, Entries

\* The deletion of the message of an entry that goes.
LEMMA DropAgrees ==
  ASSUME NEW es, NEW ms, NEW bs, NEW e, Channel(ms, bs), Agree(es, ms, bs, e),
         Len(bs) \in Nat,
         \A g, h \in es :
           g.message_id # NoId /\ g.message_id = h.message_id => g = h,
         NEW f \in es, NEW ns, ns = {m \in ms : m.mid # f.message_id}
  PROVE  Channel(ns, bs) /\ Agree(es \ {f}, ns, bs, e)
<1>1. Channel(ns, bs)
  BY DEF Channel
<1>2. ASSUME NEW g \in es \ {f} PROVE Backed(g, ns, bs)
  <2>1. CASE g.file_size > 0
    <3>1. g.type = TG_FILE
      BY <2>1 DEF Agree, Backed
    <3>2. PICK m \in ms : Held(m, g, bs)
      BY <2>1 DEF Agree, Backed
    <3>3. m.mid = g.message_id /\ m.mid # NoId
      BY <3>2 DEF Held, Channel, NoId
    <3>4. m \in ns
      BY <3>3
    <3> QED
      BY <2>1, <3>1, <3>2, <3>4 DEF Backed
  <2>2. CASE ~(g.file_size > 0)
    BY <2>2 DEF Agree, Backed
  <2> QED
    BY <2>1, <2>2
<1>3. ASSUME NEW m \in ns, m.mid > e PROVE \E g \in es \ {f} : Held(m, g, bs)
  <2>1. PICK g \in es : Held(m, g, bs)
    BY <1>3 DEF Agree
  <2>2. g # f
    BY <2>1 DEF Held
  <2> QED
    BY <2>1, <2>2
<1> QED
  BY <1>1, <1>2, <1>3 DEF Agree

\* A document more changes none that is there.
LEMMA HeldStays ==
  ASSUME NEW bs \in Seq(Contents), NEW data \in Contents,
         NEW m, m.fid \in 1 .. Len(bs), NEW f
  PROVE  Held(m, f, Append(bs, data)) <=> Held(m, f, bs)
<1>1. Append(bs, data)[m.fid] = bs[m.fid]
  OBVIOUS
<1> QED
  BY <1>1 DEF Held

\* The first upload of a file: a new message.
LEMMA SendAgrees ==
  ASSUME NEW es, NEW ms, NEW bs \in Seq(Contents), NEW e,
         Channel(ms, bs), Agree(es, ms, bs, e),
         NEW f \in es, f.message_id = NoId, NEW g, NEW data \in Contents \ {<< >>},
         g.message_id = Len(bs) + 1, g.file_id = Len(bs) + 1,
         g.path = f.path, g.file_size = Len(data), g.type = TG_FILE,
         NEW cs, cs = Append(bs, data),
         NEW ns, ns = ms \cup {[mid |-> Len(bs) + 1, fid |-> Len(bs) + 1,
                                tag |-> tg_file_extract_directory(f.path)]}
  PROVE  Channel(ns, cs) /\ Agree((es \ {f}) \cup {g}, ns, cs, e)
<1>1. Len(bs) \in Nat /\ Len(cs) = Len(bs) + 1 /\ cs[Len(bs) + 1] = data
      /\ Len(data) \in Nat \ {0}
  BY DEF Contents
<1> DEFINE new == [mid |-> Len(bs) + 1, fid |-> Len(bs) + 1,
                   tag |-> tg_file_extract_directory(f.path)]
<1>2. ns = ms \cup {new} /\ new.mid = Len(bs) + 1 /\ new.fid = Len(bs) + 1
      /\ new.tag = tg_file_extract_directory(f.path)
  OBVIOUS
<1> HIDE DEF new
<1>3. \A m \in ms : m.mid \in 1 .. Len(bs) /\ m.fid \in 1 .. Len(bs)
  BY DEF Channel
<1>4. Channel(ns, cs)
  <2>1. \A m \in ns : m.mid \in 1 .. Len(cs) /\ m.fid \in 1 .. Len(cs)
    BY <1>1, <1>2, <1>3
  <2>2. \A m \in ms : m.mid # new.mid
    BY <1>1, <1>2, <1>3
  <2>3. \A m, n \in ns : m.mid = n.mid => m = n
    BY <1>2, <2>2 DEF Channel
  <2> QED
    BY <2>1, <2>3 DEF Channel
<1>5. Held(new, g, cs)
  BY <1>1, <1>2 DEF Held
<1>6. \A m \in ms : \A h : Held(m, h, cs) <=> Held(m, h, bs)
  BY <1>3, HeldStays
<1>7. ASSUME NEW h \in (es \ {f}) \cup {g} PROVE Backed(h, ns, cs)
  <2>1. CASE h = g
    BY <1>1, <1>2, <1>5, <2>1 DEF Backed
  <2>2. CASE h \in es
    BY <1>2, <1>6, <2>2 DEF Agree, Backed
  <2> QED
    BY <2>1, <2>2
<1>8. ASSUME NEW m \in ns, m.mid > e
      PROVE  \E h \in (es \ {f}) \cup {g} : Held(m, h, cs)
  <2>1. CASE m = new
    BY <1>5, <2>1
  <2>2. CASE m \in ms
    <3>1. PICK h \in es : Held(m, h, bs)
      BY <1>8, <2>2 DEF Agree
    <3>2. h # f
      BY <1>3, <2>2, <3>1 DEF Held, NoId
    <3> QED
      BY <1>6, <2>2, <3>1, <3>2
  <2> QED
    BY <1>2, <2>1, <2>2
<1> QED
  BY <1>4, <1>7, <1>8 DEF Agree

\* The messages with document n in that of file f.
WithDocument(ms, f, n) ==
  {IF m.mid = f.message_id
   THEN [mid |-> m.mid, fid |-> n, tag |-> tg_file_extract_directory(f.path)]
   ELSE m : m \in ms}

\* A later upload: a new document in the file's message.
LEMMA EditAgrees ==
  ASSUME NEW es, NEW ms, NEW bs \in Seq(Contents), NEW e,
         Channel(ms, bs), Agree(es, ms, bs, e),
         \A g, h \in es :
           g.message_id # NoId /\ g.message_id = h.message_id => g = h,
         NEW f \in es, f.file_size > 0, NEW g, NEW data \in Contents \ {<< >>},
         g.message_id = f.message_id, g.file_id = Len(bs) + 1,
         g.path = f.path, g.file_size = Len(data), g.type = TG_FILE,
         NEW cs, cs = Append(bs, data), NEW ns,
         ns = WithDocument(ms, f, Len(bs) + 1)
  PROVE  Channel(ns, cs) /\ Agree((es \ {f}) \cup {g}, ns, cs, e)
<1>1. Len(bs) \in Nat /\ Len(cs) = Len(bs) + 1 /\ cs[Len(bs) + 1] = data
      /\ Len(data) \in Nat \ {0}
  BY DEF Contents
<1> DEFINE new == [mid |-> f.message_id, fid |-> Len(bs) + 1,
                   tag |-> tg_file_extract_directory(f.path)]
<1>2. /\ new.mid = f.message_id /\ new.fid = Len(bs) + 1
      /\ new.tag = tg_file_extract_directory(f.path)
      /\ ns = {IF m.mid = f.message_id THEN new ELSE m : m \in ms}
  BY DEF WithDocument
<1> HIDE DEF new
<1>3. \A m \in ms : m.mid \in 1 .. Len(bs) /\ m.fid \in 1 .. Len(bs)
  BY DEF Channel
<1>4. PICK old \in ms : Held(old, f, bs)
  BY DEF Agree, Backed
<1>5. old.mid = f.message_id /\ f.message_id \in 1 .. Len(bs)
      /\ f.message_id # NoId
  BY <1>3, <1>4 DEF Held, NoId
<1>6. /\ new \in ns
      /\ \A m \in ns : m = new \/ (m \in ms /\ m.mid # f.message_id)
      /\ \A m \in ms : m.mid # f.message_id => m \in ns
  BY <1>2, <1>4, <1>5
<1>7. Channel(ns, cs)
  <2>1. ASSUME NEW m \in ns PROVE m.mid \in 1 .. Len(cs) /\ m.fid \in 1 .. Len(cs)
    BY <1>1, <1>2, <1>3, <1>5, <1>6
  <2>2. \A m, n \in ns : m.mid = n.mid => m = n
    BY <1>2, <1>6 DEF Channel
  <2> QED
    BY <2>1, <2>2 DEF Channel
<1>8. Held(new, g, cs)
  BY <1>1, <1>2 DEF Held
<1>9. \A m \in ms : \A h : Held(m, h, cs) <=> Held(m, h, bs)
  BY <1>3, HeldStays
<1>10. ASSUME NEW h \in (es \ {f}) \cup {g} PROVE Backed(h, ns, cs)
  <2>1. CASE h = g
    BY <1>1, <1>6, <1>8, <2>1 DEF Backed
  <2>2. CASE h \in es \ {f} /\ h.file_size > 0
    <3>1. h.type = TG_FILE /\ \E m \in ms : Held(m, h, bs)
      BY <2>2 DEF Agree, Backed
    <3>2. PICK m \in ms : Held(m, h, bs)
      BY <3>1
    <3>3. m.mid = h.message_id /\ m.mid # NoId
      BY <1>3, <3>2 DEF Held, NoId
    <3>4. m.mid # f.message_id
      BY <2>2, <3>3
    <3> QED
      BY <1>6, <1>9, <2>2, <3>1, <3>2, <3>4 DEF Backed
  <2>3. CASE h \in es \ {f} /\ ~(h.file_size > 0)
    BY <2>3 DEF Agree, Backed
  <2> QED
    BY <2>1, <2>2, <2>3
<1>11. ASSUME NEW m \in ns, m.mid > e
       PROVE  \E h \in (es \ {f}) \cup {g} : Held(m, h, cs)
  <2>1. CASE m = new
    BY <1>8, <2>1
  <2>2. CASE m \in ms /\ m.mid # f.message_id
    <3>1. PICK h \in es : Held(m, h, bs)
      BY <1>11, <2>2 DEF Agree
    <3>2. h # f
      BY <2>2, <3>1 DEF Held
    <3> QED
      BY <1>9, <2>2, <3>1, <3>2
  <2> QED
    BY <1>6, <2>1, <2>2
<1> QED
  BY <1>7, <1>10, <1>11 DEF Agree

\* The entries of the table are records, and each can be found.
LEMMA EntryThere ==
  ASSUME IInv, NEW p, In(st, p)
  PROVE  EntryAt(st, p) \in Entries(st) /\ EntryAt(st, p) \in TgFiles
         /\ EntryAt(st, p).path = p /\ HasMessage(EntryAt(st, p))
<1>1. st \in Storages
  BY DEF IInv, TableInv
<1>2. PICK k \in 1 .. Len(st.files) : EntryAt(st, p) = st.files[k]
  BY <1>1, EntryPosition
<1>3. EntryAt(st, p) \in TgFiles /\ EntryAt(st, p).path = p
  BY <1>1, EntryPosition
<1> QED
  BY <1>2, <1>3 DEF Entries, IInv, TableInv

\* Only hello_rmdir starts a sweep, and only its turns go on with it.
LEMMA SweepKept ==
  ASSUME Whole, IInv, Next, ~rmdir_turn, ~\E p \in Paths : hello_rmdir(p)
  PROVE  sweep' = NoSweep \/ (sweep' = sweep /\ ~Sweeping)
<1> USE DEF Ready
<1>1. CASE Mount \/ hello_destroy \/ stray_io \/ stray_release \/ rmdir_return
  BY <1>1 DEF Mount, hello_destroy, stray_io, stray_release, rmdir_return, Gone
<1>2. ASSUME NEW p \in AllPaths, hello_getattr(p) \/ hello_readdir(p)
      PROVE  sweep' = sweep /\ ~Sweeping
  BY <1>2 DEF hello_getattr, hello_readdir
<1>3. ASSUME NEW p \in Paths, Request(p)
      PROVE  sweep' = NoSweep \/ (sweep' = sweep /\ ~Sweeping)
  <2>1. CASE \/ hello_create(p) \/ hello_mkdir(p) \/ release(p)
             \/ unlink_open(p) \/ hello_ignored(p)
             \/ \E trunc \in BOOLEAN : hello_open(p, trunc)
    BY <2>1 DEF hello_create, hello_mkdir, release, unlink_open, hello_ignored, hello_open
  <2>2. CASE hello_unlink(p)
    BY <2>2, UnlinkWhole DEF hello_unlink
  <2>3. CASE \E range \in Ranges : hello_read(p, range)
    BY <2>3, ReadWhole DEF hello_read
  <2>4. CASE \E chunk \in Chunks : hello_write(p, chunk)
    BY <2>4, WriteWhole DEF Wrote
  <2> QED
    BY <1>3, <2>1, <2>2, <2>3, <2>4 DEF Request
<1> QED
  BY <1>3, <1>1, <1>2, <1>3 DEF Next

\* The directory that is emptied stays one.
LEMMA NextSweeps ==
  ASSUME Whole, IInv, SweepsDir, Next
  PROVE  SweepsDir'
<1>1. CASE rmdir_turn
  <2>1. PICK p \in Paths :
          /\ Dropped(p) /\ p # sweep.dir
          /\ sweep' = [sweep EXCEPT !.from = NextInDir + 1]
    BY <1>1, RmdirTurnWhole
  <2>2. sweep'.dir = sweep.dir /\ Sweeping
    BY <1>1, <2>1 DEF IInv, ProcessInv, rmdir_turn
  <2>3. SameEntry(st, st', sweep.dir)
    <3>1. PICK d : d = sweep.dir
      OBVIOUS
    <3>2. SameEntry(st, st', d)
      BY <2>1, <3>1, RemoveEntry DEF Dropped, IInv, TableInv
    <3> QED
      BY <3>1, <3>2
  <2> QED
    BY <2>2, <2>3 DEF SweepsDir, SameEntry
<1>2. CASE \E p \in Paths : hello_rmdir(p)
  <2>1. PICK p \in Paths : hello_rmdir(p)
    BY <1>2
  <2>2. sweep' = [dir |-> p, from |-> 1] /\ st' = st /\ IsDir(p) /\ p # Root
    BY <2>1 DEF hello_rmdir
  <2>3. sweep'.dir = p /\ EntryAt(st, p).type = TG_DIR
    BY <2>2 DEF IsDir, Entry, Find, EntryAt
  <2> QED
    BY <2>2, <2>3 DEF SweepsDir
<1>3. CASE ~rmdir_turn /\ ~\E p \in Paths : hello_rmdir(p)
  <2>1. sweep' = NoSweep \/ (sweep' = sweep /\ ~Sweeping)
    BY <1>3, SweepKept
  <2>2. ~Sweeping'
    BY <2>1 DEF Sweeping, NoSweep
  <2> QED
    BY <2>2 DEF SweepsDir
<1> QED
  BY <1>1, <1>2, <1>3

\* Every step keeps table and channel in agreement.
LEMMA NextAgrees ==
  ASSUME Faults = {}, IInv, IdInv, MatchInv, Effect
  PROVE  Channel(msgs', blobs') /\ (up' => Agree(Entries(st'), msgs', blobs', epoch'))
<1>1. /\ st \in Storages /\ DistinctPaths(st) /\ Len(blobs) \in Nat
      /\ blobs \in Seq(Contents)
  BY DEF IInv, TableInv, ClientOK
<1>2. Channel(msgs, blobs)
  BY DEF MatchInv
<1>3. \A f, g \in Entries(st) :
        f.message_id # NoId /\ f.message_id = g.message_id => f = g
  BY OwnEntries DEF IdInv
<1>4. CASE Restarted
  <2> DEFINE root == tg_file_new_dir(Root)
  <2>1. /\ root \in TgFiles /\ root.file_size = 0
        /\ root.file_id = NoId /\ root.message_id = NoId
    BY DEF tg_file_new_dir, TgFiles, NoId
  <2>2. tg_storage_new \in Storages /\ Entries(tg_storage_new) = {}
    BY DEF tg_storage_new, Storages, Entries
  <2> HIDE DEF root
  <2>3. st' = tg_storage_push(tg_storage_new, root)
    BY <1>4 DEF Restarted, root
  <2>4. Entries(st') = {root}
    BY <2>1, <2>2, <2>3, PushEntries
  <2>5. Backed(root, msgs, blobs)
    BY <2>1 DEF Backed
  <2>6. \A m \in msgs : ~(m.mid > epoch')
    BY <1>1, <1>2, <1>4 DEF Restarted, Channel
  <2>7. Agree(Entries(st'), msgs, blobs, epoch')
    BY <2>4, <2>5, <2>6 DEF Agree
  <2> QED
    BY <1>2, <1>4, <2>7 DEF Restarted
<1>5. CASE Ended
  BY <1>2, <1>5 DEF Ended
<1>6. CASE Looked
  BY <1>2, <1>6 DEF Looked, MatchInv
<1>7. CASE \E f \in TgFiles : Added(f)
  <2>1. PICK f \in TgFiles : Added(f)
    BY <1>7
  <2>2. Agree(Entries(st), msgs, blobs, epoch)
    BY <2>1 DEF Added, MatchInv
  <2>3. Entries(st') = Entries(st) \cup {f}
    BY <1>1, <2>1, PushEntries DEF Added
  <2>4. Backed(f, msgs, blobs)
    BY <2>1 DEF Added, Backed
  <2>5. Agree(Entries(st'), msgs, blobs, epoch)
    BY <2>2, <2>3, <2>4 DEF Agree
  <2> QED
    BY <1>2, <2>1, <2>5 DEF Added
<1>8. CASE \E p \in Paths : Dropped(p)
  <2>1. PICK p \in Paths : Dropped(p)
    BY <1>8
  <2>2. PICK f : f = EntryAt(st, p)
    OBVIOUS
  <2>3. f \in Entries(st) /\ f \in TgFiles
    BY <2>1, <2>2, EntryThere DEF Dropped
  <2>4. Agree(Entries(st), msgs, blobs, epoch)
    BY <2>1 DEF Dropped, MatchInv
  <2>5. Entries(st') = Entries(st) \ {f}
    BY <1>1, <2>1, <2>2, RemoveEntries DEF Dropped
  <2>6. msgs' = {m \in msgs : m.mid # f.message_id}
    <3>1. CASE msgs' = {m \in msgs : m.mid # EntryAt(st, p).message_id}
      BY <2>2, <3>1
    <3>2. CASE /\ msgs' = msgs
               /\ EntryAt(st, p).file_size = 0 \/ (Sweeping /\ p = sweep.dir)
      <4>1. ~(f.file_size > 0)
        <5>1. CASE f.file_size = 0
          BY <5>1
        <5>2. CASE Sweeping /\ p = sweep.dir
          <6>1. f.type = TG_DIR
            BY <2>1, <2>2, <5>2 DEF MatchInv, SweepsDir, Dropped
          <6> QED
            BY <2>3, <2>4, <6>1 DEF Agree, Backed, TG_DIR, TG_FILE
        <5> QED
          BY <2>2, <3>2, <5>1, <5>2
      <4>2. f.message_id = NoId
        BY <2>3, <2>4, <4>1 DEF Agree, Backed
      <4>3. \A m \in msgs : m.mid # f.message_id
        BY <4>2 DEF IInv, ClientOK
      <4> QED
        BY <3>2, <4>3
    <3> QED
      BY <2>1, <3>1, <3>2 DEF Dropped
  <2>7. Channel(msgs', blobs) /\ Agree(Entries(st) \ {f}, msgs', blobs, epoch)
    BY <1>1, <1>2, <1>3, <2>3, <2>4, <2>6, DropAgrees
  <2> QED
    BY <2>1, <2>5, <2>7 DEF Dropped
<1>9. CASE \E p \in Paths, data \in Contents \ {<< >>}, r \in TgFiles :
             r.path = p /\ r.type = TG_FILE /\ Wrote(p, data, r)
  <2>1. PICK p \in Paths, data \in Contents \ {<< >>}, r \in TgFiles :
          r.path = p /\ r.type = TG_FILE /\ Wrote(p, data, r)
    BY <1>9
  <2>2. PICK f : f = EntryAt(st, p)
    OBVIOUS
  <2>3. f \in Entries(st) /\ f \in TgFiles /\ f.path = p /\ HasMessage(f)
    BY <2>1, <2>2, EntryThere DEF Wrote
  <2>4. Agree(Entries(st), msgs, blobs, epoch) /\ epoch' = epoch
    BY <2>1 DEF Wrote, MatchInv
  <2>5. PICK g : g = [r EXCEPT !.file_size = Len(data)]
    OBVIOUS
  <2>6. /\ g \in TgFiles /\ g.path = p /\ g.type = TG_FILE
        /\ g.file_id = r.file_id /\ g.message_id = r.message_id
        /\ g.file_size = Len(data)
    <3>1. Len(data) \in Nat
      BY DEF Contents
    <3> QED
      BY <2>1, <2>5, <3>1 DEF TgFiles
  <2>7. Entries(st') = (Entries(st) \ {f}) \cup {g}
    <3>1. st' = [st EXCEPT !.files[tg_storage_find_by_path(st, p)] = g] /\ In(st, p)
      BY <2>1, <2>5 DEF Wrote
    <3> QED
      BY <1>1, <2>2, <2>6, <3>1, UpdateEntries
  <2>8. PutEffect(f, data, r)
    BY <2>1, <2>2 DEF Wrote
  <2>9. ASSUME f.file_id # NoId
        PROVE  f.file_size > 0 /\ InChannel(f.message_id)
    <3>1. f.file_size > 0
      BY <2>3, <2>4, <2>9 DEF Agree, Backed
    <3> QED
      BY <2>3, <2>4, <3>1 DEF Agree, Backed, Held, InChannel
  <2>10. PICK n : n = Len(blobs) + 1 /\ n = NewId
    BY DEF NewId
  <2>11. CASE PutSent(f, data, r)
    <3>1. f.message_id = NoId
      <4>1. f.file_id = NoId
        BY <2>11 DEF PutSent
      <4>2. Backed(f, msgs, blobs)
        BY <2>3, <2>4 DEF Agree
      <4>3. \A m \in msgs : m.fid # NoId
        BY <1>1, <1>2 DEF Channel, NoId
      <4> QED
        BY <4>1, <4>2, <4>3 DEF Backed, Held
    <3>2. r.file_id = n /\ r.message_id = n
      BY <2>3, <2>10, <2>11 DEF PutSent, TgFiles
    <3>3. /\ blobs' = Append(blobs, data)
          /\ msgs' = msgs \cup {[mid |-> Len(blobs) + 1, fid |-> Len(blobs) + 1,
                                 tag |-> tg_file_extract_directory(f.path)]}
      BY <2>10, <2>11 DEF PutSent
    <3>4. PICK bs, ms, es, e :
            /\ bs \in Seq(Contents) /\ bs = blobs
            /\ ms = msgs /\ es = Entries(st) /\ e = epoch
      BY <1>1
    <3>5. /\ g.message_id = Len(bs) + 1 /\ g.file_id = Len(bs) + 1
          /\ Channel(ms, bs) /\ Agree(es, ms, bs, e) /\ f \in es
          /\ g.path = f.path
      BY <1>2, <2>3, <2>4, <2>6, <2>10, <3>2, <3>4
    <3>6. /\ Channel(msgs', blobs')
          /\ Agree((es \ {f}) \cup {g}, msgs', blobs', e)
      BY <2>6, <3>1, <3>3, <3>4, <3>5, SendAgrees
    <3> QED
      BY <2>4, <2>7, <3>4, <3>6
  <2>12. CASE PutEdited(f, data, r)
    <3>1. f.file_size > 0
      BY <2>9, <2>12 DEF PutEdited
    <3>2. r.file_id = n /\ r.message_id = f.message_id
      BY <2>3, <2>10, <2>12 DEF PutEdited, TgFiles
    <3>3. /\ blobs' = Append(blobs, data)
          /\ msgs' = WithDocument(msgs, f, Len(blobs) + 1)
      BY <2>10, <2>12 DEF PutEdited, WithDocument
    <3>4. PICK bs, ms, es, e :
            /\ bs \in Seq(Contents) /\ bs = blobs
            /\ ms = msgs /\ es = Entries(st) /\ e = epoch
      BY <1>1
    <3>5. /\ g.message_id = f.message_id /\ g.file_id = Len(bs) + 1
          /\ Channel(ms, bs) /\ Agree(es, ms, bs, e) /\ f \in es
          /\ g.path = f.path
      BY <1>2, <2>3, <2>4, <2>6, <2>10, <3>2, <3>4
    <3>6. \A h, k \in es :
            h.message_id # NoId /\ h.message_id = k.message_id => h = k
      BY <1>3, <3>4
    <3>7. /\ Channel(msgs', blobs')
          /\ Agree((es \ {f}) \cup {g}, msgs', blobs', e)
      BY <2>6, <3>1, <3>3, <3>4, <3>5, <3>6, EditAgrees
    <3> QED
      BY <2>4, <2>7, <3>4, <3>7
  <2> QED
    BY <2>8, <2>9, <2>11, <2>12 DEF PutEffect
<1> QED
  BY <1>4, <1>5, <1>6, <1>7, <1>8, <1>9 DEF Effect

\* The invariant without refusals.
LEMMA AnsweredInvariance ==
  ASSUME Faults = {}
  PROVE  Spec => [](IInv /\ IdInv /\ MatchInv)
<1>1. Whole
  BY DEF Whole
<1>2. Init => MatchInv
  <2> SUFFICES ASSUME Init PROVE MatchInv
    OBVIOUS
  <2>1. Channel(msgs, blobs)
    BY DEF Init, Channel
  <2>2. ~Sweeping /\ ~up
    BY DEF Init, Sweeping, NoSweep
  <2> QED
    BY <2>1, <2>2 DEF MatchInv, SweepsDir
<1>3. IInv /\ IdInv /\ MatchInv /\ [Next]_vars => MatchInv'
  <2>1. ASSUME MatchInv, UNCHANGED vars PROVE MatchInv'
    BY <2>1 DEF MatchInv, SweepsDir, Sweeping, vars, fsVars, clientVars
  <2>2. ASSUME IInv, IdInv, MatchInv, Next PROVE MatchInv'
    <3>1. Effect
      BY <1>1, <2>2, NextEffect DEF EffectOK
    <3>2. Channel(msgs', blobs')
          /\ (up' => Agree(Entries(st'), msgs', blobs', epoch'))
      BY <2>2, <3>1, NextAgrees
    <3>3. SweepsDir'
      BY <1>1, <2>2, NextSweeps DEF MatchInv
    <3> QED
      BY <3>2, <3>3 DEF MatchInv
  <2> QED
    BY <2>1, <2>2
<1> QED
  BY <1>1, <1>2, <1>3, WholeInvariance, PTL DEF Spec

\* As long as every call is granted, each file with bytes has its message
\* with document, tag and size, and each message of this mount has its file.
THEOREM ChannelStaysMatched == Faults = {} => (Spec => []ChannelMatchesTable)
<1> SUFFICES ASSUME Faults = {} PROVE Spec => []ChannelMatchesTable
  OBVIOUS
<1>1. IInv /\ MatchInv => ChannelMatchesTable
  <2> SUFFICES ASSUME IInv, MatchInv, up PROVE ChannelMatchesTable
    BY DEF ChannelMatchesTable
  <2>1. Agree(Entries(st), msgs, blobs, epoch)
    BY DEF MatchInv
  <2>2. \A m, f : Held(m, f, blobs) <=> Holds(m, f)
    BY DEF Held, Holds
  <2>3. ASSUME NEW i \in 1 .. Len(st.files)
        PROVE  LET f == st.files[i] IN
               IF f.file_size > 0 THEN \E m \in msgs : Holds(m, f)
               ELSE f.file_id = NoId /\ f.message_id = NoId
    <3>1. Backed(st.files[i], msgs, blobs)
      BY <2>1 DEF Agree, Entries
    <3> QED
      BY <2>2, <3>1 DEF Backed
  <2>4. ASSUME NEW m \in msgs, m.mid > epoch
        PROVE  \E i \in 1 .. Len(st.files) : Holds(m, st.files[i])
    BY <2>1, <2>2, <2>4 DEF Agree, Entries
  <2> QED
    BY <2>3, <2>4 DEF ChannelMatchesTable
<1> QED
  BY <1>1, AnsweredInvariance, PTL

-----------------------------------------------------------------------------
(* The handlers implement the document store.                              *)

\* What users see of an entry, with documents bs.
Node(f, bs) ==
  [type |-> f.type, data |-> IF f.file_id = NoId THEN << >> ELSE bs[f.file_id]]

PathsIn(t) == {t.files[i].path : i \in 1 .. Len(t.files)}

TreeOf(t, bs) == [p \in PathsIn(t) |-> Node(EntryAt(t, p), bs)]

\* The tree of the refinement mapping.
LEMMA TreeIs == Tree = TreeOf(st, blobs)
BY DEF Tree, TreeOf, PathsIn, Node, Entry, Find, EntryAt

\* The same after a step.
LEMMA TreeIsNext == Tree' = TreeOf(st', blobs')
BY DEF Tree, TreeOf, PathsIn, Node, Entry, Find, EntryAt

\* The paths of a table are those that are found.
LEMMA PathsFound ==
  ASSUME NEW t \in Storages
  PROVE  \A q : q \in PathsIn(t) <=> In(t, q)
<1> SUFFICES ASSUME NEW q PROVE q \in PathsIn(t) <=> In(t, q)
  OBVIOUS
<1>1. PICK i : i = tg_storage_find_by_path(t, q)
  OBVIOUS
<1>2. /\ i \in 0 .. Len(t.files)
      /\ i # 0 => t.files[i].path = q
      /\ i = 0 => \A k \in 1 .. Len(t.files) : t.files[k].path # q
  BY <1>1, FindByPath
<1>3. CASE i = 0
  BY <1>1, <1>2, <1>3 DEF In, PathsIn
<1>4. CASE i # 0
  <2>1. i \in 1 .. Len(t.files)
    BY <1>2, <1>4, StorageShape
  <2> QED
    BY <1>1, <1>2, <1>4, <2>1 DEF In, PathsIn
<1> QED
  BY <1>3, <1>4

\* The tree with a node at p, and without one.
Grown(T, p, n) == [q \in DOMAIN T \cup {p} |-> IF q = p THEN n ELSE T[q]]
Pruned(T, p)   == [q \in DOMAIN T \ {p} |-> T[q]]

\* A step that is about path p and leaves every other node alone.
LEMMA TreeStep ==
  ASSUME NEW t \in Storages, NEW u \in Storages, NEW bs, NEW cs, NEW p,
         \A q : q # p => SameEntry(t, u, q),
         \A q : q # p /\ In(t, q) => Node(EntryAt(t, q), cs) = Node(EntryAt(t, q), bs)
  PROVE  /\ In(u, p) =>
              TreeOf(u, cs) = Grown(TreeOf(t, bs), p, Node(EntryAt(u, p), cs))
         /\ ~In(u, p) => TreeOf(u, cs) = Pruned(TreeOf(t, bs), p)
<1> DEFINE T == TreeOf(t, bs)
           N(q) == Node(EntryAt(u, q), cs)
<1>1. DOMAIN T = PathsIn(t) /\ \A q \in PathsIn(t) : T[q] = Node(EntryAt(t, q), bs)
  BY DEF TreeOf
<1>2. TreeOf(u, cs) = [q \in PathsIn(u) |-> N(q)]
  BY DEF TreeOf
<1> HIDE DEF T
<1>3. /\ \A q : q \in PathsIn(t) <=> In(t, q)
      /\ \A q : q \in PathsIn(u) <=> In(u, q)
  BY PathsFound
<1>4. ASSUME NEW q, q # p
      PROVE  /\ q \in PathsIn(u) <=> q \in PathsIn(t)
             /\ q \in PathsIn(t) => N(q) = T[q]
  BY <1>1, <1>3, <1>4 DEF SameEntry
<1> HIDE DEF N
<1>5. ASSUME In(u, p)
      PROVE  TreeOf(u, cs) = [q \in DOMAIN T \cup {p} |->
                                IF q = p THEN N(p) ELSE T[q]]
  <2>1. PathsIn(u) = DOMAIN T \cup {p}
    BY <1>1, <1>3, <1>4, <1>5
  <2>2. \A q \in PathsIn(u) : N(q) = IF q = p THEN N(p) ELSE T[q]
    BY <1>1, <1>4, <2>1
  <2> QED
    BY <1>2, <2>1, <2>2
<1>6. ASSUME ~In(u, p)
      PROVE  TreeOf(u, cs) = [q \in DOMAIN T \ {p} |-> T[q]]
  <2>1. PathsIn(u) = DOMAIN T \ {p}
    BY <1>1, <1>3, <1>4, <1>6
  <2>2. \A q \in PathsIn(u) : N(q) = T[q]
    BY <1>1, <1>4, <2>1
  <2> QED
    BY <1>2, <2>1, <2>2
<1> QED
  BY <1>5, <1>6 DEF T, N, Grown, Pruned

\* The process is not in a request when it is not up; directories are at most
\* one level deep, files two; and no sweep means no directory.
ShapeInv ==
  /\ ~Sweeping => sweep.dir = Root
  /\ ~up => ~stray /\ ~Sweeping
  /\ \A f \in Entries(st) :
       Len(f.path) <= 2 /\ (f.type = TG_DIR => Len(f.path) <= 1)

StoreInv == IInv /\ IdInv /\ MatchInv /\ ShapeInv

\* The nodes, and what the table says of them.
LEMMA NodeAt ==
  ASSUME IInv, MatchInv, up, NEW p, In(st, p)
  PROVE  LET f == EntryAt(st, p)
             n == Node(f, blobs)
         IN  /\ p \in DOMAIN Tree /\ Tree[p] = n
             /\ n.type = f.type
             /\ f.file_id = NoId => n.data = << >>
             /\ f.file_id # NoId =>
                  /\ n.data = blobs[f.file_id] /\ f.file_id \in 1 .. Len(blobs)
                  /\ n.data \in Contents /\ n.data # << >>
             /\ f.file_size > 0 <=> f.file_id # NoId
             /\ n.data \in Contents
             /\ Len(n.data) = f.file_size
             /\ f.type = TG_DIR => f.file_id = NoId
<1>1. PICK f : f = EntryAt(st, p)
  OBVIOUS
<1>2. PICK n : n = Node(f, blobs)
  OBVIOUS
<1>3. st \in Storages /\ blobs \in Seq(Contents)
  BY DEF IInv, TableInv, ClientOK
<1>4. p \in PathsIn(st)
  BY <1>3, PathsFound
<1>5. p \in DOMAIN Tree /\ Tree[p] = n
  BY <1>1, <1>2, <1>4, TreeIs DEF TreeOf
<1>6. f \in Entries(st) /\ f \in TgFiles
  BY <1>1, EntryThere
<1>7. Backed(f, msgs, blobs)
  BY <1>6 DEF MatchInv, Agree
<1>8. n.type = f.type /\ n.data = IF f.file_id = NoId THEN << >> ELSE blobs[f.file_id]
  BY <1>2 DEF Node
<1>9. CASE f.file_size > 0
  <2>1. f.type = TG_FILE /\ \E m \in msgs : Held(m, f, blobs)
    BY <1>7, <1>9 DEF Backed
  <2>2. /\ f.file_id \in 1 .. Len(blobs) /\ Len(blobs[f.file_id]) = f.file_size
    BY <2>1 DEF Held, MatchInv, Channel
  <2>3. f.file_id # NoId /\ f.type # TG_DIR
    BY <1>3, <2>1, <2>2 DEF NoId, TG_DIR, TG_FILE
  <2>4. blobs[f.file_id] \in Contents /\ blobs[f.file_id] # << >>
    <3>1. Len(blobs[f.file_id]) # 0
      BY <1>9, <2>2
    <3> QED
      BY <1>3, <2>2, <3>1
  <2> QED
    BY <1>1, <1>2, <1>5, <1>8, <1>9, <2>2, <2>3, <2>4
<1>10. CASE ~(f.file_size > 0)
  <2>1. f.file_id = NoId /\ f.file_size = 0
    BY <1>6, <1>7, <1>10 DEF Backed, TgFiles
  <2>2. << >> \in Contents /\ Len(<< >>) = 0
    BY DEF Contents
  <2>3. n.data = << >>
    BY <1>8, <2>1
  <2> QED
    BY <1>1, <1>2, <1>5, <1>8, <1>10, <2>1, <2>2, <2>3
<1> QED
  BY <1>9, <1>10

\* The guards of the handlers, as the store sees them.
LEMMA SeenAs ==
  ASSUME StoreInv, up
  PROVE  /\ Root \in DOMAIN Tree /\ Tree[Root].type = TG_DIR
         /\ In(st, Root)
         /\ \A p : /\ p \in DOMAIN Tree <=> In(st, p)
                   /\ Exists(p) <=> In(st, p)
                   /\ IsFile(p) <=> p \in DOMAIN Tree /\ Tree[p].type = TG_FILE
                   /\ IsDir(p) <=> p \in DOMAIN Tree /\ Tree[p].type = TG_DIR
<1>1. st \in Storages /\ DistinctPaths(st) /\ IInv /\ MatchInv
  BY DEF StoreInv, IInv, TableInv
<1>2. \A p : p \in DOMAIN Tree <=> In(st, p)
  BY <1>1, PathsFound, TreeIs DEF TreeOf
<1>3. \A p : In(st, p) => Tree[p].type = EntryAt(st, p).type
  BY <1>1, NodeAt
<1>4. \A p : (Exists(p) <=> In(st, p)) /\ Entry(p) = EntryAt(st, p)
  BY DEF Exists, In, Find, Entry, EntryAt
<1>5. In(st, Root) /\ EntryAt(st, Root).type = TG_DIR
  <2>1. /\ Len(st.files) \in Nat /\ Len(st.files) > 0
        /\ st.files[1] = tg_file_new_dir(Root)
    BY <1>1, StorageShape DEF IInv, TableInv
  <2>2. 1 \in 1 .. Len(st.files) /\ st.files[1].path = Root
        /\ st.files[1].type = TG_DIR
    BY <2>1 DEF tg_file_new_dir
  <2>3. In(st, Root) /\ EntryAt(st, Root) = st.files[1]
    BY <1>1, <2>2, EntryOfPath
  <2> QED
    BY <2>2, <2>3
<1>6. \A p : IsFile(p) <=> p \in DOMAIN Tree /\ Tree[p].type = TG_FILE
  BY <1>2, <1>3, <1>4 DEF IsFile
<1>7. \A p : IsDir(p) <=> p \in DOMAIN Tree /\ Tree[p].type = TG_DIR
  BY <1>2, <1>3, <1>4, <1>5 DEF IsDir
<1> QED
  BY <1>2, <1>3, <1>4, <1>5, <1>6, <1>7

\* The shape of the table.
Shallow(es) ==
  \A f \in es : Len(f.path) <= 2 /\ (f.type = TG_DIR => Len(f.path) <= 1)

\* Every path, "/" too, is a sequence of names.
LEMMA AnyPathShape ==
  ASSUME NEW p \in AllPaths
  PROVE  p \in Seq(Names) /\ Len(p) \in Nat
<1>1. CASE p \in Paths
  BY <1>1, PathShape
<1>2. CASE p = << >>
  <2>1. << >> \in Seq(Names) /\ Len(<< >>) = 0
    OBVIOUS
  <2> QED
    BY <1>2, <2>1
<1> QED
  BY <1>1, <1>2 DEF AllPaths, Root

\* A path that can be walked in a shallow table is short.
LEMMA WalkShort ==
  ASSUME IInv, Shallow(Entries(st)), NEW p \in AllPaths, Walk(p)
  PROVE  Len(p) <= 2
<1>1. p \in Seq(Names) /\ Len(p) \in Nat
  BY AnyPathShape
<1> SUFFICES ASSUME Len(p) > 2 PROVE FALSE
  BY <1>1
<1>2. PICK d : d = SubSeq(p, 1, 2)
  OBVIOUS
<1>3. Len(d) = 2
  <2>1. 2 \in 0 .. Len(p) /\ \A k \in 1 .. 2 : p[k] \in Names
    BY <1>1
  <2> QED
    BY <1>1, <1>2, <2>1, SubSeqProperties
<1>4. IsDir(d)
  <2>1. 2 \in 1 .. Len(p) - 1
    BY <1>1
  <2> QED
    BY <1>2, <2>1 DEF Walk
<1>5. d # Root
  BY <1>3 DEF Root
<1>6. In(st, d) /\ EntryAt(st, d).type = TG_DIR
  BY <1>4, <1>5 DEF IsDir, Exists, Entry, Find, In, EntryAt
<1>7. EntryAt(st, d) \in Entries(st) /\ EntryAt(st, d).path = d
  BY <1>6, EntryThere
<1> QED
  BY <1>3, <1>6, <1>7 DEF Shallow

\* A table stays shallow when directories are made in "/" only.
LEMMA NextShallow ==
  ASSUME MkdirDepth <= 1, IInv, Shallow(Entries(st)), Effect
  PROVE  Shallow(Entries(st'))
<1>1. st \in Storages /\ DistinctPaths(st)
  BY DEF IInv, TableInv
<1>2. CASE Restarted
  <2> DEFINE root == tg_file_new_dir(Root)
  <2>1. root \in TgFiles /\ root.path = Root
    BY DEF tg_file_new_dir, TgFiles, NoId
  <2>2. tg_storage_new \in Storages /\ Entries(tg_storage_new) = {}
    BY DEF tg_storage_new, Storages, Entries
  <2> HIDE DEF root
  <2>3. st' = tg_storage_push(tg_storage_new, root)
    BY <1>2 DEF Restarted, root
  <2>4. Entries(st') = {root}
    BY <2>1, <2>2, <2>3, PushEntries
  <2> QED
    BY <2>1, <2>4 DEF Shallow, Root
<1>3. CASE Ended
  <2>1. Entries(st') = {}
    BY <1>3 DEF Ended, tg_storage_free, Entries
  <2> QED
    BY <2>1 DEF Shallow
<1>4. CASE Looked
  BY <1>4 DEF Looked
<1>5. CASE \E f \in TgFiles : Added(f)
  <2>1. PICK f \in TgFiles : Added(f)
    BY <1>5
  <2>2. Entries(st') = Entries(st) \cup {f}
    BY <1>1, <2>1, PushEntries DEF Added
  <2>3. f.path \in AllPaths /\ Len(f.path) \in Nat
    BY AnyPathShape DEF TgFiles, AllPaths
  <2>4. Len(f.path) <= 2
    BY <2>1, <2>3, WalkShort DEF Added
  <2>5. f.type = TG_DIR => Len(f.path) <= 1
    BY <2>1, <2>3, BoundsAssumption DEF Added
  <2> QED
    BY <2>2, <2>4, <2>5 DEF Shallow
<1>6. CASE \E p \in Paths : Dropped(p)
  <2>1. PICK p \in Paths : Dropped(p)
    BY <1>6
  <2>2. Entries(st') = Entries(st) \ {EntryAt(st, p)}
    BY <1>1, <2>1, RemoveEntries DEF Dropped
  <2> QED
    BY <2>2 DEF Shallow
<1>7. CASE \E p \in Paths, data \in Contents \ {<< >>}, r \in TgFiles :
             r.path = p /\ r.type = TG_FILE /\ Wrote(p, data, r)
  <2>1. PICK p \in Paths, data \in Contents \ {<< >>}, r \in TgFiles :
          r.path = p /\ r.type = TG_FILE /\ Wrote(p, data, r)
    BY <1>7
  <2>2. PICK g : g = [r EXCEPT !.file_size = Len(data)]
    OBVIOUS
  <2>3. g \in TgFiles /\ g.path = p /\ g.type = TG_FILE
    <3>1. Len(data) \in Nat
      BY DEF Contents
    <3> QED
      BY <2>1, <2>2, <3>1 DEF TgFiles
  <2>4. Entries(st') = (Entries(st) \ {EntryAt(st, p)}) \cup {g}
    <3>1. st' = [st EXCEPT !.files[tg_storage_find_by_path(st, p)] = g] /\ In(st, p)
      BY <2>1, <2>2 DEF Wrote
    <3> QED
      BY <1>1, <2>3, <3>1, UpdateEntries
  <2>5. Len(p) <= 2
    BY <2>1, EntryThere DEF Wrote, Shallow
  <2> QED
    BY <2>3, <2>4, <2>5 DEF Shallow, TG_FILE, TG_DIR
<1> QED
  BY <1>2, <1>3, <1>4, <1>5, <1>6, <1>7 DEF Effect

\* Every step keeps the shape.
LEMMA NextShape ==
  ASSUME Faults = {}, MkdirDepth <= 1, StoreInv, Next
  PROVE  ShapeInv'
<1>1. Whole
  BY DEF Whole
<1>2. Effect
  BY <1>1, NextEffect DEF EffectOK, StoreInv
<1>3. Shallow(Entries(st'))
  BY <1>2, NextShallow DEF StoreInv, ShapeInv, Shallow
<1>4. ASSUME ~up' PROVE ~stray' /\ sweep' = NoSweep
  BY <1>2, <1>4 DEF Effect, Restarted, Ended, Looked, Added, Dropped, Wrote,
    StoreInv, IInv, ProcessInv
<1>5. ~Sweeping' => sweep'.dir = Root
  <2>1. CASE rmdir_turn
    <3>1. PICK p \in Paths :
            sweep' = [sweep EXCEPT !.from = NextInDir + 1]
      BY <1>1, <2>1, RmdirTurnWhole DEF StoreInv
    <3>2. NextInDir \in Nat
      BY <2>1, FoundInDirectory DEF rmdir_turn, StoreInv
    <3>3. sweep'.from = NextInDir + 1
      BY <3>1 DEF StoreInv, IInv, ProcessInv
    <3> QED
      BY <3>2, <3>3 DEF Sweeping
  <2>2. CASE \E p \in Paths : hello_rmdir(p)
    BY <2>2 DEF hello_rmdir, Sweeping
  <2>3. CASE ~rmdir_turn /\ ~\E p \in Paths : hello_rmdir(p)
    <3>1. sweep' = NoSweep \/ (sweep' = sweep /\ ~Sweeping)
      BY <1>1, <2>3, SweepKept DEF StoreInv
    <3> QED
      BY <3>1 DEF NoSweep, StoreInv, ShapeInv
  <2> QED
    BY <2>1, <2>2, <2>3
<1>6. ~up' => ~stray' /\ ~Sweeping'
  BY <1>4 DEF Sweeping, NoSweep
<1> QED
  BY <1>3, <1>5, <1>6 DEF ShapeInv, Shallow

\* The invariant of the refinement.
LEMMA StoreInvariance ==
  ASSUME Faults = {}, MkdirDepth <= 1
  PROVE  Spec => []StoreInv
<1>1. Init => ShapeInv
  <2> SUFFICES ASSUME Init PROVE ShapeInv
    OBVIOUS
  <2>1. Entries(st) = {}
    BY DEF Init, tg_storage_free, Entries
  <2> QED
    BY <2>1 DEF Init, ShapeInv, Sweeping, NoSweep
<1>2. IInv /\ IdInv /\ MatchInv /\ ShapeInv /\ [Next]_vars => ShapeInv'
  <2>1. ASSUME ShapeInv, UNCHANGED vars PROVE ShapeInv'
    BY <2>1 DEF ShapeInv, Sweeping, vars, fsVars
  <2> QED
    BY <2>1, NextShape DEF StoreInv
<1>3. IInv /\ IdInv /\ MatchInv /\ ShapeInv => StoreInv
  BY DEF StoreInv
<1> QED
  BY <1>1, <1>2, <1>3, AnsweredInvariance, PTL DEF Spec

\* The two modules share the names of TgFile.
LEMMA StoreNames ==
  /\ Store!TG_DIR = TG_DIR /\ Store!TG_FILE = TG_FILE /\ Store!Root = Root
  /\ \A m, n : Store!Larger(m, n) = Larger(m, n)
BY DEF Store!TG_DIR, Store!TG_FILE, Store!Root, TG_DIR, TG_FILE, Root,
  Store!Larger, Larger

\* What the thread sees as its turn is the store's.
LEMMA StoreIdle ==
  ASSUME StoreInv, Ready
  PROVE  Store!Idle /\ up
BY StoreNames DEF StoreInv, ShapeInv, Ready, Store!Idle

\* A step that touches neither table nor documents keeps the tree.
LEMMA TreeKept ==
  ASSUME st' = st, blobs' = blobs
  PROVE  Tree' = Tree
BY TreeIs, TreeIsNext

\* With the table, the tree goes.
LEMMA TreeGone ==
  ASSUME NEW bs
  PROVE  TreeOf(tg_storage_free, bs) = [p \in {} |-> Store!Directory]
<1>1. PathsIn(tg_storage_free) = {}
  BY DEF PathsIn, tg_storage_free
<1> QED
  BY <1>1 DEF TreeOf

\* A new table has the root directory.
LEMMA TreeStarted ==
  ASSUME NEW bs
  PROVE  TreeOf(tg_storage_push(tg_storage_new, tg_file_new_dir(Root)), bs)
           = [p \in {Root} |-> Store!Directory]
<1>1. PICK root : root = tg_file_new_dir(Root)
  OBVIOUS
<1>2. /\ root \in TgFiles /\ root.path = Root
      /\ Node(root, bs) = Store!Directory
  BY <1>1, StoreNames DEF tg_file_new_dir, TgFiles, NoId, Node, Store!Directory
<1>3. PICK t : t = tg_storage_new
  OBVIOUS
<1>4. t \in Storages /\ Len(t.files) = 0 /\ DistinctPaths(t) /\ PathsIn(t) = {}
  BY <1>3 DEF tg_storage_new, Storages, DistinctPaths, PathsIn
<1>5. PICK u : u = tg_storage_push(t, root)
  OBVIOUS
<1>6. ~In(t, Root)
  BY <1>4, PathsFound
<1>7. /\ In(u, Root) /\ EntryAt(u, Root) = root /\ u \in Storages
      /\ \A q : q # Root => SameEntry(t, u, q)
  BY <1>2, <1>4, <1>5, <1>6, PushEntry, PushTable
<1>8. PathsIn(u) = {Root}
  <2>1. \A q : q \in PathsIn(u) <=> In(u, q)
    BY <1>7, PathsFound
  <2>2. \A q : ~In(t, q)
    BY <1>4, PathsFound
  <2> QED
    BY <1>7, <2>1, <2>2 DEF SameEntry
<1>9. TreeOf(u, bs) = [p \in {Root} |-> Store!Directory]
  BY <1>2, <1>7, <1>8 DEF TreeOf
<1> QED
  BY <1>1, <1>3, <1>5, <1>9

\* A new entry is a new node.
LEMMA TreeAdded ==
  ASSUME StoreInv, NEW f \in TgFiles, Added(f)
  PROVE  Tree' = Store!With(f.path, [type |-> f.type, data |-> << >>])
<1>1. st \in Storages /\ DistinctPaths(st)
  BY DEF StoreInv, IInv, TableInv
<1>2. PICK p : p = f.path
  OBVIOUS
<1>3. /\ st' \in Storages
      /\ In(st', p) /\ EntryAt(st', p) = f
      /\ \A q : q # p => SameEntry(st, st', q)
  BY <1>1, <1>2, PushEntry, PushTable DEF Added
<1>4. blobs' = blobs /\ Node(f, blobs) = [type |-> f.type, data |-> << >>]
  BY DEF Added, Node
<1>5. PICK t, u, bs : t = st /\ u = st' /\ bs = blobs
  OBVIOUS
<1>6. TreeOf(u, bs) = Grown(TreeOf(t, bs), p, Node(EntryAt(u, p), bs))
  BY <1>1, <1>3, <1>5, TreeStep
<1>7. Tree = TreeOf(t, bs) /\ Tree' = TreeOf(u, bs)
  BY <1>4, <1>5, TreeIs, TreeIsNext
<1> QED
  BY <1>2, <1>3, <1>4, <1>5, <1>6, <1>7 DEF Store!With, Grown

\* A removed entry is a removed node.
LEMMA TreeDropped ==
  ASSUME StoreInv, NEW p, Dropped(p)
  PROVE  Tree' = Store!Without(p)
<1>1. st \in Storages /\ DistinctPaths(st)
  BY DEF StoreInv, IInv, TableInv
<1>2. /\ st' \in Storages
      /\ ~In(st', p)
      /\ \A q : q # p => SameEntry(st, st', q)
  <2>1. tg_storage_find_by_path(st, p) # 0
    BY DEF Dropped, In
  <2>2. st' \in Storages
    BY <1>1, <2>1, RemoveTable DEF Dropped
  <2> QED
    BY <1>1, <2>2, RemoveEntry DEF Dropped
<1>3. blobs' = blobs
  BY DEF Dropped
<1>4. PICK t, u, bs : t = st /\ u = st' /\ bs = blobs
  OBVIOUS
<1>5. TreeOf(u, bs) = Pruned(TreeOf(t, bs), p)
  BY <1>1, <1>2, <1>4, TreeStep
<1>6. Tree = TreeOf(t, bs) /\ Tree' = TreeOf(u, bs)
  BY <1>3, <1>4, TreeIs, TreeIsNext
<1> QED
  BY <1>5, <1>6 DEF Store!Without, Pruned

\* The walk ends in the parent directory.
LEMMA WalkedParent ==
  ASSUME StoreInv, up, NEW p \in Paths, Walk(p)
  PROVE  Store!IsDirectory(Store!Parent(p))
<1>1. p \in Seq(Names) /\ Len(p) \in Nat \ {0}
  BY PathShape
<1>2. PICK d : d = SubSeq(p, 1, Len(p) - 1)
  OBVIOUS
<1>3. IsDir(d)
  <2>1. CASE Len(p) = 1
    <3>1. d = << >>
      BY <1>1, <1>2, <2>1
    <3> QED
      BY <3>1 DEF IsDir, Root
  <2>2. CASE Len(p) # 1
    <3>1. PICK n \in Nat : n = Len(p)
      BY <1>1
    <3>2. n - 1 \in 1 .. n - 1
      BY <1>1, <2>2, <3>1
    <3> QED
      BY <1>2, <3>1, <3>2 DEF Walk
  <2> QED
    BY <2>1, <2>2
<1>4. d \in DOMAIN Tree /\ Tree[d].type = TG_DIR
  BY <1>3, SeenAs
<1> QED
  BY <1>2, <1>4, StoreNames DEF Store!IsDirectory, Store!Present, Store!Parent

\* Each action is a step of the store.
LEMMA MountSim ==
  ASSUME StoreInv, Mount
  PROVE  Store!Start
<1>1. ~up /\ stray \in BOOLEAN
  BY DEF Mount, StoreInv, IInv, ProcessInv
<1>2. stray = FALSE /\ sweep.dir = Root
  BY <1>1 DEF StoreInv, ShapeInv
<1>3. up' /\ stray' = FALSE /\ sweep'.dir = Root
  BY DEF Mount, NoSweep
<1>4. Tree' = [p \in {Root} |-> Store!Directory]
  BY TreeStarted, TreeIsNext DEF Mount
<1>5. out' = <<"mount", Root, "OK", 0>>
  BY DEF Mount, Reply
<1> QED
  BY <1>1, <1>2, <1>3, <1>4, <1>5, StoreNames DEF Store!Start, Store!Answer

\* hello_destroy, and the use of a file in a removed directory.
LEMMA EndSim ==
  ASSUME StoreInv, hello_destroy \/ stray_io
  PROVE  Store!Stop \/ Store!Crash
<1>1. Ready /\ Gone /\ stray \in BOOLEAN
  BY DEF hello_destroy, stray_io, StoreInv, IInv, ProcessInv
<1>2. Store!Idle /\ sweep.dir = Root
  BY <1>1, StoreIdle, StoreNames DEF Store!Idle
<1>3. up' = FALSE /\ stray' = FALSE /\ sweep'.dir = Root
  BY <1>1 DEF Gone, NoSweep
<1>4. Tree' = [p \in {} |-> Store!Directory]
  BY <1>1, TreeGone, TreeIsNext DEF Gone
<1>5. CASE hello_destroy
  <2>1. out' = <<"destroy", Root, "OK", 0>>
    BY <1>5 DEF hello_destroy, Reply
  <2> QED
    BY <1>2, <1>3, <1>4, <2>1, StoreNames DEF Store!Stop, Store!Answer
<1>6. CASE stray_io
  <2>1. stray /\ out' = <<"stray", Root, "died", 0>>
    BY <1>6 DEF stray_io, Reply
  <2> QED
    BY <1>2, <1>3, <1>4, <2>1, StoreNames DEF Store!Crash, Store!Answer
<1> QED
  BY <1>5, <1>6

\* hello_create and hello_mkdir.
LEMMA MakeSim ==
  ASSUME StoreInv, NEW p \in Paths, hello_create(p) \/ hello_mkdir(p)
  PROVE  \/ Store!Make("create", p, Store!Document(<< >>))
         \/ Store!Make("mkdir", p, Store!Directory)
<1>1. Ready /\ Walk(p) /\ ~Exists(p)
      /\ UNCHANGED <<up, stray, sweep, epoch, clientVars>>
  BY DEF hello_create, hello_mkdir
<1>2. /\ Store!Idle /\ up
      /\ ~Store!Present(p) /\ Store!IsDirectory(Store!Parent(p))
  BY <1>1, StoreIdle, SeenAs, WalkedParent DEF Store!Present
<1>3. ~In(st, p) /\ UNCHANGED <<msgs, blobs, epoch>>
  BY <1>1 DEF Exists, Find, In, clientVars
<1>4. CASE hello_create(p)
  <2>1. PICK f : f = tg_file_new_file(p, 0)
    OBVIOUS
  <2>2. /\ f \in TgFiles /\ f.path = p /\ f.type = TG_FILE /\ f.type # TG_DIR
        /\ f.file_id = NoId /\ f.message_id = NoId /\ f.file_size = 0
    BY <2>1 DEF tg_file_new_file, TgFiles, NoId, TG_FILE, TG_DIR
  <2>3. Added(f)
    BY <1>1, <1>2, <1>3, <1>4, <2>1, <2>2 DEF hello_create, Added
  <2>4. Tree' = Store!With(p, Store!Document(<< >>))
    BY <2>2, <2>3, TreeAdded, StoreNames DEF Store!Document
  <2>5. out' = <<"create", p, "OK", 0>>
    BY <1>4 DEF hello_create, Reply
  <2> QED
    BY <1>1, <1>2, <2>4, <2>5 DEF Store!Make, Store!Answer
<1>5. CASE hello_mkdir(p)
  <2>1. PICK f : f = tg_file_new_dir(p)
    OBVIOUS
  <2>2. /\ f \in TgFiles /\ f.path = p /\ f.type = TG_DIR
        /\ f.file_id = NoId /\ f.message_id = NoId /\ f.file_size = 0
    BY <2>1 DEF tg_file_new_dir, TgFiles, NoId
  <2>3. Added(f)
    BY <1>1, <1>2, <1>3, <1>5, <2>1, <2>2 DEF hello_mkdir, Added
  <2>4. Tree' = Store!With(p, Store!Directory)
    BY <2>2, <2>3, TreeAdded, StoreNames DEF Store!Directory
  <2>5. out' = <<"mkdir", p, "OK", 0>>
    BY <1>5 DEF hello_mkdir, Reply
  <2> QED
    BY <1>1, <1>2, <2>4, <2>5 DEF Store!Make, Store!Answer
<1> QED
  BY <1>4, <1>5

\* hello_unlink.
LEMMA UnlinkSim ==
  ASSUME Whole, StoreInv, NEW p \in Paths, hello_unlink(p)
  PROVE  Store!Unlink(p)
<1>1. Ready /\ IsFile(p)
  BY DEF hello_unlink
<1>2. Store!Idle /\ up /\ Store!IsDocument(p)
  BY <1>1, StoreIdle, SeenAs, StoreNames DEF Store!IsDocument, Store!Present
<1>3. /\ Dropped(p) /\ out' = <<"unlink", p, "OK", 0>>
      /\ UNCHANGED <<up, stray, sweep>>
  BY UnlinkWhole DEF StoreInv
<1>4. Tree' = Store!Without(p)
  BY <1>3, TreeDropped
<1> QED
  BY <1>2, <1>3, <1>4 DEF Store!Unlink, Store!Answer

\* hello_rmdir: the check before the loop.
LEMMA BeginSim ==
  ASSUME StoreInv, NEW p \in Paths, hello_rmdir(p)
  PROVE  Store!BeginRmdir(p)
<1>1. /\ Ready /\ p # Root /\ IsDir(p)
      /\ sweep' = [dir |-> p, from |-> 1]
      /\ UNCHANGED <<up, st, stray, out, blobs>>
  BY DEF hello_rmdir, clientVars
<1>2. Store!Idle /\ up /\ Store!IsDirectory(p)
  BY <1>1, StoreIdle, SeenAs, StoreNames DEF Store!IsDirectory, Store!Present
<1>3. Tree' = Tree /\ sweep'.dir = p
  BY <1>1, TreeKept
<1> QED
  BY <1>1, <1>2, <1>3, StoreNames DEF Store!BeginRmdir

\* hello_rmdir: one turn of the loop.
LEMMA TurnSim ==
  ASSUME Whole, StoreInv, rmdir_turn
  PROVE  \E p \in Paths : Store!Discard(p)
<1>1. up /\ Sweeping
  BY DEF rmdir_turn
<1>2. PICK p \in Paths :
        /\ Dropped(p) /\ Under(sweep.dir, p) /\ p # sweep.dir
        /\ sweep' = [sweep EXCEPT !.from = NextInDir + 1]
        /\ UNCHANGED <<up, stray, out>>
  BY RmdirTurnWhole DEF StoreInv
<1>3. PICK d : d = sweep.dir
  OBVIOUS
<1>4. sweep'.dir = d /\ d \in Paths
  BY <1>1, <1>2, <1>3 DEF StoreInv, IInv, ProcessInv
<1>5. Store!Below(d, p)
  <2>1. /\ p \in Seq(Names) /\ Len(p) \in Nat /\ Len(d) \in Nat
        /\ Len(d) <= Len(p) /\ SubSeq(p, 1, Len(d)) = d
    BY <1>2, <1>3, <1>4, PathShape DEF Under
  <2>2. Len(d) # Len(p)
    <3>1. SubSeq(p, 1, Len(p)) = p
      BY <2>1, SubSeqFull
    <3> QED
      BY <1>2, <1>3, <2>1, <3>1
  <2> QED
    BY <2>1, <2>2 DEF Store!Below
<1>6. p \in DOMAIN Tree /\ d # Root
  BY <1>1, <1>2, <1>4, SeenAs, PathShape DEF Dropped
<1>7. Tree' = Store!Without(p)
  BY <1>2, TreeDropped
<1>8. Store!Discard(p)
  BY <1>2, <1>3, <1>4, <1>5, <1>6, <1>7, StoreNames
    DEF Store!Discard, Store!Present
<1> QED
  BY <1>8

\* hello_rmdir: the removal of the directory itself.
LEMMA ReturnSim ==
  ASSUME StoreInv, rmdir_return
  PROVE  Store!EndRmdir
<1>1. /\ up /\ Sweeping
      /\ st' = tg_storage_remove_by_path(st, sweep.dir)
      /\ out' = <<"rmdir", sweep.dir, "OK", 0>>
      /\ sweep'.dir = Root
      /\ UNCHANGED <<up, blobs>>
  BY DEF rmdir_return, Reply, NoSweep, clientVars
<1>2. stray' \in {stray, TRUE}
  <2>1. stray \in BOOLEAN /\ stray' = (stray \/ \E h \in handles : Under(sweep.dir, h))
    BY DEF rmdir_return, StoreInv, IInv, ProcessInv
  <2>2. CASE \E h \in handles : Under(sweep.dir, h)
    BY <2>1, <2>2
  <2>3. CASE ~\E h \in handles : Under(sweep.dir, h)
    BY <2>1, <2>3
  <2> QED
    BY <2>2, <2>3
<1>3. PICK d : d = sweep.dir
  OBVIOUS
<1>4. d \in Paths /\ d # Root
  BY <1>1, <1>3, PathShape DEF StoreInv, IInv, ProcessInv
<1>5. CASE In(st, d)
  <2>1. Looked \/ Dropped(d)
    BY <1>3, RmdirReturnWhole DEF StoreInv
  <2>2. st' # st
    <3>1. PICK u : u = tg_storage_remove_by_path(st, d)
      OBVIOUS
    <3>2. ~In(u, d)
      BY <1>5, <3>1, RemoveEntry DEF StoreInv, IInv, TableInv
    <3> QED
      BY <1>1, <1>3, <1>5, <3>1, <3>2
  <2>3. Tree' = Store!Without(d)
    BY <2>1, <2>2, TreeDropped DEF Looked
  <2> QED
    BY <1>1, <1>2, <1>3, <1>4, <2>3, StoreNames DEF Store!EndRmdir, Store!Answer
<1>6. CASE ~In(st, d)
  <2>1. st' = st
    BY <1>1, <1>3, <1>6 DEF tg_storage_remove_by_path, In
  <2>2. Tree' = Tree /\ d \notin DOMAIN Tree
    BY <1>1, <1>6, <2>1, TreeKept, SeenAs
  <2>3. PICK T : T = Tree
    OBVIOUS
  <2>4. T = [q \in DOMAIN T |-> T[q]]
    BY <2>3, TreeIs DEF TreeOf
  <2>5. DOMAIN T = DOMAIN T \ {d}
    BY <2>2, <2>3
  <2>6. T = [q \in DOMAIN T \ {d} |-> T[q]]
    BY <2>4, <2>5
  <2>7. Tree' = Store!Without(d)
    BY <2>2, <2>3, <2>6 DEF Store!Without
  <2> QED
    BY <1>1, <1>2, <1>3, <1>4, <2>7, StoreNames DEF Store!EndRmdir, Store!Answer
<1> QED
  BY <1>5, <1>6

\* Requests that say nothing about the tree.
LEMMA QuietSim ==
  ASSUME StoreInv, NEW p \in Paths,
         \/ hello_ignored(p) \/ release(p) \/ unlink_open(p)
         \/ \E trunc \in BOOLEAN : hello_open(p, trunc)
  PROVE  Store!Acknowledge \/ Store!TruncatingOpen(p) \/ Store!Refuse(p)
<1>1. Ready /\ UNCHANGED <<up, st, sweep, blobs>>
  BY DEF hello_ignored, release, unlink_open, hello_open, clientVars
<1>2. Store!Idle /\ up /\ Tree' = Tree
  BY <1>1, StoreIdle, TreeKept
<1>3. ASSUME IsFile(p) PROVE Store!IsDocument(p)
  BY <1>2, <1>3, SeenAs, StoreNames DEF Store!IsDocument, Store!Present
<1>4. CASE hello_ignored(p) \/ release(p) \/ hello_open(p, FALSE)
  <2>1. stray' = stray /\ Acknowledge
    BY <1>4 DEF hello_ignored, release, hello_open
  <2> QED
    BY <1>1, <1>2, <2>1, StoreNames
      DEF Acknowledge, Reply, Store!Acknowledge, Store!Answer
<1>5. CASE hello_open(p, TRUE)
  BY <1>1, <1>2, <1>3, <1>5
    DEF hello_open, Reply, Store!TruncatingOpen, Store!Answer
<1>6. CASE unlink_open(p)
  BY <1>1, <1>2, <1>3, <1>6 DEF unlink_open, Reply, Store!Refuse, Store!Answer
<1> QED
  BY <1>4, <1>5, <1>6

\* The release of a file in a removed directory.
LEMMA StrayReleaseSim ==
  ASSUME StoreInv, stray_release
  PROVE  Store!Acknowledge
<1>1. Ready /\ UNCHANGED <<up, st, sweep, blobs>>
  BY DEF stray_release, clientVars
<1>2. Store!Idle /\ Tree' = Tree
  BY <1>1, StoreIdle, TreeKept
<1>3. stray' \in {stray, FALSE}
  BY DEF stray_release, StoreInv, IInv, ProcessInv
<1> QED
  BY <1>1, <1>2, <1>3, StoreNames
    DEF stray_release, Acknowledge, Reply, Store!Acknowledge, Store!Answer

\* hello_getattr reports type and size of the node.
LEMMA StatSim ==
  ASSUME StoreInv, NEW p \in AllPaths, hello_getattr(p)
  PROVE  Store!Stat(p)
<1>1. Ready /\ UNCHANGED <<up, st, stray, sweep, blobs>>
  BY DEF hello_getattr, clientVars
<1>2. Store!Idle /\ up /\ Tree' = Tree
  BY <1>1, StoreIdle, TreeKept
<1>3. CASE In(st, p)
  <2>1. PICK f, n : f = EntryAt(st, p) /\ n = Node(f, blobs)
    OBVIOUS
  <2>2. /\ p \in DOMAIN Tree /\ Tree[p] = n /\ n.type = f.type
        /\ Len(n.data) = f.file_size
        /\ f.type = TG_DIR => n.data = << >>
    BY <1>2, <1>3, <2>1, NodeAt DEF StoreInv
  <2>3. Exists(p) /\ Entry(p) = f
    BY <1>3, <2>1 DEF Exists, Entry, Find, In, EntryAt
  <2>4. out' = <<"getattr", p, "OK", <<Tree[p].type, Len(Tree[p].data)>> >>
    <3>1. CASE /\ IsDir(p) /\ Reply("getattr", p, "OK", <<TG_DIR, 0>>)
      <4>1. Tree[p].type = TG_DIR
        BY <1>2, <3>1, SeenAs
      <4>2. Len(Tree[p].data) = 0
        BY <2>2, <4>1
      <4> QED
        BY <3>1, <4>1, <4>2 DEF Reply
    <3>2. CASE /\ IsFile(p)
               /\ Reply("getattr", p, "OK", <<TG_FILE, Entry(p).file_size>>)
      <4>1. Tree[p].type = TG_FILE
        BY <1>2, <3>2, SeenAs
      <4> QED
        BY <2>2, <2>3, <3>2, <4>1 DEF Reply
    <3> QED
      BY <2>3, <3>1, <3>2 DEF hello_getattr
  <2> QED
    BY <1>1, <1>2, <2>2, <2>4 DEF Store!Stat, Store!Present, Store!Answer
<1>4. CASE ~In(st, p)
  <2>1. p \notin DOMAIN Tree /\ ~IsDir(p) /\ ~IsFile(p)
    BY <1>2, <1>4, SeenAs
  <2>2. out' = <<"getattr", p, "ENOENT", 0>>
    BY <2>1 DEF hello_getattr, Reply
  <2> QED
    BY <1>1, <1>2, <2>1, <2>2 DEF Store!Stat, Store!Present, Store!Answer
<1> QED
  BY <1>3, <1>4

\* Down to the second level the directory tag of a path is its parent.
LEMMA TagIsParent ==
  ASSUME NEW q \in AllPaths, Len(q) <= 2, NEW p
  PROVE  q # p /\ tg_file_extract_directory(q) = p
           <=> q # Root /\ Store!Parent(q) = p
<1>1. q \in Seq(Names) /\ Len(q) \in Nat
  BY AnyPathShape
<1>2. PICK n \in Nat : n = Len(q) /\ n <= 2
  BY <1>1
<1>3. n = 0 \/ n = 1 \/ n = 2
  BY <1>2
<1>4. Len(Root) = 0
  BY DEF Root
<1>5. CASE Len(q) = 0
  <2>1. q = Root
    BY <1>1, <1>5 DEF Root
  <2>2. tg_file_extract_directory(q) = q
    BY <1>5, <2>1 DEF tg_file_extract_directory
  <2> QED
    BY <2>1, <2>2
<1>6. CASE Len(q) = 1
  <2>1. q # Root
    BY <1>6, <1>4
  <2>2. tg_file_extract_directory(q) = Root
    BY <1>6 DEF tg_file_extract_directory
  <2>3. Store!Parent(q) = Root
    <3>1. SubSeq(q, 1, 0) = << >>
      BY SubSeqEmpty
    <3> QED
      BY <1>6, <3>1 DEF Store!Parent, Root
  <2> QED
    BY <2>1, <2>2, <2>3
<1>7. CASE Len(q) = 2
  <2>1. q # Root
    BY <1>7, <1>4
  <2>2. PICK d : d = <<q[1]>>
    OBVIOUS
  <2>3. tg_file_extract_directory(q) = d
    BY <1>7, <2>2 DEF tg_file_extract_directory
  <2>4. q[1] \in Names
    <3>1. 1 \in 1 .. Len(q)
      BY <1>7
    <3> QED
      BY <1>1, <3>1, ElementOfSeq
  <2>5. Store!Parent(q) = d
    <3>1. PICK e : e = SubSeq(q, 1, 1)
      OBVIOUS
    <3>2. e \in Seq(Names) /\ Len(e) = 1 /\ e[1] = q[1]
      <4>1. \A k \in 1 .. 1 : q[k] \in Names
        BY <2>4
      <4> QED
        BY <3>1, <4>1, SubSeqProperties
    <3>3. d \in Seq(Names) /\ Len(d) = 1 /\ d[1] = q[1]
      BY <2>2, <2>4
    <3>4. e = d
      BY <3>2, <3>3, SeqEqual
    <3> QED
      BY <1>7, <3>1, <3>4 DEF Store!Parent
  <2>6. Len(d) = 1
    BY <2>2
  <2>7. q # d
    BY <1>7, <2>6
  <2> QED
    BY <2>1, <2>3, <2>5, <2>7
<1> QED
  BY <1>5, <1>6, <1>7, <1>2, <1>3

\* hello_readdir lists the children of the directory, and no others.
LEMMA ListSim ==
  ASSUME StoreInv, NEW p \in AllPaths, hello_readdir(p)
  PROVE  Store!List(p)
<1>1. Ready /\ IsDir(p) /\ UNCHANGED <<up, st, stray, sweep, blobs>>
  BY DEF hello_readdir, clientVars
<1>2. Store!Idle /\ up /\ Tree' = Tree
  BY <1>1, StoreIdle, TreeKept
<1>3. Store!IsDirectory(p) /\ Exists(p)
  BY <1>1, <1>2, SeenAs, StoreNames DEF Store!IsDirectory, Store!Present
<1>4. DOMAIN Tree = PathsIn(st)
  BY TreeIs DEF TreeOf
<1>5. ASSUME NEW i \in 1 .. Len(st.files), NEW q, q = st.files[i].path
      PROVE  i \in InDirectory(st, p) <=> q # Root /\ Store!Parent(q) = p
  <2>1. st.files[i] \in TgFiles /\ st.files[i] \in Entries(st)
    BY <1>5, StorageShape DEF Entries, StoreInv, IInv, TableInv
  <2>2. q \in AllPaths /\ Len(q) <= 2
    BY <1>5, <2>1 DEF TgFiles, AllPaths, StoreInv, ShapeInv
  <2>3. i \in InDirectory(st, p) <=> q # p /\ tg_file_extract_directory(q) = p
    BY <1>5 DEF InDirectory
  <2> QED
    BY <2>2, <2>3, TagIsParent
<1> DEFINE Shown == {tg_file_extract_filename(st.files[i].path) :
                       i \in InDirectory(st, p)}
           Due   == {q[Len(q)] : q \in {r \in PathsIn(st) \ {Root} :
                                          Store!Parent(r) = p}}
<1>6. Shown = Due
  <2>1. ASSUME NEW x \in Shown PROVE x \in Due
    <3>1. PICK i \in InDirectory(st, p) :
            x = tg_file_extract_filename(st.files[i].path)
      BY <2>1
    <3>2. i \in 1 .. Len(st.files)
      BY <3>1 DEF InDirectory
    <3>3. PICK q : q = st.files[i].path
      OBVIOUS
    <3>4. q \in PathsIn(st) /\ q # Root /\ Store!Parent(q) = p
      BY <1>5, <3>1, <3>2, <3>3 DEF PathsIn
    <3>5. x = q[Len(q)]
      BY <3>1, <3>3 DEF tg_file_extract_filename
    <3> QED
      BY <3>4, <3>5
  <2>2. ASSUME NEW x \in Due PROVE x \in Shown
    <3>1. PICK q \in PathsIn(st) \ {Root} : Store!Parent(q) = p /\ x = q[Len(q)]
      BY <2>2
    <3>2. PICK i \in 1 .. Len(st.files) : q = st.files[i].path
      BY <3>1 DEF PathsIn
    <3>3. i \in InDirectory(st, p)
      BY <1>5, <3>1, <3>2
    <3>4. x = tg_file_extract_filename(st.files[i].path)
      BY <3>1, <3>2 DEF tg_file_extract_filename
    <3> QED
      BY <3>3, <3>4
  <2> HIDE DEF Shown, Due
  <2> QED
    BY <2>1, <2>2
<1>7. out' = <<"readdir", p, "OK", Shown>>
  BY <1>3 DEF hello_readdir, Reply
<1> HIDE DEF Shown
<1>8. out' = <<"readdir", p, "OK",
              {q[Len(q)] : q \in {r \in DOMAIN Tree \ {Root} :
                                    Store!Parent(r) = p}}>>
  BY <1>4, <1>6, <1>7
<1> QED
  BY <1>1, <1>2, <1>3, <1>8, StoreNames DEF Store!List, Store!Answer

\* A slice, byte by byte.
LEMMA SliceBytes ==
  ASSUME NEW data \in Contents, NEW off \in Nat, NEW size \in Nat
  PROVE  Slice(data, off, size)
           = [k \in {j \in 1 .. size : off + j <= Len(data)} |-> data[off + k]]
<1> DEFINE S == Bytes \cup {Junk}
<1>1. data \in Seq(S) /\ Len(data) \in Nat
  BY DEF Contents
<1> HIDE DEF S
<1>2. PICK len \in Nat : len = Len(data)
  BY <1>1
<1>3. PICK n \in Nat : /\ off < len /\ off + size > len => n = len - off
                       /\ off < len /\ ~(off + size > len) => n = size
                       /\ ~(off < len) => n = 0
  <2>1. CASE off < len /\ off + size > len
    <3>1. len - off \in Nat
      BY <2>1
    <3> QED
      BY <2>1, <3>1
  <2>2. CASE off < len /\ ~(off + size > len)
    BY <2>2
  <2>3. CASE ~(off < len)
    BY <2>3
  <2> QED
    BY <2>1, <2>2, <2>3
<1>4. {j \in 1 .. size : off + j <= Len(data)} = 1 .. n
  <2>1. ASSUME NEW j \in 1 .. size, off + j <= len PROVE j <= n
    BY <1>3, <2>1
  <2>2. ASSUME NEW j \in 1 .. n PROVE j <= size /\ off + j <= len
    <3>1. CASE off < len /\ off + size > len
      BY <1>3, <3>1
    <3>2. CASE off < len /\ ~(off + size > len)
      BY <1>3, <3>2
    <3>3. CASE ~(off < len)
      BY <1>3, <3>3
    <3> QED
      BY <3>1, <3>2, <3>3
  <2> QED
    BY <1>2, <2>1, <2>2
<1>5. \A k \in 1 .. n : off + k \in 1 .. len /\ data[off + k] \in S
  <2>1. \A k \in 1 .. n : off + k \in 1 .. len
    BY <1>3
  <2> QED
    BY <1>1, <1>2, <2>1
<1>6. PICK f : f = [k \in 1 .. n |-> data[off + k]]
  OBVIOUS
<1>7. f \in Seq(S) /\ Len(f) = n /\ \A k \in 1 .. n : f[k] = data[off + k]
  <2>1. f \in [1 .. n -> S] /\ \A k \in 1 .. n : f[k] = data[off + k]
    BY <1>5, <1>6
  <2> QED
    BY <2>1, FunctionIsSequence
<1>8. PICK g : g = Slice(data, off, size)
  OBVIOUS
<1>9. g \in Seq(S) /\ Len(g) = n /\ \A k \in 1 .. n : g[k] = data[off + k]
  <2>1. CASE off < len
    <3>1. g = SubSeq(data, off + 1, off + n)
      <4>1. CASE off + size > len
        BY <1>2, <1>3, <1>8, <2>1, <4>1 DEF Slice
      <4>2. CASE ~(off + size > len)
        BY <1>2, <1>3, <1>8, <2>1, <4>2 DEF Slice
      <4> QED
        BY <4>1, <4>2
    <3>2. \A k \in off + 1 .. off + n : data[k] \in S
      <4>1. \A k \in off + 1 .. off + n : k \in 1 .. len
        BY <1>3, <2>1
      <4> QED
        BY <1>1, <1>2, <4>1
    <3>3. /\ g \in Seq(S)
          /\ Len(g) = IF off + 1 <= off + n THEN off + n - (off + 1) + 1 ELSE 0
          /\ \A k \in 1 .. off + n - (off + 1) + 1 : g[k] = data[off + 1 + k - 1]
      BY <3>1, <3>2, SubSeqProperties
    <3>4. (IF off + 1 <= off + n THEN off + n - (off + 1) + 1 ELSE 0) = n
      OBVIOUS
    <3>5. off + n - (off + 1) + 1 = n /\ \A k \in 1 .. n : off + 1 + k - 1 = off + k
      OBVIOUS
    <3> QED
      BY <3>3, <3>4, <3>5
  <2>2. CASE ~(off < len)
    <3>1. g = << >> /\ n = 0
      BY <1>2, <1>3, <1>8, <2>2 DEF Slice
    <3>2. << >> \in Seq(S) /\ Len(<< >>) = 0
      OBVIOUS
    <3> QED
      BY <3>1, <3>2
  <2> QED
    BY <2>1, <2>2
<1>10. f = g
  BY <1>7, <1>9, SeqEqual
<1> QED
  BY <1>4, <1>6, <1>8, <1>10

\* hello_read returns the bytes of the node.
LEMMA ReadSim ==
  ASSUME Faults = {}, StoreInv, NEW p \in Paths, NEW range \in Ranges,
         hello_read(p, range)
  PROVE  Store!Read(p, range)
<1>1. Whole /\ IInv
  BY DEF Whole, StoreInv
<1>2. Ready /\ is_open(p)
  BY DEF hello_read
<1>3. Store!Idle /\ up
  BY <1>2, StoreIdle
<1>4. In(st, p) /\ Exists(p) /\ Entry(p).type = TG_FILE
      /\ Entry(p) = EntryAt(st, p) /\ Entry(p) \in TgFiles
  BY <1>1, <1>2, OpenFile
<1>5. UNCHANGED <<up, st, stray, sweep, blobs>>
  BY <1>1, ReadWhole DEF Looked
<1>6. Tree' = Tree
  BY <1>5, TreeKept
<1>7. Store!IsDocument(p)
  <2>1. IsFile(p)
    BY <1>4 DEF IsFile
  <2> QED
    BY <1>3, <2>1, SeenAs, StoreNames DEF Store!IsDocument, Store!Present
<1>8. PICK f, data : f \in TgFiles /\ f = Entry(p) /\ data = Tree[p].data
  BY <1>4
<1>9. /\ data \in Contents
      /\ f.file_id = NoId => data = << >>
      /\ f.file_id # NoId => /\ data = blobs[f.file_id] /\ data # << >>
                             /\ f.file_id \in 1 .. Len(blobs)
  BY <1>1, <1>3, <1>4, <1>8, NodeAt DEF StoreInv
<1>10. range.off \in Nat /\ range.size \in Nat
  BY RangesAssumption
<1>11. out' = <<"read", p, "OK", Slice(data, range.off, range.size)>>
  <2>1. CASE f.file_id = NoId
    <3>1. out' = <<"read", p, "OK", << >> >>
      BY <1>4, <1>8, <2>1 DEF hello_read, Reply
    <3>2. Slice(data, range.off, range.size) = << >>
      <4>1. Len(data) = 0 /\ ~(range.off < 0)
        BY <1>9, <1>10, <2>1
      <4> QED
        BY <4>1 DEF Slice
    <3> QED
      BY <3>1, <3>2
  <2>2. CASE f.file_id # NoId
    <3>1. PICK src \in tg_file_load_contents(f) :
            IF src.dies THEN TRUE
            ELSE IF src.data = << >> THEN TRUE
            ELSE out' = <<"read", p, "OK",
                          Slice(src.data, range.off, range.size)>>
      BY <1>4, <1>8, <2>2 DEF hello_read, Reply
    <3>2. src.dies = FALSE /\ src.data = data
      BY <1>1, <1>8, <1>9, <2>2, LoadWhole DEF IInv
    <3> QED
      BY <1>9, <2>2, <3>1, <3>2
  <2> QED
    BY <2>1, <2>2
<1>12. Slice(data, range.off, range.size)
         = [k \in {j \in 1 .. range.size : range.off + j <= Len(data)} |->
              data[range.off + k]]
  BY <1>9, <1>10, SliceBytes
<1>13. out' = <<"read", p, "OK",
                [k \in {j \in 1 .. range.size : range.off + j <= Len(data)} |->
                   data[range.off + k]]>>
  BY <1>11, <1>12
<1> QED
  BY <1>3, <1>5, <1>6, <1>7, <1>8, <1>13 DEF Store!Read, Store!Answer

\* The bytes of an insertion are those the store asks for.
LEMMA InsertedIsPatched ==
  ASSUME NEW old \in Contents, NEW chunk \in Chunks,
         NEW data, data = Inserted(old, chunk.off, chunk.data)
  PROVE  Store!Patched(old, chunk, data)
<1>1. PICK off \in Nat, new \in Seq(Bytes) : off = chunk.off /\ new = chunk.data
  BY ChunksAssumption
<1>2. PICK m \in Nat, l \in Nat : m = Len(new) /\ l = Len(old)
  BY <1>1 DEF Contents
<1>3. PICK n \in Nat : n = Larger(l, off + m)
  BY <1>1, <1>2 DEF Larger
<1>4. n >= l /\ n >= off + m
  BY <1>1, <1>2, <1>3 DEF Larger
<1>5. /\ Len(data) = n
      /\ \A k \in 1 .. n :
           data[k] = IF k > off /\ k <= off + m THEN new[k - off]
                     ELSE IF k <= l THEN old[k] ELSE Junk
  <2>1. /\ Len(Inserted(old, off, new)) = Larger(Len(old), off + Len(new))
        /\ \A k \in 1 .. Larger(Len(old), off + Len(new)) :
             Inserted(old, off, new)[k] =
               IF k > off /\ k <= off + Len(new) THEN new[k - off]
               ELSE IF k <= Len(old) THEN old[k] ELSE Junk
    BY InsertedString
  <2>2. data = Inserted(old, off, new) /\ Larger(Len(old), off + Len(new)) = n
    BY <1>1, <1>2, <1>3
  <2> QED
    BY <1>2, <2>1, <2>2
<1>6. ASSUME NEW k \in 1 .. m PROVE data[off + k] = new[k]
  <2>1. /\ off + k \in 1 .. n /\ off + k > off /\ off + k <= off + m
        /\ (off + k) - off = k
    BY <1>1, <1>2, <1>4
  <2>2. data[off + k] = new[(off + k) - off]
    BY <1>5, <2>1
  <2> QED
    BY <2>1, <2>2
<1>7. ASSUME NEW k \in 1 .. l, k \notin off + 1 .. off + m PROVE data[k] = old[k]
  <2>1. k \in 1 .. n /\ ~(k > off /\ k <= off + m) /\ k <= l
    BY <1>1, <1>2, <1>4, <1>7
  <2> QED
    BY <1>5, <2>1
<1> QED
  BY <1>1, <1>2, <1>3, <1>5, <1>6, <1>7, StoreNames DEF Store!Patched

\* An upload makes a document of its own: no other node is touched.
LEMMA TreeWritten ==
  ASSUME Faults = {}, StoreInv, NEW p \in Paths, NEW data \in Contents \ {<< >>},
         NEW r \in TgFiles, r.path = p, r.type = TG_FILE, Wrote(p, data, r)
  PROVE  Tree' = Store!With(p, Store!Document(data))
<1>1. /\ st \in Storages /\ DistinctPaths(st) /\ blobs \in Seq(Contents)
      /\ up /\ In(st, p) /\ IInv /\ MatchInv
  BY DEF StoreInv, IInv, TableInv, ClientOK, Wrote
<1>2. PICK f : f = EntryAt(st, p)
  OBVIOUS
<1>3. f \in Entries(st) /\ f \in TgFiles
  BY <1>1, <1>2, EntryThere
<1>4. PICK n \in Nat : n = Len(blobs)
  BY <1>1
<1>5. r.file_id = n + 1 /\ blobs' = Append(blobs, data)
  <2>1. PutEffect(f, data, r)
    BY <1>2 DEF Wrote
  <2>2. ~PutRefused(f, r) \/ ~(f.file_id # NoId /\ ~InChannel(f.message_id))
    <3> SUFFICES ASSUME f.file_id # NoId PROVE InChannel(f.message_id)
      OBVIOUS
    <3>1. Backed(f, msgs, blobs)
      BY <1>1, <1>3 DEF MatchInv, Agree
    <3> QED
      BY <3>1 DEF Backed, Held, InChannel
  <2>3. PutSent(f, data, r) \/ PutEdited(f, data, r)
    BY <2>1, <2>2 DEF PutEffect
  <2> QED
    BY <1>3, <1>4, <2>3 DEF PutSent, PutEdited, NewId, TgFiles
<1>6. PICK g : g = [r EXCEPT !.file_size = Len(data)]
  OBVIOUS
<1>7. g \in TgFiles /\ g.path = p /\ g.type = TG_FILE /\ g.file_id = n + 1
  <2>1. Len(data) \in Nat
    BY DEF Contents
  <2> QED
    BY <1>5, <1>6, <2>1 DEF TgFiles
<1>8. PICK t, u, bs, cs : t = st /\ u = st' /\ bs = blobs /\ cs = blobs'
  OBVIOUS
<1>9. /\ u \in Storages /\ In(u, p) /\ EntryAt(u, p) = g
      /\ \A q : q # p => SameEntry(t, u, q)
  <2>1. u = [t EXCEPT !.files[tg_storage_find_by_path(t, p)] = g]
    BY <1>6, <1>8 DEF Wrote
  <2>2. t \in Storages /\ DistinctPaths(t) /\ In(t, p)
    BY <1>1, <1>8
  <2> QED
    BY <1>7, <2>1, <2>2, UpdateEntry
<1>10. /\ cs[n + 1] = data
       /\ \A k \in 1 .. n : cs[k] = bs[k]
  BY <1>1, <1>4, <1>5, <1>8
<1>11. ASSUME NEW q, In(t, q)
       PROVE  Node(EntryAt(t, q), cs) = Node(EntryAt(t, q), bs)
  <2>1. PICK e : e = EntryAt(st, q)
    OBVIOUS
  <2>2. e.file_id # NoId => e.file_id \in 1 .. n
    BY <1>1, <1>4, <1>8, <1>11, <2>1, NodeAt
  <2>3. e.file_id # NoId => cs[e.file_id] = bs[e.file_id]
    BY <1>10, <2>2
  <2> QED
    BY <1>8, <2>1, <2>3 DEF Node
<1>12. TreeOf(u, cs) = Grown(TreeOf(t, bs), p, Node(EntryAt(u, p), cs))
  <2>1. t \in Storages
    BY <1>1, <1>8
  <2> QED
    BY <1>9, <1>11, <2>1, TreeStep
<1>13. Node(EntryAt(u, p), cs) = Store!Document(data)
  BY <1>7, <1>9, <1>10, StoreNames DEF Node, NoId, Store!Document
<1>14. Tree = TreeOf(t, bs) /\ Tree' = TreeOf(u, cs)
  BY <1>8, TreeIs, TreeIsNext
<1> QED
  BY <1>12, <1>13, <1>14 DEF Store!With, Grown

\* hello_write puts the chunk in place.
LEMMA WriteSim ==
  ASSUME Faults = {}, StoreInv, NEW p \in Paths, NEW chunk \in Chunks,
         hello_write(p, chunk)
  PROVE  Store!Write(p, chunk)
<1>1. Whole /\ IInv
  BY DEF Whole, StoreInv
<1>2. Ready /\ is_open(p)
  BY DEF hello_write
<1>3. Store!Idle /\ up
  BY <1>2, StoreIdle
<1>4. In(st, p) /\ Exists(p) /\ Entry(p).type = TG_FILE
      /\ Entry(p) = EntryAt(st, p) /\ Entry(p) \in TgFiles
  BY <1>1, <1>2, OpenFile
<1>5. Store!IsDocument(p)
  <2>1. IsFile(p)
    BY <1>4 DEF IsFile
  <2> QED
    BY <1>3, <2>1, SeenAs, StoreNames DEF Store!IsDocument, Store!Present
<1>6. PICK f, old : f \in TgFiles /\ f = Entry(p) /\ old = Tree[p].data
  BY <1>4
<1>7. PICK src \in Original(f, FALSE), data \in Contents \ {<< >>}, r \in TgFiles :
        /\ data = Inserted(src.data, chunk.off, chunk.data)
        /\ r.path = p /\ r.type = TG_FILE
        /\ Wrote(p, data, r)
        /\ out' = <<"write", p, "OK", Len(chunk.data)>>
        /\ UNCHANGED <<up, stray, sweep>>
  BY <1>1, <1>6, WriteWhole
<1>8. /\ old \in Contents
      /\ f.file_size > 0 <=> f.file_id # NoId
      /\ f.file_id = NoId => old = << >>
      /\ f.file_id # NoId => old = blobs[f.file_id] /\ f.file_id \in 1 .. Len(blobs)
  BY <1>1, <1>3, <1>4, <1>6, NodeAt DEF StoreInv
<1>9. src.data = old
  <2>1. CASE f.file_size > 0
    <3>1. src \in tg_file_load_contents(f)
      BY <2>1 DEF Original
    <3> QED
      BY <1>1, <1>6, <1>8, <2>1, <3>1, LoadWhole DEF IInv
  <2>2. CASE ~(f.file_size > 0)
    BY <1>8, <2>2 DEF Original, Load
  <2> QED
    BY <2>1, <2>2
<1>10. Store!Patched(old, chunk, data)
  BY <1>7, <1>8, <1>9, InsertedIsPatched
<1>11. Tree' = Store!With(p, Store!Document(data))
  BY <1>7, TreeWritten
<1>12. p \in DOMAIN Tree' /\ Tree'[p].data = data
  BY <1>11 DEF Store!With, Store!Document
<1> QED
  BY <1>3, <1>5, <1>6, <1>7, <1>10, <1>11, <1>12 DEF Store!Write, Store!Answer

\* Every step of the handlers is one of the store.
LEMMA NextSim ==
  ASSUME Faults = {}, StoreInv, Next
  PROVE  Store!Next
<1>1. Whole
  BY DEF Whole
<1>2. CASE Mount
  BY <1>2, MountSim DEF Store!Next
<1>3. CASE hello_destroy \/ stray_io
  BY <1>3, EndSim DEF Store!Next
<1>4. CASE rmdir_turn
  BY <1>1, <1>4, TurnSim DEF Store!Next
<1>5. CASE rmdir_return
  BY <1>5, ReturnSim DEF Store!Next
<1>6. ASSUME NEW p \in AllPaths, hello_getattr(p) \/ hello_readdir(p)
      PROVE  Store!Next
  <2>1. Store!Stat(p) \/ Store!List(p)
    BY <1>6, StatSim, ListSim
  <2>2. p \in Paths \cup {Store!Root}
    BY <1>6, StoreNames DEF AllPaths
  <2> QED
    BY <2>1, <2>2 DEF Store!Next
<1>7. CASE stray_release
  BY <1>7, StrayReleaseSim DEF Store!Next
<1>8. ASSUME NEW p \in Paths, Request(p) PROVE Store!Next
  <2>1. CASE hello_create(p) \/ hello_mkdir(p)
    BY <2>1, MakeSim DEF Store!Next
  <2>2. CASE \/ hello_ignored(p) \/ release(p) \/ unlink_open(p)
             \/ \E trunc \in BOOLEAN : hello_open(p, trunc)
    <3>1. Store!Acknowledge \/ Store!TruncatingOpen(p) \/ Store!Refuse(p)
      BY <2>2, QuietSim
    <3> QED
      BY <3>1 DEF Store!Next
  <2>3. CASE hello_unlink(p)
    <3>1. Store!Unlink(p)
      BY <1>1, <2>3, UnlinkSim
    <3> QED
      BY <3>1 DEF Store!Next
  <2>4. CASE hello_rmdir(p)
    <3>1. Store!BeginRmdir(p)
      BY <2>4, BeginSim
    <3> QED
      BY <3>1 DEF Store!Next
  <2>5. ASSUME NEW range \in Ranges, hello_read(p, range) PROVE Store!Next
    <3>1. Store!Read(p, range)
      BY <2>5, ReadSim
    <3> QED
      BY <3>1 DEF Store!Next
  <2>6. ASSUME NEW chunk \in Chunks, hello_write(p, chunk) PROVE Store!Next
    <3>1. Store!Write(p, chunk)
      BY <2>6, WriteSim
    <3> QED
      BY <3>1 DEF Store!Next
  <2> QED
    BY <1>8, <2>1, <2>2, <2>3, <2>4, <2>5, <2>6 DEF Request
<1> QED
  BY <1>2, <1>3, <1>4, <1>5, <1>6, <1>7, <1>8 DEF Next

\* While every call is granted and directories are made in "/" only, the
\* handlers of main.c implement the document store.
THEOREM HandlersRefine ==
  Faults = {} /\ MkdirDepth <= 1 => (Spec => ImplementsStore)
<1> SUFFICES ASSUME Faults = {}, MkdirDepth <= 1 PROVE Spec => ImplementsStore
  OBVIOUS
<1>1. Init => Store!Init
  <2> SUFFICES ASSUME Init PROVE Store!Init
    OBVIOUS
  <2>1. Tree = [p \in {} |-> Store!Directory]
    BY TreeIs, TreeGone DEF Init
  <2> QED
    BY <2>1, StoreNames DEF Init, NoSweep, Store!Init
<1>2. StoreInv /\ [Next]_vars => [Store!Next]_(Store!vars)
  <2>1. ASSUME UNCHANGED vars PROVE UNCHANGED Store!vars
    <3>1. UNCHANGED <<up, st, blobs, sweep, stray, out>>
      BY <2>1 DEF vars, fsVars, clientVars
    <3>2. Tree' = Tree
      BY <3>1, TreeKept
    <3> QED
      BY <3>1, <3>2 DEF Store!vars
  <2> QED
    BY <2>1, NextSim
<1> QED
  BY <1>1, <1>2, StoreInvariance, PTL DEF Spec, ImplementsStore, Store!Spec
=============================================================================

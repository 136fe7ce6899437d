-------------------------- MODULE TelegramFSProofs --------------------------
(***************************************************************************)
(* The file table stays sound under every sequence of requests and every   *)
(* behaviour of the network: the calls of the client keep their data well  *)
(* formed and give no file a document without a message, the inductive     *)
(* invariant, and what follows from it, for any set of paths, any data and *)
(* any bounds.                                                             *)
(***************************************************************************)
EXTENDS TelegramFS, DataTheorems

Cells == [key : Keys, val : Nat]

\* Nothing lies behind a value without an end, and message_id comes before
\* file_id where both are there.
Legible(buf) ==
  /\ buf[1].val = Unended => buf[2].key = "none" /\ buf[3].key = "none"
  /\ buf[2].val = Unended => buf[3].key = "none"
  /\ buf[3].key # "message_id"
  /\ buf[1].key = "file_id" => buf[2].key # "message_id"

\* The channel and the response buffer.
ClientOK ==
  /\ msgs \subseteq Messages
  /\ blobs \in Seq(Contents)
  /\ json \in JsonBuffers
  /\ Legible(json)
  /\ \A m \in msgs : m.mid # NoId

\* A file with a document has a message.
HasMessage(f) == f.file_id # NoId => f.message_id # NoId

-----------------------------------------------------------------------------
(* The response buffer.                                                    *)

\* An answer of the API: a status and one or two more cells, all with values.
Replies == {reply \in Seq(Cells) :
              /\ Len(reply) \in {2, 3}
              /\ reply[1].key = "ok"
              /\ \A k \in 1 .. Len(reply) : reply[k].val # Unended
              /\ reply[2].key = "file_id" => Len(reply) = 3
              /\ Len(reply) = 3 => reply[3].key # "message_id"}

\* What that means cell by cell.
LEMMA ReplyShape ==
  ASSUME NEW reply \in Replies
  PROVE  /\ reply \in Seq(Cells) /\ Len(reply) \in {2, 3}
         /\ \A k \in 1 .. Len(reply) : reply[k] \in Cells
         /\ reply[1].key = "ok"
         /\ reply[1].val # Unended /\ reply[2].val # Unended
         /\ Len(reply) = 3 => reply[3].val # Unended /\ reply[3].key # "message_id"
         /\ reply[2].key = "file_id" => Len(reply) = 3
BY DEF Replies

\* The cells of an answer, or of a piece of one, over an older answer.
LEMMA WriterCells ==
  ASSUME NEW buf \in JsonBuffers, NEW piece \in Seq(Cells),
         NEW new, new = curl_response_json_writer(buf, piece)
  PROVE  /\ new \in JsonBuffers
         /\ \A k \in 1 .. 3 : new[k] = IF k <= Len(piece) THEN piece[k] ELSE buf[k]
<1>1. Len(piece) \in Nat /\ \A k \in 1 .. Len(piece) : piece[k] \in Cells
  OBVIOUS
<1>2. \A k \in 1 .. 3 : buf[k] \in Cells
  BY DEF JsonBuffers, Cells
<1>3. /\ new \in [1 .. 3 -> Cells]
      /\ \A k \in 1 .. 3 : new[k] = IF k <= Len(piece) THEN piece[k] ELSE buf[k]
  BY <1>1, <1>2 DEF curl_response_json_writer
<1> QED
  BY <1>3 DEF JsonBuffers, Cells

\* A whole answer.
LEMMA WriterBuffer ==
  ASSUME NEW buf \in JsonBuffers, Legible(buf), NEW reply \in Replies,
         NEW new, new = curl_response_json_writer(buf, reply)
  PROVE  new \in JsonBuffers /\ Legible(new)
<1>1. /\ new \in JsonBuffers
      /\ \A k \in 1 .. 3 : new[k] = IF k <= Len(reply) THEN reply[k] ELSE buf[k]
  BY WriterCells, ReplyShape
<1>2. CASE Len(reply) = 2
  <2>1. new[1] = reply[1] /\ new[2] = reply[2] /\ new[3] = buf[3]
    BY <1>1, <1>2
  <2> QED
    BY <1>1, <1>2, <2>1, ReplyShape DEF Legible
<1>3. CASE Len(reply) = 3
  <2>1. new[1] = reply[1] /\ new[2] = reply[2] /\ new[3] = reply[3]
    BY <1>1, <1>3
  <2> QED
    BY <1>1, <1>3, <2>1, ReplyShape DEF Legible
<1> QED
  BY <1>2, <1>3, ReplyShape

\* The cell in which an answer broke off.
LEMMA BrokenCell ==
  ASSUME NEW old \in Cells, NEW new \in Cells, NEW cell \in Broken(old, new)
  PROVE  /\ cell \in Cells
         /\ \/ cell = old
            \/ cell = new
            \/ old.val = Unended /\ cell.key = new.key /\ cell.val = Unended
            \/ cell.key = "other" /\ cell.val # Unended
<1>1. Cell(new.key, Unended) \in Cells /\ Other \in Cells
  BY DEF Cells, Cell, Other, Keys, Unended
<1>2. \/ cell = old
      \/ cell = new
      \/ old.val = Unended /\ cell = Cell(new.key, Unended)
      \/ cell = Other
  BY DEF Broken
<1>3. /\ Cell(new.key, Unended).key = new.key
      /\ Cell(new.key, Unended).val = Unended
      /\ Other.key = "other" /\ Other.val # Unended
  BY DEF Cell, Other, Unended
<1> QED
  BY <1>1, <1>2, <1>3

\* An answer that broke off, of which the cells before the n-th came whole.
LEMMA BrokenBuffer ==
  ASSUME NEW buf \in JsonBuffers, Legible(buf), NEW reply \in Replies,
         NEW new \in BrokenOff(buf, reply)
  PROVE  /\ new \in JsonBuffers /\ Legible(new)
         /\ \A k \in 1 .. 3 :
              \/ new[k].val = Unended
              \/ new[k] = buf[k]
              \/ new[k].key = "other"
              \/ k \in 1 .. Len(reply) /\ new[k] = reply[k]
<1>0. PICK n \in 1 .. Len(reply) :
        \E cell \in Broken(buf[n], reply[n]) :
          new = curl_response_json_writer(buf, Append(SubSeq(reply, 1, n - 1), cell))
  BY DEF BrokenOff
<1>1. PICK cell \in Broken(buf[n], reply[n]) :
        new = curl_response_json_writer(buf, Append(SubSeq(reply, 1, n - 1), cell))
  BY <1>0
<1>2. /\ reply \in Seq(Cells) /\ Len(reply) \in {2, 3} /\ n \in 1 .. 3
      /\ buf[n] \in Cells /\ reply[n] \in Cells
  <2>1. n \in 1 .. 3
    BY ReplyShape
  <2> QED
    BY <2>1, ReplyShape DEF JsonBuffers, Cells
<1>3. /\ cell \in Cells
      /\ \/ cell = buf[n]
         \/ cell = reply[n]
         \/ buf[n].val = Unended /\ cell.key = reply[n].key /\ cell.val = Unended
         \/ cell.key = "other" /\ cell.val # Unended
  BY <1>2, BrokenCell
<1>4. PICK before \in Seq(Cells) :
        /\ before = SubSeq(reply, 1, n - 1)
        /\ Len(before) = n - 1
        /\ \A k \in 1 .. n - 1 : before[k] = reply[k]
  <2>1. SubSeq(reply, 1, n - 1) \in Seq(Cells)
    BY <1>2
  <2>2. /\ Len(SubSeq(reply, 1, n - 1)) = n - 1
        /\ \A k \in 1 .. n - 1 : SubSeq(reply, 1, n - 1)[k] = reply[k]
    BY <1>2
  <2> QED
    BY <2>1, <2>2
<1>5. PICK piece \in Seq(Cells) : piece = Append(before, cell)
  <2>1. Append(before, cell) \in Seq(Cells)
    BY <1>3
  <2> QED
    BY <2>1
<1>6. Len(piece) = n /\ \A k \in 1 .. n : piece[k] = IF k < n THEN before[k] ELSE cell
  BY <1>2, <1>4, <1>5
<1>7. /\ new \in JsonBuffers
      /\ \A k \in 1 .. 3 : new[k] = IF k <= Len(piece) THEN piece[k] ELSE buf[k]
  BY <1>1, <1>4, <1>5, WriterCells
<1>8. /\ new[n] = cell
      /\ \A k \in 1 .. 3 : k < n => new[k] = reply[k]
      /\ \A k \in 1 .. 3 : k > n => new[k] = buf[k]
  BY <1>2, <1>4, <1>6, <1>7
<1>9. Legible(new)
  <2>1. CASE n = 1
    <3>1. new[1] = cell /\ new[2] = buf[2] /\ new[3] = buf[3]
      BY <1>8, <2>1
    <3> QED
      BY <1>3, <2>1, <3>1, ReplyShape DEF Legible
  <2>2. CASE n = 2
    <3>1. new[1] = reply[1] /\ new[2] = cell /\ new[3] = buf[3]
      BY <1>8, <2>2
    <3> QED
      BY <1>3, <2>2, <3>1, ReplyShape DEF Legible
  <2>3. CASE n = 3
    <3>1. /\ new[1] = reply[1] /\ new[2] = reply[2] /\ new[3] = cell
          /\ Len(reply) = 3
      BY <1>2, <1>8, <2>3
    <3> QED
      BY <1>3, <2>3, <3>1, ReplyShape DEF Legible
  <2> QED
    BY <1>2, <2>1, <2>2, <2>3
<1>10. ASSUME NEW k \in 1 .. 3
      PROVE  \/ new[k].val = Unended
             \/ new[k] = buf[k]
             \/ new[k].key = "other"
             \/ k \in 1 .. Len(reply) /\ new[k] = reply[k]
  BY <1>2, <1>3, <1>8
<1> QED
  BY <1>7, <1>9, <1>10

\* The two pieces of a split answer.
LEMMA SplitBuffer ==
  ASSUME NEW buf \in JsonBuffers, Legible(buf), NEW reply \in Replies,
         NEW new \in Received(buf, "split", reply)
  PROVE  /\ new \in JsonBuffers /\ Legible(new)
         /\ new[1] = reply[2]
         /\ new[2] = IF Len(reply) = 3 THEN reply[3] ELSE buf[2]
         /\ new[3] = buf[3]
<1> DEFINE head  == <<reply[1]>>
           tail  == Tail(reply)
           first == curl_response_json_writer(buf, head)
<1>1. reply \in Seq(Cells) /\ Len(reply) \in {2, 3} /\ reply[1] \in Cells
  BY ReplyShape
<1>2. head \in Seq(Cells) /\ Len(head) = 1 /\ head[1] = reply[1]
  BY <1>1
<1>3. /\ tail \in Seq(Cells) /\ Len(tail) = Len(reply) - 1
      /\ \A k \in 1 .. Len(tail) : tail[k] = reply[k + 1]
  BY <1>1
<1>4. new = curl_response_json_writer(first, tail)
  BY DEF Received, Failed
<1> HIDE DEF head, tail
<1>5. first \in JsonBuffers /\ first[2] = buf[2] /\ first[3] = buf[3]
  BY <1>2, WriterCells
<1> HIDE DEF first
<1>6. /\ new \in JsonBuffers
      /\ \A k \in 1 .. 3 : new[k] = IF k <= Len(tail) THEN tail[k] ELSE first[k]
  BY <1>3, <1>4, <1>5, WriterCells
<1>7. /\ new[1] = reply[2]
      /\ new[2] = IF Len(reply) = 3 THEN reply[3] ELSE buf[2]
      /\ new[3] = buf[3]
  BY <1>1, <1>3, <1>5, <1>6
<1>8. Legible(new)
  <2>1. CASE Len(reply) = 2
    BY <1>7, <2>1, ReplyShape DEF Legible
  <2>2. CASE Len(reply) = 3
    BY <1>7, <2>2, ReplyShape DEF Legible
  <2> QED
    BY <1>1, <2>1, <2>2
<1> QED
  BY <1>6, <1>7, <1>8

\* The buffer after a call, however the answer came.
LEMMA ReceivedBuffer ==
  ASSUME NEW buf \in JsonBuffers, Legible(buf), NEW reply \in Replies,
         NEW o, NEW new \in Received(buf, o, reply)
  PROVE  new \in JsonBuffers /\ Legible(new)
<1>1. CASE Failed(o)
  BY <1>1, BrokenBuffer DEF Received
<1>2. CASE ~Failed(o) /\ o = "split"
  BY <1>2, SplitBuffer
<1>3. CASE ~Failed(o) /\ o # "split"
  BY <1>3, WriterBuffer DEF Received
<1> QED
  BY <1>1, <1>2, <1>3

\* The parser returns the value of the first cell with the field, or what was
\* in its place if that value has no end.
LEMMA ParsedField ==
  ASSUME NEW buf \in JsonBuffers, NEW field, HasField(buf, field),
         NEW dst \in Nat,
         NEW v, v = parse_response_field_from_json(dst, buf, field)
  PROVE  /\ v \in Nat
         /\ \E k \in 1 .. 3 :
              /\ buf[k].key = field
              /\ v = IF buf[k].val = Unended THEN dst ELSE buf[k].val
              /\ \A j \in 1 .. k - 1 : buf[j].key # field
<1> DEFINE P == {k \in 1 .. 3 : buf[k].key = field}
<1>1. P \in SUBSET Nat /\ P # {}
  BY DEF HasField
<1>2. Min(P) \in P /\ \A k \in P : Min(P) <= k
  BY <1>1, LowestNatural
<1>3. v = IF buf[Min(P)].val = Unended THEN dst ELSE buf[Min(P)].val
  BY DEF parse_response_field_from_json
<1> HIDE DEF P
<1>4. PICK k \in P : /\ v = IF buf[k].val = Unended THEN dst ELSE buf[k].val
                     /\ \A j \in P : k <= j
  BY <1>2, <1>3
<1>5. k \in 1 .. 3 /\ buf[k].key = field
  BY <1>4 DEF P
<1>6. ASSUME NEW j \in 1 .. k - 1 PROVE buf[j].key # field
  BY <1>4, <1>5 DEF P
<1>7. buf[k].val \in Nat
  BY <1>5 DEF JsonBuffers
<1> QED
  BY <1>4, <1>5, <1>6, <1>7

\* The cleared buffer.
LEMMA ClearedBuffer == EmptyJson \in JsonBuffers /\ Legible(EmptyJson)
<1>1. EmptyJson \in JsonBuffers
  BY DEF EmptyJson, JsonBuffers, Cell, Keys, Unended
<1>2. EmptyJson[1] = Cell("none", 0) /\ EmptyJson[2] = Cell("none", 0) /\ EmptyJson[3] = Cell("none", 0)
  BY DEF EmptyJson, Unended
<1>3. PICK buf \in JsonBuffers : buf = EmptyJson
  BY <1>1
<1>4. buf[1].key = "none" /\ buf[2].key = "none" /\ buf[3].key = "none"
  BY <1>2, <1>3 DEF Cell
<1>5. Legible(buf)
  BY <1>4 DEF Legible
<1> QED
  BY <1>3, <1>5

\* The answers of the API.
LEMMA ReplyCells ==
  ASSUME NEW mid \in Nat \ {0}, NEW fid \in Nat \ {0}
  PROVE  /\ SentReply(mid, fid) \in Replies
         /\ FileReply(fid) \in Replies
         /\ DeletedReply \in Replies
         /\ RefusedReply \in Replies
         /\ EmptyJson \in JsonBuffers /\ Legible(EmptyJson)
<1> USE DEF Cells, Keys, Cell, Replies, Other, OkTrue, OkFalse, Unended
<1>1. SentReply(mid, fid) \in Replies
  BY DEF SentReply
<1>2. FileReply(fid) \in Replies
  BY DEF FileReply
<1>3. DeletedReply \in Replies /\ RefusedReply \in Replies
  BY DEF DeletedReply, RefusedReply
<1>4. EmptyJson \in JsonBuffers /\ Legible(EmptyJson)
  BY ClearedBuffer
<1> QED
  BY <1>1, <1>2, <1>3, <1>4

\* A refusal needs no id, so it may stand in for any answer.
LEMMA AnswerCells ==
  ASSUME NEW o, NEW granted, NEW reply,
         o # "refused" /\ granted => reply \in Replies
  PROVE  Answer(o, granted, reply) \in Replies
<1>1. RefusedReply \in Replies
  BY ReplyCells, 1 \in Nat \ {0}
<1> QED
  BY <1>1 DEF Answer

\* A refusal in one piece says so.
LEMMA RefusedBuffer ==
  ASSUME NEW buf \in JsonBuffers, Legible(buf),
         NEW new, new = curl_response_json_writer(buf, RefusedReply)
  PROVE  ~check_ok_status_in_json(new)
<1>1. RefusedReply \in Replies
  BY ReplyCells, 1 \in Nat \ {0}
<1>2. Len(RefusedReply) = 2 /\ RefusedReply[1] = Cell("ok", OkFalse)
  BY DEF RefusedReply
<1>3. new \in JsonBuffers
  BY <1>1, WriterBuffer
<1>4. new[1] = Cell("ok", OkFalse)
  BY <1>2 DEF curl_response_json_writer
<1>5. HasField(new, "ok")
  BY <1>4 DEF HasField, Cell
<1>6. parse_response_field_from_json(Unended, new, "ok") # OkTrue
  <2> DEFINE v == parse_response_field_from_json(Unended, new, "ok")
  <2>1. PICK k \in 1 .. 3 :
          /\ v = IF new[k].val = Unended THEN Unended ELSE new[k].val
          /\ \A j \in 1 .. k - 1 : new[j].key # "ok"
    BY <1>3, <1>5, ParsedField, Unended \in Nat DEF Unended
  <2>2. k = 1
    BY <1>4, <2>1 DEF Cell
  <2> QED
    BY <1>4, <2>1, <2>2 DEF Cell, Unended, OkTrue, OkFalse
<1> QED
  BY <1>6 DEF check_ok_status_in_json

\* The pieces of getFile's answer leave no "ok" in the cleared buffer.
LEMMA SplitFile ==
  ASSUME NEW reply \in Replies, \A k \in 2 .. Len(reply) : reply[k].key # "ok",
         NEW new \in Received(EmptyJson, "split", reply)
  PROVE  ~HasField(new, "ok")
<1>1. EmptyJson \in JsonBuffers /\ Legible(EmptyJson)
  BY ReplyCells, 1 \in Nat \ {0}
<1>2. /\ new[1] = reply[2]
      /\ new[2] = IF Len(reply) = 3 THEN reply[3] ELSE EmptyJson[2]
      /\ new[3] = EmptyJson[3]
  BY <1>1, SplitBuffer
<1>3. \A k \in 1 .. 3 : EmptyJson[k].key # "ok"
  BY DEF EmptyJson, Cell
<1>4. Len(reply) \in {2, 3}
  BY DEF Replies
<1>5. new[1].key # "ok" /\ new[2].key # "ok" /\ new[3].key # "ok"
  BY <1>2, <1>3, <1>4
<1> QED
  BY <1>5 DEF HasField

-----------------------------------------------------------------------------
(* The calls.                                                              *)

\* A directory tag is a path.
LEMMA DirectoryTag ==
  ASSUME NEW f \in TgFiles
  PROVE  tg_file_extract_directory(f.path) \in Seq(Names)
<1>1. f.path \in Seq(Names)
  <2>1. f.path \in Paths \cup {Root}
    BY DEF TgFiles
  <2>2. Root \in Seq(Names)
    BY DEF Root
  <2> QED
    BY <2>1, <2>2, PathsAssumption
<1> QED
  BY <1>1 DEF tg_file_extract_directory, Root

\* Ids are never zero.
LEMMA FreshId ==
  ASSUME ClientOK
  PROVE  NewId \in Nat \ {0}
BY DEF ClientOK, NewId

\* sendDocument, with any outcome.
LEMMA SendOK ==
  ASSUME ClientOK, NEW buf \in JsonBuffers, Legible(buf),
         NEW f \in TgFiles, NEW data \in Contents, NEW o \in Outcomes,
         sendDocument(buf, f, data, o)
  PROVE  ClientOK'
<1>1. NewId \in Nat \ {0}
  BY FreshId
<1>2. /\ msgs' \subseteq Messages /\ blobs' \in Seq(Contents)
      /\ \A m \in msgs' : m.mid # NoId
  <2> DEFINE new == [mid |-> NewId, fid |-> NewId,
                     tag |-> tg_file_extract_directory(f.path)]
  <2>1. new \in Messages /\ new.mid # NoId
    BY <1>1, DirectoryTag DEF Messages, NoId
  <2>2. CASE Applied(o)
    <3>1. msgs' = msgs \cup {new} /\ blobs' = Append(blobs, data)
      BY <2>2 DEF sendDocument
    <3> QED
      BY <2>1, <3>1 DEF ClientOK
  <2>3. CASE ~Applied(o)
    BY <2>3 DEF sendDocument, ClientOK
  <2> QED
    BY <2>2, <2>3
<1>3. json' \in JsonBuffers /\ Legible(json')
  <2>1. json' \in Received(buf, o, Answer(o, TRUE, SentReply(NewId, NewId)))
    BY DEF sendDocument
  <2>2. Answer(o, TRUE, SentReply(NewId, NewId)) \in Replies
    BY <1>1, ReplyCells, AnswerCells
  <2> QED
    BY <2>1, <2>2, ReceivedBuffer
<1> QED
  BY <1>2, <1>3 DEF ClientOK

\* editMessageMedia, with any outcome.
LEMMA EditOK ==
  ASSUME ClientOK, NEW buf \in JsonBuffers, Legible(buf),
         NEW f \in TgFiles, NEW data \in Contents, NEW o \in Outcomes,
         editMessageMedia(buf, f, data, o)
  PROVE  ClientOK'
<1>1. NewId \in Nat \ {0}
  BY FreshId
<1>2. /\ msgs' \subseteq Messages /\ blobs' \in Seq(Contents)
      /\ \A m \in msgs' : m.mid # NoId
  <2> DEFINE tag == tg_file_extract_directory(f.path)
             ed(m) == IF m.mid = f.message_id
                      THEN [mid |-> m.mid, fid |-> NewId, tag |-> tag]
                      ELSE m
  <2>1. tag \in Seq(Names)
    BY DirectoryTag
  <2>2. ASSUME NEW m \in msgs PROVE ed(m) \in Messages /\ ed(m).mid # NoId
    BY <1>1, <2>1, <2>2 DEF ClientOK, Messages
  <2>3. CASE Applied(o) /\ InChannel(f.message_id)
    <3>1. msgs' = {ed(m) : m \in msgs} /\ blobs' = Append(blobs, data)
      BY <2>3 DEF editMessageMedia
    <3> HIDE DEF ed
    <3> QED
      BY <2>2, <3>1 DEF ClientOK
  <2>4. CASE ~(Applied(o) /\ InChannel(f.message_id))
    BY <2>4 DEF editMessageMedia, ClientOK
  <2> QED
    BY <2>3, <2>4
<1>3. json' \in JsonBuffers /\ Legible(json')
  <2> DEFINE granted == InChannel(f.message_id)
             reply   == SentReply(f.message_id, NewId)
  <2>1. json' \in Received(buf, o, Answer(o, granted, reply))
    BY DEF editMessageMedia
  <2>2. ASSUME granted PROVE reply \in Replies
    <3>1. f.message_id \in Nat \ {0}
      BY <2>2 DEF InChannel, ClientOK, Messages, NoId
    <3> QED
      BY <1>1, <3>1, ReplyCells
  <2> HIDE DEF granted, reply
  <2>3. Answer(o, granted, reply) \in Replies
    BY <2>2, AnswerCells
  <2> QED
    BY <2>1, <2>3, ReceivedBuffer
<1> QED
  BY <1>2, <1>3 DEF ClientOK

\* tg_put_file: the request, and the record if the process survives.  The
\* path and type of the record stay, it has no document without a message,
\* and a message once known stays known.
LEMMA PutOK ==
  ASSUME ClientOK, NEW buf \in JsonBuffers, Legible(buf),
         NEW f \in TgFiles, HasMessage(f),
         NEW data \in Contents, NEW o \in Outcomes,
         tg_put_file(buf, f, data, o)
  PROVE  /\ ClientOK'
         /\ ~PutAborts(json', f, o) =>
              LET r == PutRecord(json', f) IN
              /\ r \in TgFiles
              /\ r.path = f.path /\ r.type = f.type
              /\ HasMessage(r)
              /\ f.message_id # NoId => r.message_id # NoId
<1> DEFINE fid == parse_response_field_from_json(NoId, json', "file_id")
           mid == parse_response_field_from_json(f.message_id, json', "message_id")
           r   == PutRecord(json', f)
<1>1. ClientOK'
  BY SendOK, EditOK DEF tg_put_file
<1>2. SUFFICES ASSUME ~PutAborts(json', f, o)
               PROVE  /\ r \in TgFiles
                      /\ r.path = f.path /\ r.type = f.type
                      /\ HasMessage(r)
                      /\ f.message_id # NoId => r.message_id # NoId
  BY <1>1
<1>3. json' \in JsonBuffers /\ Legible(json')
  BY <1>1 DEF ClientOK
<1>4. NoId \in Nat /\ f.message_id \in Nat /\ Unended = NoId
  BY DEF TgFiles, NoId, Unended
<1>5. ASSUME HasField(json', "file_id")
      PROVE  /\ fid \in Nat
             /\ \E k \in 1 .. 3 :
                  /\ json'[k].key = "file_id"
                  /\ fid # NoId => json'[k].val # Unended
  BY <1>3, <1>4, <1>5, ParsedField
<1>6. ASSUME HasField(json', "message_id")
      PROVE  /\ mid \in Nat
             /\ f.message_id # NoId => mid # NoId
             /\ \E k \in 1 .. 3 :
                  /\ json'[k].key = "message_id"
                  /\ mid = NoId => json'[k].val = Unended
  BY <1>3, <1>4, <1>6, ParsedField
<1> HIDE DEF fid, mid
<1>7. CASE ~check_ok_status_in_json(json')
  BY <1>7 DEF PutRecord
<1>8. CASE check_ok_status_in_json(json') /\ f.file_id = NoId
  <2>1. /\ HasField(json', "file_id") /\ HasField(json', "message_id")
    BY <1>2, <1>8 DEF PutAborts
  <2>2. PICK j \in 1 .. 3 : /\ json'[j].key = "file_id"
                            /\ fid # NoId => json'[j].val # Unended
    BY <1>5, <2>1
  <2>3. PICK k \in 1 .. 3 : /\ json'[k].key = "message_id"
                            /\ mid = NoId => json'[k].val = Unended
    BY <1>6, <2>1
  <2>4. PICK b : b = json'
    OBVIOUS
  <2>5. fid # NoId => mid # NoId
    <3>1. Legible(b) /\ b[j].key = "file_id" /\ b[k].key = "message_id"
      BY <1>3, <2>2, <2>3, <2>4
    <3>2. k = 1 => j = 2 \/ j = 3
      BY <3>1
    <3>3. k = 2 => j = 3
      BY <3>1 DEF Legible
    <3>4. k # 3
      BY <3>1 DEF Legible
    <3>5. b[k].val # Unended
      BY <3>1, <3>2, <3>3, <3>4 DEF Legible
    <3> QED
      BY <2>3, <2>4, <3>5
  <2>6. r = [f EXCEPT !.file_id = fid, !.message_id = mid]
    BY <1>8 DEF PutRecord, fid, mid
  <2> QED
    BY <1>5, <1>6, <2>1, <2>5, <2>6 DEF TgFiles, HasMessage
<1>9. CASE check_ok_status_in_json(json') /\ f.file_id # NoId
  <2>1. fid \in Nat
    BY <1>2, <1>5, <1>9 DEF PutAborts
  <2>2. r = [f EXCEPT !.file_id = fid]
    BY <1>9 DEF PutRecord, fid
  <2> QED
    BY <1>9, <2>1, <2>2 DEF TgFiles, HasMessage
<1> QED
  BY <1>7, <1>8, <1>9

\* The answer to getFile names the document that was asked for.
LEMMA FilePath ==
  ASSUME NEW f \in TgFiles, f.file_id \in 1 .. Len(blobs),
         NEW o, ~Failed(o), o # "refused", o # "split",
         NEW buf \in GotFile(EmptyJson, f, o)
  PROVE  parse_response_field_from_json(NoId, buf, "file_path") = f.file_id
<1>1. buf = curl_response_json_writer(EmptyJson, FileReply(f.file_id))
  BY DEF GotFile, Received, Answer, Failed
<1>2. /\ Len(FileReply(f.file_id)) = 3
      /\ FileReply(f.file_id)[1] = Cell("ok", OkTrue)
      /\ FileReply(f.file_id)[2] = Cell("file_id", f.file_id)
      /\ FileReply(f.file_id)[3] = Cell("file_path", f.file_id)
  BY DEF FileReply
<1>3. \A k \in 1 .. 3 : buf[k] = FileReply(f.file_id)[k]
  BY <1>1, <1>2 DEF curl_response_json_writer
<1>4. /\ buf[1].key # "file_path" /\ buf[2].key # "file_path"
      /\ buf[3].key = "file_path" /\ buf[3].val = f.file_id
  BY <1>2, <1>3 DEF Cell
<1>5. {k \in 1 .. 3 : buf[k].key = "file_path"} = {3}
  BY <1>4
<1>6. Min({3}) = 3
  BY LowestNatural, {3} \in SUBSET Nat
<1>7. f.file_id # Unended
  BY DEF Unended
<1> QED
  BY <1>4, <1>5, <1>6, <1>7 DEF parse_response_field_from_json

\* The answer to getFile, as the API sends it.
LEMMA FileAnswer ==
  ASSUME ClientOK, NEW f \in TgFiles, NEW o
  PROVE  LET reply == Answer(o, f.file_id \in 1 .. Len(blobs),
                             FileReply(f.file_id))
         IN  reply \in Replies /\ \A k \in 2 .. Len(reply) : reply[k].key # "ok"
<1> DEFINE known == f.file_id \in 1 .. Len(blobs)
           reply == Answer(o, known, FileReply(f.file_id))
<1>1. ASSUME known PROVE FileReply(f.file_id) \in Replies
  <2>1. f.file_id \in Nat \ {0}
    BY <1>1 DEF ClientOK
  <2> QED
    BY <2>1, ReplyCells
<1>2. reply \in Replies
  BY <1>1, AnswerCells
<1>3. reply \in {FileReply(f.file_id), RefusedReply}
  BY DEF Answer
<1> HIDE DEF reply
<1>4. \A k \in 2 .. Len(reply) : reply[k].key # "ok"
  BY <1>3 DEF FileReply, RefusedReply, Other, Cell
<1> QED
  BY <1>2, <1>4 DEF reply

\* tg_file_load_contents returns contents and a well-formed buffer.
LEMMA LoadOK ==
  ASSUME ClientOK, NEW f \in TgFiles, NEW src \in tg_file_load_contents(f)
  PROVE  /\ src.data \in Contents
         /\ src.json \in JsonBuffers /\ Legible(src.json)
         /\ src.dies \in BOOLEAN
<1> DEFINE known == f.file_id \in 1 .. Len(blobs)
<1>1. EmptyJson \in JsonBuffers /\ Legible(EmptyJson)
  BY ReplyCells, 1 \in Nat \ {0}
<1>2. << >> \in Contents /\ <<Junk>> \in Contents
  BY DEF Contents
<1>0. PICK o \in Outcomes :
        \E buf \in GotFile(EmptyJson, f, o) : src \in Loads(buf, o)
  BY DEF tg_file_load_contents
<1>3. PICK buf \in GotFile(EmptyJson, f, o) : src \in Loads(buf, o)
  BY <1>0
<1>4. PICK reply \in Replies :
        /\ reply = Answer(o, known, FileReply(f.file_id))
        /\ \A k \in 2 .. Len(reply) : reply[k].key # "ok"
  BY FileAnswer
<1>5. buf \in Received(EmptyJson, o, reply)
  BY <1>3, <1>4 DEF GotFile
<1>6. buf \in JsonBuffers /\ Legible(buf)
  BY <1>1, <1>5, ReceivedBuffer
<1>7. ASSUME known, NEW data \in Fetched(f.file_id)
      PROVE  data \in Contents
  <2>1. blobs[f.file_id] \in Contents
    BY <1>7 DEF ClientOK
  <2>2. \A n \in 0 .. Len(blobs[f.file_id]) :
          SubSeq(blobs[f.file_id], 1, n) \in Contents
    BY <2>1, PrefixString
  <2> QED
    BY <1>2, <1>7, <2>1, <2>2 DEF Fetched
<1>8. ASSUME ~known \/ o = "refused", ~Failed(o), o # "split"
      PROVE  ~check_ok_status_in_json(buf)
  <2>1. buf = curl_response_json_writer(EmptyJson, RefusedReply)
    BY <1>4, <1>5, <1>8 DEF Received, Answer
  <2> QED
    BY <1>1, <2>1, RefusedBuffer
<1>9. ASSUME o = "split" PROVE ~HasField(buf, "ok")
  BY <1>4, <1>5, <1>9, SplitFile
<1> DEFINE fid == parse_response_field_from_json(NoId, buf, "file_path")
<1>10. CASE \E dies \in BOOLEAN : src = Load(<< >>, buf, dies)
  <2>1. /\ src.data = << >> /\ src.json = buf
        /\ src.dies \in BOOLEAN
    BY <1>10 DEF Load
  <2> QED
    BY <1>2, <1>6, <2>1
<1>11. CASE /\ ~Failed(o) /\ HasField(buf, "ok") /\ check_ok_status_in_json(buf)
            /\ \E data \in Fetched(fid) : src = Load(data, buf, FALSE)
  <2>1. known /\ o # "refused" /\ o # "split"
    BY <1>8, <1>9, <1>11
  <2>2. fid = f.file_id
    BY <1>3, <1>11, <2>1, FilePath
  <2>3. PICK data \in Fetched(fid) : src = Load(data, buf, FALSE)
    BY <1>11
  <2>4. data \in Contents
    BY <1>7, <2>1, <2>2
  <2>5. src.data = data /\ src.json = buf /\ src.dies = FALSE
    BY <2>3 DEF Load
  <2> QED
    BY <1>6, <2>4, <2>5
<1>12. \/ \E dies \in BOOLEAN : src = Load(<< >>, buf, dies)
       \/ /\ ~Failed(o) /\ HasField(buf, "ok") /\ check_ok_status_in_json(buf)
          /\ \E data \in Fetched(fid) : src = Load(data, buf, FALSE)
  BY <1>3 DEF Loads
<1> QED
  BY <1>10, <1>11, <1>12

\* deleteMessage, with any outcome.
LEMMA RemoveOK ==
  ASSUME ClientOK, NEW f \in TgFiles, NEW o \in Outcomes,
         tg_remove_message_with_file(f, o)
  PROVE  ClientOK'
<1>1. /\ msgs' \subseteq Messages /\ blobs' \in Seq(Contents)
      /\ \A m \in msgs' : m.mid # NoId
  BY DEF tg_remove_message_with_file, ClientOK
<1>2. json' \in JsonBuffers /\ Legible(json')
  <2> DEFINE answer == Answer(o, InChannel(f.message_id), DeletedReply)
  <2>1. json' \in Received(json, o, answer)
    BY DEF tg_remove_message_with_file
  <2>2. json \in JsonBuffers /\ Legible(json)
    BY DEF ClientOK
  <2>3. answer \in Replies
    BY ReplyCells, 1 \in Nat \ {0}, AnswerCells
  <2> HIDE DEF answer
  <2> QED
    BY <2>1, <2>2, <2>3, ReceivedBuffer
<1> QED
  BY <1>1, <1>2 DEF ClientOK

-----------------------------------------------------------------------------
(* The invariant.                                                          *)

\* The table of a running process, and of one that is not.
TableInv(t, running) ==
  /\ t \in Storages
  /\ DistinctPaths(t)
  /\ Len(t.files) <= t.cap
  /\ \A i \in 1 .. Len(t.files) : HasMessage(t.files[i])
  /\ IF running THEN Len(t.files) > 0 /\ t.files[1] = tg_file_new_dir(Root)
     ELSE Len(t.files) = 0

\* The process.
ProcessInv ==
  /\ up \in BOOLEAN
  /\ handles \subseteq Paths
  /\ stray \in BOOLEAN
  /\ sweep \in [dir : AllPaths, from : Nat]
  /\ Sweeping => sweep.dir \in Paths
  /\ epoch \in Nat

IInv == TableInv(st, up) /\ ProcessInv /\ ClientOK /\ HandlesBacked

-----------------------------------------------------------------------------
(* Paths and directories.                                                  *)

\* "/" is no path that a request may name, and paths are sequences of names.
LEMMA PathShape ==
  ASSUME NEW p \in Paths
  PROVE  p # Root /\ p \in Seq(Names) /\ Len(p) \in Nat \ {0}
BY PathsAssumption DEF Root

\* A path lies under itself.
LEMMA UnderItself ==
  ASSUME NEW p \in Paths
  PROVE  Under(p, p)
BY PathShape, SubSeqFull DEF Under

\* What is tagged with a directory other than "/" lies under it.
LEMMA TaggedUnder ==
  ASSUME NEW q \in AllPaths, NEW dir \in Paths,
         tg_file_extract_directory(q) = dir
  PROVE  q \in Paths /\ Under(dir, q)
<1>1. dir # Root
  BY PathShape
<1>2. q # Root
  BY <1>1 DEF tg_file_extract_directory, Root
<1>3. q \in Paths /\ q \in Seq(Names) /\ Len(q) \in Nat
  BY <1>2, PathShape DEF AllPaths
<1>4. Len(q) > 1 /\ dir = <<q[1]>>
  BY <1>1, <1>3 DEF tg_file_extract_directory
<1>5. SubSeq(q, 1, 1) = <<q[1]>>
  <2>1. SubSeq(q, 1, 1) = <<q[1]>> \o SubSeq(q, 2, 1)
    BY <1>3, <1>4, SubSeqRecursiveFirst
  <2>2. SubSeq(q, 2, 1) = << >>
    BY SubSeqEmpty
  <2>3. <<q[1]>> \in Seq(Names)
    BY <1>3, <1>4
  <2>4. <<q[1]>> \o << >> = <<q[1]>>
    BY <2>3, ConcatEmptySeq
  <2> QED
    BY <2>1, <2>2, <2>4
<1> QED
  BY <1>3, <1>4, <1>5 DEF Under

-----------------------------------------------------------------------------
(* The table.                                                              *)

\* "/" has the first entry of a running process's table.
LEMMA RootEntry ==
  ASSUME NEW t, TableInv(t, TRUE), NEW p, In(t, p), p # Root
  PROVE  tg_storage_find_by_path(t, p) # 1
<1> DEFINE i == tg_storage_find_by_path(t, p)
<1>1. t \in Storages /\ t.files[1] = tg_file_new_dir(Root)
  BY DEF TableInv
<1>2. t.files[1].path = Root
  BY <1>1 DEF tg_file_new_dir
<1>3. i # 0 => t.files[i].path = p
  BY <1>1, FindByPath
<1> QED
  BY <1>2, <1>3 DEF In

\* A push of a new path keeps the table sound.
LEMMA PushInv ==
  ASSUME NEW t, TableInv(t, TRUE), NEW f \in TgFiles, HasMessage(f),
         ~In(t, f.path),
         NEW u, u = tg_storage_push(t, f)
  PROVE  TableInv(u, TRUE)
<1>1. t \in Storages /\ DistinctPaths(t) /\ Len(t.files) \in Nat
  BY StorageShape DEF TableInv
<1>2. /\ u \in Storages
      /\ Len(u.files) = Len(t.files) + 1
      /\ u.files[Len(t.files) + 1] = f
      /\ \A k \in 1 .. Len(t.files) : u.files[k] = t.files[k]
      /\ Len(u.files) <= u.cap
  BY <1>1, PushTable DEF TableInv
<1>3. DistinctPaths(u)
  BY <1>1, PushEntry
<1>4. \A i \in 1 .. Len(u.files) : HasMessage(u.files[i])
  BY <1>1, <1>2 DEF TableInv
<1>5. Len(u.files) > 0 /\ u.files[1] = t.files[1]
  BY <1>1, <1>2 DEF TableInv
<1> QED
  BY <1>2, <1>3, <1>4, <1>5 DEF TableInv

\* A removal of any path but "/" keeps the table sound.
LEMMA RemoveInv ==
  ASSUME NEW t, TableInv(t, TRUE), NEW p, In(t, p), p # Root,
         NEW u, u = tg_storage_remove_by_path(t, p)
  PROVE  TableInv(u, TRUE)
<1> DEFINE i == tg_storage_find_by_path(t, p)
<1>1. t \in Storages /\ DistinctPaths(t) /\ Len(t.files) \in Nat /\ t.cap \in Nat
  BY StorageShape DEF TableInv
<1>2. /\ u \in Storages
      /\ u.cap = t.cap
      /\ i \in 1 .. Len(t.files)
      /\ Len(u.files) = Len(t.files) - 1
      /\ \A k \in 1 .. Len(u.files) :
           u.files[k] = IF k = i THEN t.files[Len(t.files)] ELSE t.files[k]
  BY <1>1, RemoveTable DEF In
<1>3. DistinctPaths(u)
  BY <1>1, RemoveEntry
<1>4. i # 1
  BY RootEntry
<1> HIDE DEF i
<1>5. \A k \in 1 .. Len(u.files) : HasMessage(u.files[k])
  BY <1>1, <1>2 DEF TableInv
<1>6. Len(u.files) > 0 /\ u.files[1] = t.files[1]
  BY <1>1, <1>2, <1>4 DEF TableInv
<1>7. Len(u.files) <= u.cap
  BY <1>1, <1>2 DEF TableInv
<1> QED
  BY <1>2, <1>3, <1>5, <1>6, <1>7 DEF TableInv

\* An assignment to an entry other than that of "/" keeps the table sound.
LEMMA UpdateInv ==
  ASSUME NEW t \in Storages, TableInv(t, TRUE), NEW p, In(t, p), p # Root,
         NEW e \in TgFiles, e.path = p, HasMessage(e),
         NEW u, u = [t EXCEPT !.files[tg_storage_find_by_path(t, p)] = e]
  PROVE  TableInv(u, TRUE)
<1>1. t \in Storages /\ DistinctPaths(t) /\ Len(t.files) \in Nat
  BY StorageShape DEF TableInv
<1>2. /\ u \in Storages /\ DistinctPaths(u) /\ u.cap = t.cap
      /\ Len(u.files) = Len(t.files)
      /\ \A k \in 1 .. Len(t.files) :
           u.files[k] = IF k = tg_storage_find_by_path(t, p) THEN e
                        ELSE t.files[k]
  BY <1>1, UpdateEntry
<1>3. ASSUME NEW k \in 1 .. Len(u.files) PROVE HasMessage(u.files[k])
  BY <1>2 DEF TableInv
<1>4. t.files[1].path # p /\ 1 \in 1 .. Len(t.files)
  BY <1>1 DEF TableInv, tg_file_new_dir
<1>5. u.files[1] = t.files[1]
  <2>1. tg_storage_find_by_path(t, p) # 1
    BY RootEntry
  <2> QED
    BY <1>2, <1>4, <2>1
<1> QED
  BY ONLY <1>2, <1>3, <1>5, TableInv(t, TRUE) DEF TableInv

-----------------------------------------------------------------------------
(* One lemma per kind of step.  Each shows that the invariant is kept and  *)
(* that no other file's entry and no message_id is lost.                   *)

StepOK == IInv' /\ KeepsOtherFiles /\ KeepsMessageKnown

\* A step that leaves the entries of all paths alone.
LEMMA SameEntries ==
  ASSUME \A p \in Paths : SameEntry(st, st', p)
  PROVE  KeepsOtherFiles /\ KeepsMessageKnown
BY DEF SameEntry, In, EntryAt, KeepsOtherFiles, KeepsMessageKnown, Exists, Entry, Find

\* The table as the properties and as the lemmas see it.
LEMMA IsFileEntry ==
  ASSUME NEW p
  PROVE  IsFile(p) <=> In(st, p) /\ EntryAt(st, p).type = TG_FILE
BY DEF IsFile, Exists, Entry, Find, In, EntryAt

\* A step that leaves the table alone, and opens only what is a file.
LEMMA QuietStep ==
  ASSUME IInv, st' = st, up' = up, sweep' = sweep, epoch' = epoch,
         ClientOK', stray' \in BOOLEAN, handles' \subseteq Paths,
         \A h \in handles' : h \in handles \/ IsFile(h)
  PROVE  StepOK
<1>1. TableInv(st, up)' /\ ProcessInv'
  BY DEF IInv, ProcessInv, Sweeping, TableInv
<1>2. HandlesBacked'
  BY DEF IInv, HandlesBacked, IsFile, Exists, Entry, Find, Sweeping
<1>3. \A p \in Paths : SameEntry(st, st', p)
  BY DEF SameEntry
<1> QED
  BY <1>1, <1>2, <1>3, SameEntries DEF StepOK, IInv

\* A step without a call leaves the client as it was.
LEMMA ClientUnchanged ==
  ASSUME ClientOK, UNCHANGED clientVars
  PROVE  ClientOK'
BY DEF ClientOK, clientVars

\* The process is gone: nothing is left of the table.
LEMMA GoneStep ==
  ASSUME IInv, Gone, ClientOK'
  PROVE  StepOK
<1>1. /\ up' = FALSE /\ st' = tg_storage_free /\ handles' = {}
      /\ stray' = FALSE /\ sweep' = NoSweep /\ epoch' = epoch
  BY DEF Gone
<1>2. st' \in Storages /\ Len(st'.files) = 0 /\ st'.cap = 0
  BY <1>1 DEF tg_storage_free, Storages
<1>3. TableInv(st, up)'
  BY <1>1, <1>2 DEF TableInv, DistinctPaths
<1>4. ProcessInv' /\ HandlesBacked'
  <2>1. HandlesBacked'
    BY <1>1 DEF HandlesBacked
  <2>2. sweep' \in [dir : AllPaths, from : Nat] /\ ~Sweeping'
    BY <1>1 DEF Sweeping, NoSweep, AllPaths
  <2>3. epoch' \in Nat
    BY <1>1 DEF IInv, ProcessInv
  <2> QED
    BY <1>1, <2>1, <2>2, <2>3 DEF ProcessInv
<1>5. ASSUME NEW p \in Paths PROVE ~Exists(p)'
  <2>1. ~In(st', p)
    BY <1>2, EntryPosition
  <2> QED
    BY <2>1 DEF Exists, Find, In
<1>6. KeepsOtherFiles /\ KeepsMessageKnown
  BY <1>1, <1>5 DEF KeepsOtherFiles, KeepsMessageKnown
<1> QED
  BY <1>3, <1>4, <1>6 DEF StepOK, IInv

\* main: the table starts with "/".
LEMMA MountStep ==
  ASSUME IInv, Mount
  PROVE  StepOK
<1> DEFINE root == tg_file_new_dir(Root)
<1>1. /\ up = FALSE /\ up' = TRUE
      /\ handles' = {} /\ stray' = FALSE /\ sweep' = NoSweep
      /\ st' = tg_storage_push(tg_storage_new, root)
      /\ json' = EmptyJson /\ epoch' = Len(blobs)
      /\ UNCHANGED <<msgs, blobs>>
  BY DEF Mount, IInv, ProcessInv
<1>2. root \in TgFiles /\ HasMessage(root)
  BY DEF TgFiles, HasMessage, tg_file_new_dir, NoId
<1> HIDE DEF root
<1>3. /\ tg_storage_new \in Storages /\ tg_storage_new.cap = 2
      /\ Len(tg_storage_new.files) = 0
  BY DEF tg_storage_new, Storages
<1>4. /\ st' \in Storages /\ Len(st'.files) = 1
      /\ st'.files[1] = root /\ Len(st'.files) <= st'.cap
  <2>1. /\ st' \in Storages
        /\ Len(st'.files) = Len(tg_storage_new.files) + 1
        /\ st'.files[Len(tg_storage_new.files) + 1] = root
        /\ Len(tg_storage_new.files) <= tg_storage_new.cap
             => Len(st'.files) <= st'.cap
    <3>1. st' = tg_storage_push(tg_storage_new, root)
      BY <1>1
    <3>2. tg_storage_new \in Storages /\ root \in TgFiles
      BY <1>2, <1>3
    <3> QED
      BY ONLY <3>1, <3>2, PushTable
  <2> QED
    BY <1>3, <2>1
<1>5. TableInv(st, up)'
  <2>1. DistinctPaths(st')
    BY <1>4 DEF DistinctPaths
  <2>2. \A i \in 1 .. Len(st'.files) : HasMessage(st'.files[i])
    BY <1>2, <1>4
  <2> QED
    BY <1>1, <1>4, <2>1, <2>2 DEF TableInv, root
<1>6. ClientOK'
  <2>1. EmptyJson \in JsonBuffers /\ Legible(EmptyJson)
    BY ReplyCells, 1 \in Nat \ {0}
  <2> QED
    BY <1>1, <2>1 DEF IInv, ClientOK
<1>7. ProcessInv' /\ HandlesBacked'
  <2>1. sweep' \in [dir : AllPaths, from : Nat] /\ ~Sweeping'
    BY <1>1 DEF Sweeping, NoSweep, AllPaths
  <2>2. epoch' \in Nat
    BY <1>1 DEF IInv, ClientOK
  <2>3. HandlesBacked'
    BY <1>1 DEF HandlesBacked
  <2> QED
    BY <1>1, <2>1, <2>2, <2>3 DEF ProcessInv
<1>8. ASSUME NEW p \in Paths PROVE ~Exists(p)
  <2>1. st \in Storages /\ Len(st.files) = 0
    BY <1>1 DEF IInv, TableInv
  <2>2. ~In(st, p)
    BY <2>1, EntryPosition
  <2> QED
    BY <2>2 DEF Exists, Find, In
<1>9. KeepsOtherFiles /\ KeepsMessageKnown
  BY <1>8 DEF KeepsOtherFiles, KeepsMessageKnown
<1> QED
  BY <1>5, <1>6, <1>7, <1>9 DEF StepOK, IInv

\* hello_create and hello_mkdir: one new entry.
LEMMA AddStep ==
  ASSUME IInv, Ready, NEW f \in TgFiles, HasMessage(f), ~In(st, f.path),
         st' = tg_storage_push(st, f),
         up' = up, stray' = stray, sweep' = sweep, epoch' = epoch,
         UNCHANGED clientVars, handles' \subseteq Paths,
         \A h \in handles' : h \in handles \/ (h = f.path /\ f.type = TG_FILE)
  PROVE  StepOK
<1>1. TableInv(st, TRUE) /\ up = TRUE
  BY DEF IInv, Ready, ProcessInv
<1>2. TableInv(st, up)'
  BY <1>1, PushInv
<1>3. ProcessInv' /\ ClientOK'
  BY ClientUnchanged DEF IInv, ProcessInv, Sweeping
<1>4. /\ In(st', f.path) /\ EntryAt(st', f.path) = f
      /\ \A q : q # f.path => SameEntry(st, st', q)
  BY <1>1, PushEntry DEF TableInv
<1>5. HandlesBacked'
  <2> SUFFICES ASSUME NEW h \in handles' PROVE IsFile(h)'
    BY DEF HandlesBacked
  <2>1. CASE h = f.path /\ f.type = TG_FILE
    BY <1>4, <2>1 DEF IsFile, Exists, Entry, Find, In, EntryAt
  <2>2. CASE h \in handles
    <3>1. IsFile(h)
      BY <2>2 DEF IInv, HandlesBacked, Ready
    <3>2. h # f.path
      BY <3>1, IsFileEntry
    <3> QED
      BY <1>4, <3>1, <3>2
         DEF SameEntry, IsFile, Exists, Entry, Find, In, EntryAt
  <2> QED
    BY <2>1, <2>2
<1>6. KeepsOtherFiles /\ KeepsMessageKnown
  <2> SUFFICES ASSUME NEW p \in Paths, Exists(p)
               PROVE  Exists(p)' /\ Entry(p)' = Entry(p)
    BY DEF KeepsOtherFiles, KeepsMessageKnown
  <2>1. p # f.path
    BY DEF Exists, Find, In
  <2> QED
    BY <1>4, <2>1 DEF SameEntry, Exists, Entry, Find, In, EntryAt
<1> QED
  BY <1>2, <1>3, <1>5, <1>6 DEF StepOK, IInv

\* The removal of one entry, by hello_unlink or inside hello_rmdir.
LEMMA DropStep ==
  ASSUME IInv, up = TRUE, up' = TRUE, NEW p \in Paths, In(st, p),
         st' = tg_storage_remove_by_path(st, p),
         ProcessInv', ClientOK',
         \A h \in handles' : \/ h # p /\ IsFile(h)
                             \/ (Sweeping /\ Under(sweep.dir, h))',
         \/ ~Sweeping /\ out'[1] = "unlink" /\ out'[2] = p
         \/ Sweeping /\ Under(sweep.dir, p)
  PROVE  StepOK
<1>1. TableInv(st, TRUE) /\ p # Root
  BY PathShape DEF IInv
<1>2. TableInv(st, up)'
  BY <1>1, RemoveInv
<1>3. /\ ~In(st', p)
      /\ \A q : q # p => SameEntry(st, st', q)
  BY <1>1, RemoveEntry DEF TableInv
<1>4. HandlesBacked'
  <2> SUFFICES ASSUME NEW h \in handles', h # p, IsFile(h)
               PROVE  IsFile(h)'
    BY DEF HandlesBacked
  <2> QED
    BY <1>3 DEF SameEntry, IsFile, Exists, Entry, Find, In, EntryAt
<1>5. KeepsOtherFiles /\ KeepsMessageKnown
  <2>1. ASSUME NEW q \in Paths, Exists(q), q # p
        PROVE  Exists(q)' /\ Entry(q)' = Entry(q)
    BY <1>3, <2>1 DEF SameEntry, Exists, Entry, Find, In, EntryAt
  <2>2. ~Exists(p)'
    BY <1>3 DEF Exists, Find, In
  <2> QED
    BY <2>1, <2>2 DEF KeepsOtherFiles, KeepsMessageKnown
<1> QED
  BY <1>2, <1>4, <1>5 DEF StepOK, IInv

\* hello_unlink: the entry goes, whatever deleteMessage answers.
LEMMA UnlinkStep ==
  ASSUME IInv, NEW p \in Paths, hello_unlink(p)
  PROVE  StepOK
<1>1. Ready /\ IsFile(p) /\ p \notin handles
  BY DEF hello_unlink, is_open
<1>2. In(st, p) /\ EntryAt(st, p) \in TgFiles /\ Entry(p) = EntryAt(st, p)
  <2>1. In(st, p) /\ st \in Storages
    BY <1>1, IsFileEntry DEF IInv, TableInv
  <2> QED
    BY <2>1, EntryPosition DEF Entry, EntryAt, Find
<1>3. PICK o \in Outcomes :
        /\ tg_remove_message_with_file(Entry(p), o)
        /\ IF RemoveAborts(json', o) THEN
             Gone /\ Reply("unlink", p, "died", 0)
           ELSE
             /\ st' = tg_storage_remove_by_path(st, p)
             /\ Reply("unlink", p, "OK", 0)
             /\ UNCHANGED <<up, handles, stray, sweep, epoch>>
  BY DEF hello_unlink, RemovedEntry
<1>4. ClientOK'
  BY <1>2, <1>3, RemoveOK DEF IInv
<1>5. CASE RemoveAborts(json', o)
  BY <1>3, <1>4, <1>5, GoneStep
<1>6. CASE ~RemoveAborts(json', o)
  <2>1. /\ st' = tg_storage_remove_by_path(st, p)
        /\ out' = <<"unlink", p, "OK", 0>>
        /\ UNCHANGED <<up, handles, stray, sweep, epoch>>
    BY <1>3, <1>6 DEF Reply
  <2>2. up = TRUE /\ up' = TRUE /\ ~Sweeping
    BY <1>1, <2>1 DEF Ready, IInv, ProcessInv
  <2>3. ProcessInv'
    BY <2>1 DEF IInv, ProcessInv, Sweeping
  <2>4. \A h \in handles' : h # p /\ IsFile(h)
    BY <1>1, <2>1, <2>2 DEF IInv, HandlesBacked
  <2>5. out'[1] = "unlink" /\ out'[2] = p
    BY <2>1
  <2> QED
    BY <1>2, <1>4, <2>1, <2>2, <2>3, <2>4, <2>5, DropStep
<1> QED
  BY <1>5, <1>6

\* hello_rmdir's check: the sweep begins.
LEMMA BeginRmdirStep ==
  ASSUME IInv, NEW p \in Paths, hello_rmdir(p)
  PROVE  StepOK
<1>1. /\ Ready /\ sweep' = [dir |-> p, from |-> 1]
      /\ UNCHANGED <<up, st, handles, stray, out, epoch, clientVars>>
  BY DEF hello_rmdir
<1>2. TableInv(st, up)' /\ ClientOK'
  BY <1>1, ClientUnchanged DEF IInv, TableInv
<1>3. ProcessInv'
  BY <1>1 DEF IInv, ProcessInv, Sweeping, AllPaths
<1>4. HandlesBacked'
  BY <1>1 DEF IInv, HandlesBacked, Ready, IsFile, Exists, Entry, Find
<1>5. KeepsOtherFiles /\ KeepsMessageKnown
  <2>1. \A q \in Paths : SameEntry(st, st', q)
    BY <1>1 DEF SameEntry
  <2> QED
    BY <2>1, SameEntries
<1> QED
  BY <1>2, <1>3, <1>4, <1>5 DEF StepOK, IInv

\* What the scan of hello_rmdir finds.
LEMMA FoundInDirectory ==
  ASSUME IInv, Sweeping, NextInDir # 0
  PROVE  /\ NextInDir \in 1 .. Len(st.files)
         /\ st.files[NextInDir] \in TgFiles
         /\ st.files[NextInDir].path \in Paths
         /\ Under(sweep.dir, st.files[NextInDir].path)
         /\ In(st, st.files[NextInDir].path)
<1> DEFINE P == {k \in InDirectory(st, sweep.dir) : k >= sweep.from}
           n == NextInDir
<1>1. st \in Storages /\ DistinctPaths(st) /\ Len(st.files) \in Nat
      /\ sweep.dir \in Paths
  BY StorageShape DEF IInv, TableInv, ProcessInv
<1>2. P \in SUBSET (Nat \ {0}) /\ n = FirstOf(P)
  BY <1>1 DEF InDirectory, NextInDir, tg_storage_find_files_by_dir
<1>3. n \in P
  BY <1>2, FirstOfLowest
<1>4. /\ n \in 1 .. Len(st.files)
      /\ tg_file_extract_directory(st.files[n].path) = sweep.dir
  BY <1>3 DEF InDirectory
<1> HIDE DEF n
<1>5. st.files[n] \in TgFiles /\ st.files[n].path \in AllPaths
  BY <1>1, <1>4, StorageShape DEF TgFiles, AllPaths
<1>6. st.files[n].path \in Paths /\ Under(sweep.dir, st.files[n].path)
  BY <1>1, <1>4, <1>5, TaggedUnder
<1>7. In(st, st.files[n].path)
  BY <1>1, <1>4, EntryOfPath
<1> QED
  BY <1>4, <1>5, <1>6, <1>7 DEF n

\* One turn of hello_rmdir's loop: what goes lies under the directory.
LEMMA RmdirTurnStep ==
  ASSUME IInv, rmdir_turn
  PROVE  StepOK
<1> DEFINE file == st.files[NextInDir]
           Removed ==
             /\ st' = tg_storage_remove_by_path(st, file.path)
             /\ sweep' = [sweep EXCEPT !.from = NextInDir + 1]
             /\ UNCHANGED <<up, handles, stray, out, epoch>>
<1>1. up /\ Sweeping /\ NextInDir # 0
  BY DEF rmdir_turn
<1>2. /\ NextInDir \in 1 .. Len(st.files)
      /\ file \in TgFiles /\ file.path \in Paths
      /\ Under(sweep.dir, file.path)
      /\ In(st, file.path)
      /\ Len(st.files) \in Nat
  BY <1>1, FoundInDirectory, StorageShape DEF IInv, TableInv
<1>3. ClientOK' /\ (Gone \/ Removed)
  <2>1. CASE file.file_size > 0
    <3>1. PICK o \in Outcomes :
            tg_remove_message_with_file(file, o) /\ (Gone \/ Removed)
      BY <2>1 DEF rmdir_turn
    <3> QED
      BY <1>2, <3>1, RemoveOK DEF IInv
  <2>2. CASE ~(file.file_size > 0)
    BY <2>2, ClientUnchanged DEF rmdir_turn, IInv
  <2> QED
    BY <2>1, <2>2
<1>4. CASE Gone
  BY <1>3, <1>4, GoneStep
<1>5. CASE Removed
  <2>1. /\ sweep' \in [dir : AllPaths, from : Nat]
        /\ sweep'.dir = sweep.dir /\ Sweeping'
    BY <1>1, <1>2, <1>5 DEF IInv, ProcessInv, Sweeping
  <2>2. ProcessInv' /\ up = TRUE /\ up' = TRUE
    BY <1>1, <1>5, <2>1 DEF IInv, ProcessInv
  <2>3. \A h \in handles' : \/ h # file.path /\ IsFile(h)
                            \/ (Sweeping /\ Under(sweep.dir, h))'
    BY <1>2, <1>5, <2>1 DEF IInv, HandlesBacked, Under
  <2>4. st' = tg_storage_remove_by_path(st, file.path)
    BY <1>5
  <2> HIDE DEF file
  <2> QED
    BY <1>1, <1>2, <1>3, <2>2, <2>3, <2>4, DropStep
<1> QED
  BY <1>3, <1>4, <1>5

\* hello_rmdir's return: the directory's entry and the handles below it go.
LEMMA RmdirReturnStep ==
  ASSUME IInv, rmdir_return
  PROVE  StepOK
<1>1. /\ up /\ Sweeping
      /\ st' = tg_storage_remove_by_path(st, sweep.dir)
      /\ handles' = {h \in handles : ~Under(sweep.dir, h)}
      /\ stray' = (stray \/ \E h \in handles : Under(sweep.dir, h))
      /\ sweep' = NoSweep
      /\ UNCHANGED <<up, epoch, clientVars>>
  BY DEF rmdir_return
<1>2. sweep.dir \in Paths /\ Under(sweep.dir, sweep.dir)
  BY <1>1, UnderItself DEF IInv, ProcessInv
<1>3. ClientOK'
  BY <1>1, ClientUnchanged DEF IInv
<1>4. sweep' \in [dir : AllPaths, from : Nat] /\ ~Sweeping'
  BY <1>1 DEF NoSweep, AllPaths, Sweeping
<1>5. ProcessInv' /\ up = TRUE /\ up' = TRUE
  <2>1. stray' \in BOOLEAN
    BY <1>1
  <2> QED
    BY <1>1, <1>4, <2>1 DEF IInv, ProcessInv
<1>6. \A h \in handles' : h # sweep.dir /\ IsFile(h)
  BY <1>1, <1>2 DEF IInv, HandlesBacked
<1>7. CASE In(st, sweep.dir)
  BY <1>1, <1>2, <1>3, <1>5, <1>6, <1>7, DropStep
<1>8. CASE ~In(st, sweep.dir)
  <2>1. st' = st
    BY <1>1, <1>8 DEF tg_storage_remove_by_path, In
  <2>2. TableInv(st, up)'
    BY <1>1, <2>1 DEF IInv, TableInv
  <2>3. HandlesBacked'
    BY <1>6, <2>1 DEF HandlesBacked, IsFile, Exists, Entry, Find
  <2>4. \A q \in Paths : SameEntry(st, st', q)
    BY <2>1 DEF SameEntry
  <2> QED
    BY <1>3, <1>5, <2>2, <2>3, <2>4, SameEntries DEF StepOK, IInv
<1> QED
  BY <1>7, <1>8

\* hello_create adds an empty file and opens it.
LEMMA CreateStep ==
  ASSUME IInv, NEW p \in Paths, hello_create(p)
  PROVE  StepOK
<1> DEFINE f == tg_file_new_file(p, 0)
<1>1. f \in TgFiles /\ HasMessage(f) /\ f.path = p /\ f.type = TG_FILE
  BY DEF tg_file_new_file, TgFiles, HasMessage, NoId
<1>2. /\ Ready /\ ~In(st, p)
      /\ st' = tg_storage_push(st, f)
      /\ handles' = handles \cup {p}
      /\ up' = up /\ stray' = stray /\ sweep' = sweep /\ epoch' = epoch
      /\ UNCHANGED clientVars
  BY DEF hello_create, Exists, Find, In
<1>3. handles' \subseteq Paths
  BY <1>2 DEF IInv, ProcessInv
<1> HIDE DEF f
<1> QED
  BY <1>1, <1>2, <1>3, AddStep

\* hello_mkdir adds a directory.
LEMMA MkdirStep ==
  ASSUME IInv, NEW p \in Paths, hello_mkdir(p)
  PROVE  StepOK
<1> DEFINE f == tg_file_new_dir(p)
<1>1. f \in TgFiles /\ HasMessage(f) /\ f.path = p
  BY DEF tg_file_new_dir, TgFiles, HasMessage, NoId
<1>2. /\ Ready /\ ~In(st, p)
      /\ st' = tg_storage_push(st, f)
      /\ handles' = handles
      /\ up' = up /\ stray' = stray /\ sweep' = sweep /\ epoch' = epoch
      /\ UNCHANGED clientVars
  BY DEF hello_mkdir, Exists, Find, In
<1>3. handles' \subseteq Paths
  BY <1>2 DEF IInv, ProcessInv
<1> HIDE DEF f
<1> QED
  BY <1>1, <1>2, <1>3, AddStep

\* getattr, readdir, setxattr, utimens, open, release, and unlink of an open
\* file change what is open at most.
LEMMA LookStep ==
  ASSUME IInv, NEW p \in AllPaths,
         \/ hello_getattr(p)
         \/ hello_readdir(p)
         \/ stray_release
         \/ p \in Paths /\ ( \/ hello_ignored(p)
                            \/ release(p)
                            \/ unlink_open(p)
                            \/ \E trunc \in BOOLEAN : hello_open(p, trunc) )
  PROVE  StepOK
<1>1. /\ st' = st /\ up' = up /\ sweep' = sweep /\ epoch' = epoch
      /\ UNCHANGED clientVars
  BY DEF hello_getattr, hello_readdir, hello_ignored, release, unlink_open,
         hello_open, stray_release
<1>2. \/ handles' \subseteq handles
      \/ handles' = handles \cup {p} /\ p \in Paths /\ IsFile(p)
  BY DEF hello_getattr, hello_readdir, hello_ignored, release, unlink_open,
         hello_open, stray_release
<1>3. handles \subseteq Paths /\ ClientOK'
  BY <1>1, ClientUnchanged DEF IInv, ProcessInv
<1>4. stray' \in BOOLEAN
  BY DEF hello_getattr, hello_readdir, hello_ignored, release, unlink_open,
         hello_open, stray_release, IInv, ProcessInv
<1> QED
  BY <1>1, <1>2, <1>3, <1>4, QuietStep

\* An open file has the entry of a file when its handler runs.
LEMMA OpenFile ==
  ASSUME IInv, Ready, NEW p \in Paths, is_open(p)
  PROVE  /\ In(st, p) /\ Exists(p) /\ st \in Storages
         /\ Entry(p) = EntryAt(st, p) /\ Entry(p) \in TgFiles
         /\ Entry(p).path = p /\ Entry(p).type = TG_FILE
         /\ HasMessage(Entry(p))
<1>1. IsFile(p) /\ st \in Storages
  BY DEF IInv, Ready, is_open, HandlesBacked, TableInv
<1>2. In(st, p) /\ EntryAt(st, p).type = TG_FILE
  BY <1>1, IsFileEntry
<1>3. Exists(p) /\ Entry(p) = EntryAt(st, p)
  BY <1>2 DEF Exists, Entry, Find, In, EntryAt
<1>4. EntryAt(st, p) \in TgFiles /\ EntryAt(st, p).path = p
  BY <1>1, <1>2, EntryPosition
<1>5. PICK k \in 1 .. Len(st.files) : EntryAt(st, p) = st.files[k]
  BY <1>1, <1>2, EntryPosition
<1>6. HasMessage(EntryAt(st, p))
  BY <1>5 DEF IInv, TableInv
<1> QED
  BY <1>1, <1>2, <1>3, <1>4, <1>6

\* hello_read overwrites the response buffer, and may end the process.
LEMMA ReadStep ==
  ASSUME IInv, NEW p \in Paths, NEW range \in Ranges, hello_read(p, range)
  PROVE  StepOK
<1> DEFINE Quiet == UNCHANGED <<up, st, handles, stray, sweep, epoch>>
<1>1. Ready /\ is_open(p) /\ UNCHANGED <<msgs, blobs>>
  BY DEF hello_read
<1>2. Exists(p) /\ Entry(p) \in TgFiles
  BY <1>1, OpenFile
<1>3. /\ json' \in JsonBuffers /\ Legible(json')
      /\ Gone \/ Quiet
  <2>1. CASE Entry(p).file_id = NoId
    BY <1>2, <2>1 DEF hello_read, IInv, ClientOK
  <2>2. CASE Entry(p).file_id # NoId
    <3>1. PICK src \in tg_file_load_contents(Entry(p)) :
            json' = src.json /\ (Gone \/ Quiet)
      BY <1>2, <2>2 DEF hello_read
    <3>2. src.json \in JsonBuffers /\ Legible(src.json)
      BY <1>2, LoadOK DEF IInv
    <3> QED
      BY <3>1, <3>2
  <2> QED
    BY <2>1, <2>2
<1>4. ClientOK'
  BY <1>1, <1>3 DEF IInv, ClientOK
<1>5. CASE Gone
  BY <1>4, <1>5, GoneStep
<1>6. CASE Quiet
  <2>1. handles' \subseteq Paths /\ stray' \in BOOLEAN
    BY <1>6 DEF IInv, ProcessInv
  <2> QED
    BY <1>4, <1>6, <2>1, QuietStep
<1> QED
  BY <1>3, <1>5, <1>6

\* The write of an entry's ids and size.
LEMMA AssignStep ==
  ASSUME IInv, Ready, NEW p \in Paths, In(st, p),
         EntryAt(st, p).type = TG_FILE,
         NEW e \in TgFiles, e.path = p, e.type = TG_FILE, HasMessage(e),
         EntryAt(st, p).message_id # NoId
           => e.message_id # NoId,
         st' = [st EXCEPT !.files[tg_storage_find_by_path(st, p)] = e],
         up' = up, handles' = handles, stray' = stray, sweep' = sweep,
         epoch' = epoch,
         ClientOK', out'[1] = "write", out'[2] = p
  PROVE  StepOK
<1>1. st \in Storages /\ TableInv(st, TRUE) /\ up = TRUE /\ p # Root
  BY PathShape DEF IInv, Ready, ProcessInv, TableInv
<1>2. TableInv(st', TRUE)
  BY <1>1, UpdateInv
<1>3. /\ In(st', p) /\ EntryAt(st', p) = e
      /\ \A q : q # p => SameEntry(st, st', q)
  BY <1>1, UpdateEntry DEF TableInv
<1>4. TableInv(st, up)' /\ ProcessInv'
  BY <1>1, <1>2 DEF IInv, ProcessInv, Sweeping
<1>5. HandlesBacked'
  <2> SUFFICES ASSUME NEW h \in handles PROVE IsFile(h)'
    BY DEF HandlesBacked
  <2>1. CASE h = p
    BY <1>3, <2>1 DEF IsFile, Exists, Entry, Find, In, EntryAt
  <2>2. CASE h # p
    <3>1. IsFile(h)
      BY DEF IInv, HandlesBacked, Ready
    <3> QED
      BY <1>3, <2>2, <3>1
         DEF SameEntry, IsFile, Exists, Entry, Find, In, EntryAt
  <2> QED
    BY <2>1, <2>2
<1>6. ASSUME NEW q \in Paths, Exists(q)
      PROVE  /\ Exists(q)'
             /\ q # p => Entry(q)' = Entry(q)
             /\ Entry(q).message_id # NoId
                  => Entry(q)'.message_id # NoId
  <2>1. CASE q = p
    BY <1>3, <2>1 DEF Exists, Entry, Find, In, EntryAt
  <2>2. CASE q # p
    BY <1>3, <1>6, <2>2 DEF SameEntry, Exists, Entry, Find, In, EntryAt
  <2> QED
    BY <2>1, <2>2
<1>7. KeepsOtherFiles /\ KeepsMessageKnown
  BY <1>6 DEF KeepsOtherFiles, KeepsMessageKnown, Ready
<1> QED
  BY <1>4, <1>5, <1>7 DEF StepOK, IInv

\* hello_write: the process dies, or the entry gets new ids and size.
LEMMA WriteStep ==
  ASSUME IInv, NEW p \in Paths, NEW chunk \in Chunks, hello_write(p, chunk)
  PROVE  StepOK
<1> DEFINE file == Entry(p)
<1>1. Ready /\ is_open(p)
  BY DEF hello_write
<1>2. /\ In(st, p) /\ Exists(p) /\ st \in Storages
      /\ file = EntryAt(st, p) /\ file \in TgFiles
      /\ file.path = p /\ file.type = TG_FILE
      /\ HasMessage(file)
  BY <1>1, OpenFile
<1>3. PICK src \in Original(file, FALSE) :
        IF src.dies THEN Gone /\ json' = src.json /\ UNCHANGED <<msgs, blobs>>
        ELSE \E o \in Outcomes :
          LET data == Inserted(src.data, chunk.off, chunk.data) IN
          /\ tg_put_file(src.json, file, data, o)
          /\ IF PutAborts(json', file, o) THEN Gone
             ELSE
               /\ st' = [st EXCEPT !.files[Find(p)] =
                          [PutRecord(json', file) EXCEPT !.file_size = Len(data)]]
               /\ Reply("write", p, "OK", Len(chunk.data))
               /\ UNCHANGED <<up, handles, stray, sweep, epoch>>
  <2>1. TG_FILE # TG_DIR
    BY DEF TG_FILE, TG_DIR
  <2> QED
    BY <1>2, <2>1 DEF hello_write
<1>4. /\ src.data \in Contents
      /\ src.json \in JsonBuffers /\ Legible(src.json)
  <2>1. CASE file.file_size > 0
    BY <1>2, <2>1, LoadOK DEF Original, IInv
  <2>2. CASE ~(file.file_size > 0)
    <3>1. src.data = << >> /\ src.json = json
      BY <2>2 DEF Original, Load
    <3>2. << >> \in Contents
      BY DEF Contents
    <3> QED
      BY <3>1, <3>2 DEF IInv, ClientOK
  <2> QED
    BY <2>1, <2>2
<1> SUFFICES ASSUME ~src.dies PROVE StepOK
  <2> SUFFICES ASSUME src.dies PROVE StepOK
    OBVIOUS
  <2>1. Gone /\ json' = src.json /\ UNCHANGED <<msgs, blobs>>
    BY <1>3
  <2>2. ClientOK'
    BY <1>4, <2>1 DEF IInv, ClientOK
  <2> QED
    BY <2>1, <2>2, GoneStep
<1> DEFINE data == Inserted(src.data, chunk.off, chunk.data)
           r    == PutRecord(json', file)
           e    == [r EXCEPT !.file_size = Len(data)]
<1>5. PICK o \in Outcomes :
        /\ tg_put_file(src.json, file, data, o)
        /\ IF PutAborts(json', file, o) THEN Gone
           ELSE /\ st' = [st EXCEPT !.files[Find(p)] = e]
                /\ Reply("write", p, "OK", Len(chunk.data))
                /\ UNCHANGED <<up, handles, stray, sweep, epoch>>
  BY <1>3
<1>6. data \in Contents /\ Len(data) \in Nat
  <2>1. chunk.off \in Nat /\ chunk.data \in Seq(Bytes)
    BY ChunksAssumption
  <2>2. data \in Contents
    BY <1>4, <2>1, InsertedString
  <2> HIDE DEF data
  <2> QED
    BY <2>2 DEF Contents
<1>7. /\ ClientOK'
      /\ ~PutAborts(json', file, o) =>
           /\ r \in TgFiles
           /\ r.path = p /\ r.type = TG_FILE
           /\ HasMessage(r)
           /\ file.message_id # NoId => r.message_id # NoId
  <2>1. tg_put_file(src.json, file, data, o)
    BY <1>5
  <2> HIDE DEF data, file
  <2> QED
    BY <1>2, <1>4, <1>6, <2>1, PutOK DEF IInv
<1>8. CASE PutAborts(json', file, o)
  BY <1>7, <1>8, <1>5, GoneStep
<1>9. CASE ~PutAborts(json', file, o)
  <2>1. /\ e \in TgFiles /\ e.path = p /\ e.type = TG_FILE /\ HasMessage(e)
        /\ file.message_id # NoId => e.message_id # NoId
    <3> HIDE DEF r, data, file
    <3> QED
      BY <1>6, <1>7, <1>9 DEF TgFiles, HasMessage
  <2>2. /\ st' = [st EXCEPT !.files[tg_storage_find_by_path(st, p)] = e]
        /\ out' = <<"write", p, "OK", Len(chunk.data)>>
        /\ up' = up /\ handles' = handles /\ stray' = stray
        /\ sweep' = sweep /\ epoch' = epoch
    BY <1>9, <1>5 DEF Reply, Find
  <2>3. out'[1] = "write" /\ out'[2] = p
    BY <2>2
  <2> HIDE DEF e, file
  <2> QED
    BY <1>1, <1>2, <1>7, <2>1, <2>2, <2>3, AssignStep
<1> QED
  BY <1>8, <1>9

-----------------------------------------------------------------------------
(* The specification.                                                      *)

\* Before the first mount there is no table and no message.
LEMMA InitInv == Init => IInv
<1> SUFFICES ASSUME Init PROVE IInv
  OBVIOUS
<1>1. st \in Storages /\ Len(st.files) = 0 /\ st.cap = 0
  BY DEF Init, tg_storage_free, Storages
<1>2. TableInv(st, up)
  BY <1>1 DEF Init, TableInv, DistinctPaths
<1>3. sweep \in [dir : AllPaths, from : Nat] /\ ~Sweeping
  BY DEF Init, NoSweep, AllPaths, Sweeping
<1>4. ProcessInv /\ HandlesBacked
  BY <1>3 DEF Init, ProcessInv, HandlesBacked
<1>5. ClientOK
  <2>1. EmptyJson \in JsonBuffers /\ Legible(EmptyJson)
    BY ReplyCells, 1 \in Nat \ {0}
  <2> QED
    BY <2>1 DEF Init, ClientOK
<1> QED
  BY <1>2, <1>4, <1>5 DEF IInv

\* Every step keeps the invariant and both step properties.
LEMMA NextStep ==
  ASSUME IInv, Next
  PROVE  StepOK
<1>1. CASE Mount
  BY <1>1, MountStep
<1>2. CASE hello_destroy
  BY <1>2, GoneStep, ClientUnchanged DEF hello_destroy, IInv
<1>3. CASE stray_release
  <2>1. Root \in AllPaths
    BY DEF AllPaths
  <2> QED
    BY <1>3, <2>1, LookStep
<1>4. CASE stray_io
  BY <1>4, GoneStep, ClientUnchanged DEF stray_io, IInv
<1>5. CASE rmdir_turn
  BY <1>5, RmdirTurnStep
<1>6. CASE rmdir_return
  BY <1>6, RmdirReturnStep
<1>7. ASSUME NEW p \in AllPaths, hello_getattr(p) \/ hello_readdir(p)
      PROVE  StepOK
  BY <1>7, LookStep
<1>8. ASSUME NEW p \in Paths, Request(p)
      PROVE  StepOK
  <2> p \in AllPaths
    BY DEF AllPaths
  <2>1. CASE hello_create(p)
    BY <2>1, CreateStep
  <2>2. CASE hello_mkdir(p)
    BY <2>2, MkdirStep
  <2>3. CASE hello_unlink(p)
    BY <2>3, UnlinkStep
  <2>4. CASE hello_rmdir(p)
    BY <2>4, BeginRmdirStep
  <2>5. CASE \/ hello_ignored(p) \/ release(p) \/ unlink_open(p)
             \/ \E trunc \in BOOLEAN : hello_open(p, trunc)
    BY <2>5, LookStep
  <2>6. CASE \E range \in Ranges : hello_read(p, range)
    BY <2>6, ReadStep
  <2>7. CASE \E chunk \in Chunks : hello_write(p, chunk)
    BY <2>7, WriteStep
  <2> QED
    BY <1>8, <2>1, <2>2, <2>3, <2>4, <2>5, <2>6, <2>7 DEF Request
<1> QED
  BY <1>1, <1>2, <1>3, <1>4, <1>5, <1>6, <1>7, <1>8 DEF Next

\* A step that changes nothing changes no entry.
LEMMA StutterStep ==
  ASSUME IInv, UNCHANGED vars
  PROVE  IInv'
BY DEF IInv, TableInv, ProcessInv, ClientOK, HandlesBacked, IsFile, Exists,
       Entry, Find, Sweeping, vars, fsVars, clientVars

\* The inductive invariant holds in every state.
LEMMA Invariance == Spec => []IInv
<1>1. Init => IInv
  BY InitInv
<1>2. IInv /\ [Next]_vars => IInv'
  BY NextStep, StutterStep DEF StepOK
<1> QED
  BY <1>1, <1>2, PTL DEF Spec

\* All of the state keeps its type, whatever the network does.
THEOREM TypeCorrect == Spec => []TypeOK
<1>1. IInv => TypeOK
  BY DEF IInv, TableInv, ProcessInv, ClientOK, TypeOK
<1> QED
  BY <1>1, Invariance, PTL

\* The file table has one entry per path, "/" first, inside its allocation.
THEOREM StorageStaysSound == Spec => []StorageSound
<1>1. IInv => StorageSound
  BY DEF IInv, TableInv, ProcessInv, DistinctPaths, StorageSound, UniquePaths,
         RootFirst, FitsCapacity
<1> QED
  BY <1>1, Invariance, PTL

\* An open file has its entry whenever a read or write of it is served.
THEOREM HandlesStayBacked == Spec => []HandlesBacked
<1>1. IInv => HandlesBacked
  BY DEF IInv
<1> QED
  BY <1>1, Invariance, PTL

\* A file with a document has a message to edit and to delete, also after a
\* write that read the ids out of an older answer, or out of one that broke
\* off between the two.
THEOREM DocumentsKeepMessages == Spec => []DocumentsHaveMessages
<1>1. IInv => DocumentsHaveMessages
  BY DEF IInv, TableInv, HasMessage, DocumentsHaveMessages
<1> QED
  BY <1>1, Invariance, PTL

\* No request touches the entry of a file it is not about.
THEOREM FilesStayIndependent == Spec => FilesIndependent
<1>1. IInv /\ [Next]_vars => [KeepsOtherFiles]_vars
  BY NextStep DEF StepOK
<1> QED
  BY <1>1, Invariance, PTL DEF Spec, FilesIndependent

\* No write, and no answer to one, takes the message_id from a file that has
\* one.
THEOREM MessagesStayKnown == Spec => MessageStaysKnown
<1>1. IInv /\ [Next]_vars => [KeepsMessageKnown]_vars
  BY NextStep DEF StepOK
<1> QED
  BY <1>1, Invariance, PTL DEF Spec, MessageStaysKnown

\* Each turn of hello_rmdir's loop that the process survives makes the table
\* smaller, so the loop ends.
THEOREM RmdirTurnsEnd == Spec => RmdirShrinks
<1>1. ASSUME IInv, rmdir_turn, up'
      PROVE  Len(st'.files) < Len(st.files)
  <2>1. up /\ Sweeping /\ NextInDir # 0
    BY <1>1 DEF rmdir_turn
  <2>2. PICK p : p = st.files[NextInDir].path
    OBVIOUS
  <2>3. st \in Storages /\ In(st, p) /\ Len(st.files) \in Nat
    BY <1>1, <2>1, <2>2, FoundInDirectory, StorageShape DEF IInv, TableInv
  <2>4. st' = tg_storage_remove_by_path(st, p)
    BY <1>1, <2>2 DEF rmdir_turn, Gone
  <2>5. Len(st'.files) = Len(st.files) - 1
    BY <2>3, <2>4, RemoveTable DEF In
  <2> QED
    BY <2>3, <2>5
<1>2. IInv /\ [Next]_vars =>
        [rmdir_turn /\ up' => Len(st'.files) < Len(st.files)]_vars
  BY <1>1
<1> QED
  BY <1>2, Invariance, PTL DEF Spec, RmdirShrinks

\* Every call is answered in one piece, granted or refused.
Whole == Faults \subseteq {"refused"}

-----------------------------------------------------------------------------
(* The client when every call is answered.                                 *)

\* The answer is written as it was sent, and a call that was not refused has
\* been carried out.
LEMMA WholeOutcome ==
  ASSUME Whole, NEW o \in Outcomes
  PROVE  /\ o \in {"answered", "refused"}
         /\ ~Failed(o)
         /\ Applied(o) <=> o = "answered"
         /\ o = "refused" => "refused" \in Faults
         /\ \A buf, reply :
              Received(buf, o, reply) = {curl_response_json_writer(buf, reply)}
<1>1. o \in {"answered", "refused"} /\ (o = "refused" => "refused" \in Faults)
  BY DEF Whole, Outcomes
<1>2. ~Failed(o) /\ (Applied(o) <=> o = "answered") /\ o # "split"
  BY <1>1 DEF Failed, Applied
<1> QED
  BY <1>1, <1>2 DEF Received

\* A whole answer starts with "ok", so the parser finds it there, whatever
\* older answer lies behind.
LEMMA StatusRead ==
  ASSUME NEW buf \in JsonBuffers, Legible(buf), NEW reply \in Replies,
         NEW new, new = curl_response_json_writer(buf, reply)
  PROVE  /\ HasField(new, "ok")
         /\ check_ok_status_in_json(new) <=> reply[1].val = OkTrue
<1>1. /\ Len(reply) \in {2, 3}
      /\ reply[1].key = "ok" /\ reply[1].val # Unended
  BY ReplyShape
<1>2. new \in JsonBuffers
  BY WriterBuffer
<1>3. new[1] = reply[1]
  BY <1>1 DEF curl_response_json_writer
<1>4. HasField(new, "ok")
  BY <1>1, <1>3 DEF HasField
<1> DEFINE v == parse_response_field_from_json(Unended, new, "ok")
<1>5. PICK k \in 1 .. 3 :
        /\ v = IF new[k].val = Unended THEN Unended ELSE new[k].val
        /\ \A j \in 1 .. k - 1 : new[j].key # "ok"
  BY <1>2, <1>4, ParsedField, Unended \in Nat DEF Unended
<1>6. k = 1
  BY <1>1, <1>3, <1>5
<1>7. v = reply[1].val
  BY <1>1, <1>3, <1>5, <1>6
<1> QED
  BY <1>4, <1>7 DEF check_ok_status_in_json

\* The first bytes of every answer are its status.
LEMMA ReplyStatus ==
  /\ RefusedReply[1].val # OkTrue
  /\ DeletedReply[1].val = OkTrue
  /\ \A fid : FileReply(fid)[1].val = OkTrue
  /\ \A mid, fid : SentReply(mid, fid)[1].val = OkTrue
BY DEF RefusedReply, DeletedReply, FileReply, SentReply, Cell, OkTrue, OkFalse

\* The answer to an upload fills the buffer, and its ids are those parsed.
LEMMA SentRead ==
  ASSUME NEW buf \in JsonBuffers, Legible(buf),
         NEW mid \in Nat \ {0}, NEW fid \in Nat \ {0},
         NEW new, new = curl_response_json_writer(buf, SentReply(mid, fid))
  PROVE  /\ check_ok_status_in_json(new)
         /\ HasField(new, "ok")
         /\ HasField(new, "message_id") /\ HasField(new, "file_id")
         /\ \A dst \in Nat :
              /\ parse_response_field_from_json(dst, new, "message_id") = mid
              /\ parse_response_field_from_json(dst, new, "file_id") = fid
<1> DEFINE reply == SentReply(mid, fid)
<1>1. reply \in Replies /\ reply[1].val = OkTrue
  BY ReplyCells, ReplyStatus
<1>2. /\ Len(reply) = 3
      /\ reply[1].key = "ok"
      /\ reply[2].key = "message_id" /\ reply[2].val = mid
      /\ reply[3].key = "file_id" /\ reply[3].val = fid
  BY DEF SentReply, Cell
<1> HIDE DEF reply
<1>3. new = curl_response_json_writer(buf, reply)
  BY DEF reply
<1>4. check_ok_status_in_json(new) /\ HasField(new, "ok")
  BY <1>1, <1>3, StatusRead
<1>5. new[1] = reply[1] /\ new[2] = reply[2] /\ new[3] = reply[3]
  BY <1>2, <1>3 DEF curl_response_json_writer
<1>6. HasField(new, "message_id") /\ HasField(new, "file_id")
  BY <1>2, <1>5 DEF HasField
<1>7. new \in JsonBuffers
  BY <1>1, <1>3, WriterBuffer
<1>8. mid # Unended /\ fid # Unended
  BY DEF Unended
<1>9. ASSUME NEW dst \in Nat
      PROVE  parse_response_field_from_json(dst, new, "message_id") = mid
  <2> DEFINE v == parse_response_field_from_json(dst, new, "message_id")
  <2>1. PICK k \in 1 .. 3 :
          /\ new[k].key = "message_id"
          /\ v = IF new[k].val = Unended THEN dst ELSE new[k].val
    BY <1>6, <1>7, ParsedField
  <2> QED
    BY <1>2, <1>5, <1>8, <2>1
<1>10. ASSUME NEW dst \in Nat
       PROVE  parse_response_field_from_json(dst, new, "file_id") = fid
  <2> DEFINE v == parse_response_field_from_json(dst, new, "file_id")
  <2>1. PICK k \in 1 .. 3 :
          /\ new[k].key = "file_id"
          /\ v = IF new[k].val = Unended THEN dst ELSE new[k].val
    BY <1>6, <1>7, ParsedField
  <2> QED
    BY <1>2, <1>5, <1>8, <2>1
<1> QED
  BY <1>4, <1>6, <1>9, <1>10

\* What an upload of data for record f can come to, with r the record then.
PutRefused(f, r) ==
  /\ r = f
  /\ UNCHANGED <<msgs, blobs>>

PutSent(f, data, r) ==
  /\ f.file_id = NoId
  /\ r = [f EXCEPT !.file_id = NewId, !.message_id = NewId]
  /\ blobs' = Append(blobs, data)
  /\ msgs' = msgs \cup {[mid |-> NewId, fid |-> NewId,
                         tag |-> tg_file_extract_directory(f.path)]}

PutEdited(f, data, r) ==
  /\ f.file_id # NoId
  /\ InChannel(f.message_id)
  /\ r = [f EXCEPT !.file_id = NewId]
  /\ blobs' = Append(blobs, data)
  /\ msgs' = {IF m.mid = f.message_id
              THEN [mid |-> m.mid, fid |-> NewId,
                    tag |-> tg_file_extract_directory(f.path)]
              ELSE m : m \in msgs}

PutEffect(f, data, r) ==
  \/ /\ PutRefused(f, r)
     /\ Faults = {} => f.file_id # NoId /\ ~InChannel(f.message_id)
  \/ PutSent(f, data, r)
  \/ PutEdited(f, data, r)

\* A refused upload leaves the record as it was.
LEMMA RefusedPut ==
  ASSUME NEW buf \in JsonBuffers, Legible(buf), NEW f, NEW o,
         ~Failed(o), json' = curl_response_json_writer(buf, RefusedReply)
  PROVE  ~PutAborts(json', f, o) /\ PutRecord(json', f) = f
<1>1. RefusedReply \in Replies
  BY ReplyCells, 1 \in Nat \ {0}
<1>2. HasField(json', "ok") /\ ~check_ok_status_in_json(json')
  BY <1>1, ReplyStatus, StatusRead
<1> QED
  BY <1>2 DEF PutAborts, PutRecord

\* tg_put_file survives its answer, and the record tells what was done.
LEMMA PutWhole ==
  ASSUME Whole, ClientOK, NEW buf \in JsonBuffers, Legible(buf),
         NEW f \in TgFiles, NEW data \in Contents, NEW o \in Outcomes,
         tg_put_file(buf, f, data, o)
  PROVE  ~PutAborts(json', f, o) /\ PutEffect(f, data, PutRecord(json', f))
<1>1. /\ o \in {"answered", "refused"}
      /\ ~Failed(o)
      /\ Applied(o) <=> o = "answered"
      /\ o = "refused" => Faults # {}
      /\ \A b, reply : Received(b, o, reply) = {curl_response_json_writer(b, reply)}
  BY WholeOutcome
<1>a. NoId \in Nat /\ f.message_id \in Nat
  BY DEF TgFiles, NoId
<1>2. PICK n \in Nat \ {0} : n = NewId
  BY FreshId
<1>3. CASE f.file_id = NoId
  <2>1. sendDocument(buf, f, data, o)
    BY <1>3 DEF tg_put_file
  <2>2. CASE o = "answered"
    <3>1. json' = curl_response_json_writer(buf, SentReply(n, n))
      BY <1>1, <1>2, <2>1, <2>2 DEF sendDocument, Answer
    <3>2. /\ check_ok_status_in_json(json') /\ HasField(json', "ok")
          /\ HasField(json', "message_id") /\ HasField(json', "file_id")
          /\ parse_response_field_from_json(f.message_id, json', "message_id") = n
          /\ parse_response_field_from_json(NoId, json', "file_id") = n
      BY <1>a, <3>1, SentRead
    <3>a. /\ ~PutAborts(json', f, o)
          /\ PutRecord(json', f) = [f EXCEPT !.file_id = n, !.message_id = n]
      BY <1>1, <1>3, <3>2 DEF PutAborts, PutRecord
    <3>3. PutSent(f, data, PutRecord(json', f))
      BY <1>1, <1>2, <1>3, <2>1, <2>2, <3>a DEF sendDocument, PutSent
    <3> QED
      BY <3>a, <3>3 DEF PutEffect
  <2>3. CASE o = "refused"
    <3>1. json' = curl_response_json_writer(buf, RefusedReply)
      BY <1>1, <2>1, <2>3 DEF sendDocument, Answer
    <3>2. UNCHANGED <<msgs, blobs>>
      BY <1>1, <2>1, <2>3 DEF sendDocument
    <3>3. ~PutAborts(json', f, o) /\ PutRecord(json', f) = f
      BY <1>1, <3>1, RefusedPut
    <3>4. PutRefused(f, PutRecord(json', f))
      BY <3>2, <3>3 DEF PutRefused
    <3> QED
      BY <1>1, <2>3, <3>3, <3>4 DEF PutEffect
  <2> QED
    BY <1>1, <2>2, <2>3
<1>4. CASE f.file_id # NoId
  <2>1. editMessageMedia(buf, f, data, o)
    BY <1>4 DEF tg_put_file
  <2>2. CASE o = "answered" /\ InChannel(f.message_id)
    <3>1. json' = curl_response_json_writer(buf, SentReply(f.message_id, n))
      BY <1>1, <1>2, <2>1, <2>2 DEF editMessageMedia, Answer
    <3>2. f.message_id \in Nat \ {0}
      BY <2>2 DEF InChannel, ClientOK, Messages, NoId
    <3>a. /\ check_ok_status_in_json(json') /\ HasField(json', "ok")
          /\ HasField(json', "file_id")
          /\ parse_response_field_from_json(NoId, json', "file_id") = n
      BY <1>a, <3>1, <3>2, SentRead
    <3>3. /\ ~PutAborts(json', f, o)
          /\ PutRecord(json', f) = [f EXCEPT !.file_id = n]
      BY <1>1, <1>4, <3>a DEF PutAborts, PutRecord
    <3>4. PutEdited(f, data, PutRecord(json', f))
      BY <1>1, <1>2, <1>4, <2>1, <2>2, <3>3 DEF editMessageMedia, PutEdited
    <3> QED
      BY <3>3, <3>4 DEF PutEffect
  <2>3. CASE ~(o = "answered" /\ InChannel(f.message_id))
    <3>1. json' = curl_response_json_writer(buf, RefusedReply)
      BY <1>1, <2>1, <2>3 DEF editMessageMedia, Answer
    <3>2. UNCHANGED <<msgs, blobs>>
      BY <1>1, <2>1, <2>3 DEF editMessageMedia
    <3>3. ~PutAborts(json', f, o) /\ PutRecord(json', f) = f
      BY <1>1, <3>1, RefusedPut
    <3>4. PutRefused(f, PutRecord(json', f))
      BY <3>2, <3>3 DEF PutRefused
    <3> QED
      BY <1>1, <1>4, <2>3, <3>3, <3>4 DEF PutEffect
  <2> QED
    BY <2>2, <2>3
<1> QED
  BY <1>3, <1>4

\* tg_file_load_contents survives its answer; without refusals it returns the
\* document that the record names.
LEMMA LoadWhole ==
  ASSUME Whole, ClientOK, NEW f \in TgFiles, NEW src \in tg_file_load_contents(f)
  PROVE  /\ src.dies = FALSE
         /\ Faults = {} /\ f.file_id \in 1 .. Len(blobs)
              => src.data = blobs[f.file_id]
<1> DEFINE known == f.file_id \in 1 .. Len(blobs)
<1>1. EmptyJson \in JsonBuffers /\ Legible(EmptyJson)
  BY ReplyCells, 1 \in Nat \ {0}
<1>0. PICK o \in Outcomes :
        \E buf \in GotFile(EmptyJson, f, o) : src \in Loads(buf, o)
  BY DEF tg_file_load_contents
<1>2. PICK buf \in GotFile(EmptyJson, f, o) : src \in Loads(buf, o)
  BY <1>0
<1>3. /\ o \in {"answered", "refused"}
      /\ ~Failed(o)
      /\ o = "refused" => Faults # {}
      /\ \A b, reply : Received(b, o, reply) = {curl_response_json_writer(b, reply)}
  BY WholeOutcome
<1> DEFINE fid == parse_response_field_from_json(NoId, buf, "file_path")
<1>4. CASE o = "answered" /\ known
  <2> DEFINE reply == FileReply(f.file_id)
  <2>1. buf = curl_response_json_writer(EmptyJson, reply)
    BY <1>3, <1>4 DEF GotFile, Answer
  <2>2. f.file_id \in Nat \ {0}
    BY <1>4 DEF ClientOK
  <2>3. reply \in Replies /\ reply[1].val = OkTrue
    BY <2>2, ReplyCells, ReplyStatus
  <2>4. Len(reply) = 3 /\ reply[3].key = "file_path"
    BY DEF FileReply, Cell
  <2> HIDE DEF reply
  <2>5. HasField(buf, "ok") /\ check_ok_status_in_json(buf)
    BY <1>1, <2>1, <2>3, StatusRead
  <2>6. HasField(buf, "file_path")
    BY <2>1, <2>4 DEF curl_response_json_writer, HasField
  <2>7. fid = f.file_id
    BY <1>3, <1>4, FilePath
  <2>8. PICK data \in Fetched(f.file_id) : src = Load(data, buf, FALSE)
    BY <1>2, <1>3, <2>5, <2>6, <2>7 DEF Loads
  <2>9. src.dies = FALSE /\ src.data = data
    BY <2>8 DEF Load
  <2>10. Faults = {} => Fetched(f.file_id) = {blobs[f.file_id]}
    BY DEF Fetched
  <2> QED
    BY <2>8, <2>9, <2>10
<1>5. CASE ~(o = "answered" /\ known)
  <2>1. buf = curl_response_json_writer(EmptyJson, RefusedReply)
    BY <1>3, <1>5 DEF GotFile, Answer
  <2>2. RefusedReply \in Replies
    BY ReplyCells, 1 \in Nat \ {0}
  <2>3. HasField(buf, "ok") /\ ~check_ok_status_in_json(buf)
    BY <1>1, <2>1, <2>2, ReplyStatus, StatusRead
  <2>4. src = Load(<< >>, buf, FALSE)
    BY <1>2, <1>3, <2>3 DEF Loads
  <2> QED
    BY <1>3, <1>5, <2>4 DEF Load
<1> QED
  BY <1>4, <1>5

\* deleteMessage survives its answer.
LEMMA DeleteWhole ==
  ASSUME Whole, ClientOK, NEW f, NEW o \in Outcomes,
         tg_remove_message_with_file(f, o)
  PROVE  /\ ~RemoveAborts(json', o)
         /\ UNCHANGED blobs
         /\ \/ msgs' = {m \in msgs : m.mid # f.message_id}
            \/ Faults # {} /\ msgs' = msgs
<1>1. /\ o \in {"answered", "refused"}
      /\ Applied(o) <=> o = "answered"
      /\ o = "refused" => Faults # {}
      /\ \A b, reply : Received(b, o, reply) = {curl_response_json_writer(b, reply)}
  BY WholeOutcome
<1> DEFINE reply == Answer(o, InChannel(f.message_id), DeletedReply)
<1>2. reply \in {RefusedReply, DeletedReply}
  BY DEF Answer
<1>3. reply \in Replies
  BY <1>2, ReplyCells, 1 \in Nat \ {0}
<1> HIDE DEF reply
<1>4. json' = curl_response_json_writer(json, reply)
  BY <1>1 DEF tg_remove_message_with_file, reply
<1>5. json \in JsonBuffers /\ Legible(json)
  BY DEF ClientOK
<1>6. HasField(json', "ok")
  BY <1>3, <1>4, <1>5, StatusRead
<1> QED
  BY <1>1, <1>6 DEF RemoveAborts, tg_remove_message_with_file

-----------------------------------------------------------------------------
(* What a step does to table and channel when every call is answered.      *)

\* A mount; the end of the process; a step that changes neither table nor
\* channel; a new entry, which has no message yet.
Restarted ==
  /\ ~up /\ up'
  /\ st' = tg_storage_push(tg_storage_new, tg_file_new_dir(Root))
  /\ epoch' = Len(blobs)
  /\ UNCHANGED <<msgs, blobs>>

Ended ==
  /\ ~up' /\ ~stray' /\ st' = tg_storage_free /\ sweep' = NoSweep
  /\ UNCHANGED <<msgs, blobs, epoch>>

Looked ==
  /\ up /\ UNCHANGED <<up, st, msgs, blobs, epoch>>

Added(f) ==
  /\ up /\ up' /\ ~In(st, f.path) /\ Walk(f.path)
  /\ f.type = TG_DIR => Len(f.path) <= MkdirDepth
  /\ f.file_id = NoId /\ f.message_id = NoId /\ f.file_size = 0
  /\ st' = tg_storage_push(st, f)
  /\ UNCHANGED <<msgs, blobs, epoch>>

\* The request at hand is about path p.
Concerns(p) ==
  \/ ~Sweeping /\ out'[1] \in {"write", "unlink"} /\ out'[2] = p
  \/ Sweeping /\ Under(sweep.dir, p)

\* The entry of p goes, and with it its message; refusals apart, only the
\* removed directory itself and files without bytes go without that call.
Dropped(p) ==
  /\ up /\ up' /\ In(st, p) /\ Concerns(p)
  /\ st' = tg_storage_remove_by_path(st, p)
  /\ \/ msgs' = {m \in msgs : m.mid # EntryAt(st, p).message_id}
     \/ /\ msgs' = msgs
        /\ \/ Faults # {}
           \/ EntryAt(st, p).file_size = 0
           \/ Sweeping /\ p = sweep.dir
  /\ UNCHANGED <<blobs, epoch>>

\* The entry of p becomes r, with the size of the data that were uploaded.
Wrote(p, data, r) ==
  /\ up /\ up' /\ In(st, p) /\ ~Sweeping /\ Concerns(p)
  /\ EntryAt(st, p).type = TG_FILE
  /\ PutEffect(EntryAt(st, p), data, r)
  /\ st' = [st EXCEPT !.files[tg_storage_find_by_path(st, p)] =
                        [r EXCEPT !.file_size = Len(data)]]
  /\ UNCHANGED epoch

Effect ==
  \/ Restarted
  \/ Ended
  \/ Looked
  \/ \E f \in TgFiles : Added(f)
  \/ \E p \in Paths : Dropped(p)
  \/ \E p \in Paths, data \in Contents \ {<< >>}, r \in TgFiles :
       r.path = p /\ r.type = TG_FILE /\ Wrote(p, data, r)

\* Only the use of a file in a removed directory answers that the process died.
Survived == out' = out \/ out'[3] # "died" \/ out'[1] = "stray"

\* The data uploaded for a chunk.
LEMMA NewData ==
  ASSUME NEW old \in Contents, NEW chunk \in Chunks,
         NEW data, data = Inserted(old, chunk.off, chunk.data)
  PROVE  /\ data \in Contents \ {<< >>}
         /\ Len(data) \in Nat \ {0}
         /\ Slice(data, chunk.off, Len(chunk.data)) = chunk.data
<1> DEFINE off == chunk.off
           new == chunk.data
           n   == Larger(Len(old), off + Len(new))
<1>1. off \in Nat /\ new \in Seq(Bytes) /\ new # << >> /\ Len(new) \in Nat \ {0}
  BY ChunksAssumption
<1>2. /\ data \in Contents /\ Len(data) = n
      /\ \A k \in 1 .. n :
           data[k] = IF k > off /\ k <= off + Len(new) THEN new[k - off]
                     ELSE IF k <= Len(old) THEN old[k] ELSE Junk
  BY <1>1, InsertedString
<1>3. Len(old) \in Nat /\ n \in Nat /\ n >= off + Len(new)
  BY <1>1 DEF Larger, Contents
<1> HIDE DEF off, new, n
<1>4. Len(data) \in Nat \ {0} /\ data # << >>
  BY <1>1, <1>2, <1>3
<1>5. Slice(data, off, Len(new)) = new
  <2> DEFINE S    == Bytes \cup {Junk}
             part == SubSeq(data, off + 1, off + Len(new))
  <2>1. data \in Seq(S) /\ new \in Seq(S)
    BY <1>1, <1>2 DEF Contents
  <2>2. Slice(data, off, Len(new)) = part
    <3>1. off < Len(data) /\ off + Len(new) <= Len(data)
      BY <1>1, <1>2, <1>3
    <3> QED
      BY <1>1, <1>4, <3>1 DEF Slice
  <2>3. /\ part \in Seq(S) /\ Len(part) = Len(new)
        /\ \A k \in 1 .. Len(new) : part[k] = data[off + k]
    <3>1. off + 1 \in 1 .. Len(data) + 1 /\ off + Len(new) \in off .. Len(data)
      BY <1>1, <1>2, <1>3
    <3>2. \A k \in off + 1 .. off + Len(new) : data[k] \in S
      BY <1>1, <1>2, <1>3, <2>1
    <3> HIDE DEF S
    <3> QED
      BY <1>1, <1>2, <1>3, <2>1, <3>1, <3>2, SubSeqProperties
  <2>4. ASSUME NEW k \in 1 .. Len(new) PROVE part[k] = new[k]
    <3>1. off + k \in 1 .. n /\ off + k > off /\ off + k <= off + Len(new)
          /\ (off + k) - off = k
      BY <1>1, <1>3
    <3>2. data[off + k] = new[(off + k) - off]
      BY <1>2, <3>1
    <3> QED
      BY <2>3, <3>1, <3>2
  <2> HIDE DEF part, S
  <2>5. part = new
    BY <2>1, <2>3, <2>4, SeqEqual
  <2> QED
    BY <2>2, <2>5
<1> QED
  BY <1>2, <1>4, <1>5 DEF off, new

\* hello_write: the upload of the old contents with the chunk in place.
LEMMA WriteWhole ==
  ASSUME Whole, IInv, NEW p \in Paths, NEW chunk \in Chunks,
         hello_write(p, chunk)
  PROVE  \E src \in Original(Entry(p), FALSE), data \in Contents \ {<< >>},
            r \in TgFiles :
           /\ src.data \in Contents
           /\ data = Inserted(src.data, chunk.off, chunk.data)
           /\ r.path = p /\ r.type = TG_FILE
           /\ Wrote(p, data, r)
           /\ out' = <<"write", p, "OK", Len(chunk.data)>>
           /\ UNCHANGED <<up, handles, stray, sweep>>
<1>1. Ready /\ is_open(p)
  BY DEF hello_write
<1>2. /\ In(st, p) /\ Exists(p) /\ st \in Storages
      /\ Entry(p) = EntryAt(st, p) /\ Entry(p) \in TgFiles
      /\ Entry(p).path = p /\ Entry(p).type = TG_FILE
      /\ HasMessage(Entry(p))
  BY <1>1, OpenFile
<1>3. PICK file \in TgFiles : file = Entry(p)
  BY <1>2
<1>4. PICK src \in Original(file, FALSE) :
        IF src.dies THEN TRUE
        ELSE \E o \in Outcomes :
          LET data == Inserted(src.data, chunk.off, chunk.data) IN
          /\ tg_put_file(src.json, file, data, o)
          /\ IF PutAborts(json', file, o) THEN TRUE
             ELSE
               /\ st' = [st EXCEPT !.files[Find(p)] =
                          [PutRecord(json', file) EXCEPT !.file_size = Len(data)]]
               /\ Reply("write", p, "OK", Len(chunk.data))
               /\ UNCHANGED <<up, handles, stray, sweep, epoch>>
  <2>1. TG_FILE # TG_DIR
    BY DEF TG_FILE, TG_DIR
  <2> QED
    BY <1>2, <1>3, <2>1 DEF hello_write
<1>5. /\ src.data \in Contents
      /\ src.json \in JsonBuffers /\ Legible(src.json)
      /\ ~src.dies
  <2>1. CASE file.file_size > 0
    BY <2>1, LoadOK, LoadWhole DEF Original, IInv
  <2>2. CASE ~(file.file_size > 0)
    <3>1. src.data = << >> /\ src.json = json /\ src.dies = FALSE
      BY <2>2 DEF Original, Load
    <3>2. << >> \in Contents
      BY DEF Contents
    <3> QED
      BY <3>1, <3>2 DEF IInv, ClientOK
  <2> QED
    BY <2>1, <2>2
<1>6. PICK data \in Contents \ {<< >>} :
        data = Inserted(src.data, chunk.off, chunk.data)
  BY <1>5, NewData
<1>7. PICK o \in Outcomes :
        /\ tg_put_file(src.json, file, data, o)
        /\ IF PutAborts(json', file, o) THEN TRUE
           ELSE
             /\ st' = [st EXCEPT !.files[Find(p)] =
                        [PutRecord(json', file) EXCEPT !.file_size = Len(data)]]
             /\ Reply("write", p, "OK", Len(chunk.data))
             /\ UNCHANGED <<up, handles, stray, sweep, epoch>>
  BY <1>4, <1>5, <1>6
<1>8. /\ ~PutAborts(json', file, o)
      /\ PutEffect(file, data, PutRecord(json', file))
      /\ PutRecord(json', file) \in TgFiles
      /\ PutRecord(json', file).path = p
      /\ PutRecord(json', file).type = TG_FILE
  <2>1. ClientOK /\ HasMessage(file)
    BY <1>2, <1>3 DEF IInv
  <2>2. ~PutAborts(json', file, o) /\ PutEffect(file, data, PutRecord(json', file))
    BY <1>5, <1>7, <2>1, PutWhole
  <2>3. /\ PutRecord(json', file) \in TgFiles
        /\ PutRecord(json', file).path = file.path
        /\ PutRecord(json', file).type = file.type
    BY <1>5, <1>7, <2>1, <2>2, PutOK
  <2> QED
    BY <1>2, <1>3, <2>2, <2>3
<1>9. /\ st' = [st EXCEPT !.files[tg_storage_find_by_path(st, p)] =
                  [PutRecord(json', file) EXCEPT !.file_size = Len(data)]]
      /\ out' = <<"write", p, "OK", Len(chunk.data)>>
      /\ UNCHANGED <<up, handles, stray, sweep, epoch>>
  BY <1>7, <1>8 DEF Reply, Find
<1>10. out'[1] = "write" /\ out'[2] = p
  BY <1>9
<1>11. PICK r \in TgFiles : r = PutRecord(json', file)
  BY <1>8
<1>12. Wrote(p, data, r)
  BY <1>1, <1>2, <1>3, <1>8, <1>9, <1>10, <1>11 DEF Wrote, Ready, Concerns
<1> QED
  BY <1>3, <1>5, <1>6, <1>8, <1>9, <1>11, <1>12

EffectOK == Effect /\ Survived

\* hello_unlink.
LEMMA UnlinkWhole ==
  ASSUME Whole, IInv, NEW p \in Paths, hello_unlink(p)
  PROVE  /\ Dropped(p)
         /\ st' = tg_storage_remove_by_path(st, p)
         /\ out' = <<"unlink", p, "OK", 0>>
         /\ UNCHANGED <<up, handles, stray, sweep, epoch>>
<1>1. Ready /\ IsFile(p)
  BY DEF hello_unlink
<1>2. In(st, p) /\ Entry(p) = EntryAt(st, p)
  BY <1>1, IsFileEntry DEF Entry, EntryAt, Find
<1>3. PICK f : f = Entry(p)
  OBVIOUS
<1>4. PICK o \in Outcomes :
        /\ tg_remove_message_with_file(f, o)
        /\ IF RemoveAborts(json', o) THEN TRUE
           ELSE
             /\ st' = tg_storage_remove_by_path(st, p)
             /\ Reply("unlink", p, "OK", 0)
             /\ UNCHANGED <<up, handles, stray, sweep, epoch>>
  BY <1>3 DEF hello_unlink, RemovedEntry
<1>5. /\ ~RemoveAborts(json', o)
      /\ UNCHANGED blobs
      /\ \/ msgs' = {m \in msgs : m.mid # f.message_id}
         \/ Faults # {} /\ msgs' = msgs
  BY <1>4, DeleteWhole DEF IInv
<1>6. /\ st' = tg_storage_remove_by_path(st, p)
      /\ out' = <<"unlink", p, "OK", 0>>
      /\ UNCHANGED <<up, handles, stray, sweep, epoch>>
  BY <1>4, <1>5 DEF Reply
<1>7. Concerns(p)
  <2>1. out'[1] = "unlink" /\ out'[2] = p
    BY <1>6
  <2> QED
    BY <1>1, <2>1 DEF Concerns, Ready
<1>8. \/ msgs' = {m \in msgs : m.mid # EntryAt(st, p).message_id}
      \/ Faults # {} /\ msgs' = msgs
  BY <1>2, <1>3, <1>5
<1>9. Dropped(p)
  BY <1>1, <1>2, <1>5, <1>6, <1>7, <1>8 DEF Dropped, Ready
<1> QED
  BY <1>6, <1>9

\* One turn of hello_rmdir's loop.
LEMMA RmdirTurnWhole ==
  ASSUME Whole, IInv, rmdir_turn
  PROVE  \E p \in Paths :
           /\ p = st.files[NextInDir].path
           /\ Dropped(p)
           /\ Under(sweep.dir, p) /\ p # sweep.dir
           /\ tg_file_extract_directory(p) = sweep.dir
           /\ sweep' = [sweep EXCEPT !.from = NextInDir + 1]
           /\ UNCHANGED <<up, handles, stray, out, epoch>>
<1>1. up /\ Sweeping /\ NextInDir # 0
  BY DEF rmdir_turn
<1>2. /\ NextInDir \in 1 .. Len(st.files)
      /\ st.files[NextInDir] \in TgFiles /\ st.files[NextInDir].path \in Paths
      /\ Under(sweep.dir, st.files[NextInDir].path)
      /\ In(st, st.files[NextInDir].path)
  BY <1>1, FoundInDirectory
<1>3. PICK file \in TgFiles : file = st.files[NextInDir]
  BY <1>2
<1>4. PICK p \in Paths : p = file.path
  BY <1>2, <1>3
<1>5. Concerns(p) /\ In(st, p) /\ EntryAt(st, p) = file
  <2>1. st \in Storages /\ DistinctPaths(st)
    BY DEF IInv, TableInv
  <2>2. PICK k \in 1 .. Len(st.files) : k = NextInDir
    BY <1>2
  <2>3. EntryAt(st, p) = st.files[k]
    BY <1>3, <1>4, <2>1, <2>2, EntryOfPath
  <2> QED
    BY <1>1, <1>2, <1>3, <1>4, <2>2, <2>3 DEF Concerns
<1>6. p # sweep.dir /\ tg_file_extract_directory(p) = sweep.dir
  <2> DEFINE P == {k \in InDirectory(st, sweep.dir) : k >= sweep.from}
  <2>1. P \in SUBSET (Nat \ {0}) /\ NextInDir = FirstOf(P)
    <3>1. Len(st.files) \in Nat
      BY StorageShape DEF IInv, TableInv
    <3> QED
      BY <3>1 DEF InDirectory, NextInDir, tg_storage_find_files_by_dir
  <2>2. NextInDir \in P
    BY <1>1, <2>1, FirstOfLowest
  <2> QED
    BY <1>3, <1>4, <2>2 DEF InDirectory
<1>7. /\ st' = tg_storage_remove_by_path(st, p)
      /\ sweep' = [sweep EXCEPT !.from = NextInDir + 1]
      /\ UNCHANGED <<up, handles, stray, out, epoch>>
      /\ UNCHANGED blobs
      /\ \/ msgs' = {m \in msgs : m.mid # file.message_id}
         \/ msgs' = msgs /\ (Faults # {} \/ file.file_size = 0)
  <2>1. CASE file.file_size > 0
    <3>1. PICK o \in Outcomes :
            /\ tg_remove_message_with_file(file, o)
            /\ \/ RemoveAborts(json', o)
               \/ /\ st' = tg_storage_remove_by_path(st, p)
                  /\ sweep' = [sweep EXCEPT !.from = NextInDir + 1]
                  /\ UNCHANGED <<up, handles, stray, out, epoch>>
      BY <1>3, <1>4, <2>1 DEF rmdir_turn
    <3>2. /\ ~RemoveAborts(json', o)
          /\ UNCHANGED blobs
          /\ \/ msgs' = {m \in msgs : m.mid # file.message_id}
             \/ Faults # {} /\ msgs' = msgs
      BY <3>1, DeleteWhole DEF IInv
    <3> QED
      BY <3>1, <3>2
  <2>2. CASE ~(file.file_size > 0)
    <3>1. file.file_size = 0
      BY <2>2 DEF TgFiles
    <3> QED
      BY <1>3, <1>4, <2>2, <3>1 DEF rmdir_turn, clientVars
  <2> QED
    BY <2>1, <2>2
<1>8. Dropped(p)
  BY <1>1, <1>5, <1>7 DEF Dropped
<1> QED
  BY <1>2, <1>3, <1>4, <1>6, <1>7, <1>8

\* hello_rmdir's return.
LEMMA RmdirReturnWhole ==
  ASSUME IInv, rmdir_return
  PROVE  Looked \/ Dropped(sweep.dir)
<1>1. /\ up /\ Sweeping
      /\ st' = tg_storage_remove_by_path(st, sweep.dir)
      /\ UNCHANGED <<up, epoch, clientVars>>
  BY DEF rmdir_return
<1>2. sweep.dir \in Paths /\ Under(sweep.dir, sweep.dir)
  BY <1>1, UnderItself DEF IInv, ProcessInv
<1>3. CASE In(st, sweep.dir)
  BY <1>1, <1>2, <1>3 DEF Dropped, Concerns, clientVars
<1>4. CASE ~In(st, sweep.dir)
  <2>1. st' = st
    BY <1>1, <1>4 DEF tg_storage_remove_by_path, In
  <2> QED
    BY <1>1, <2>1 DEF Looked, clientVars
<1> QED
  BY <1>3, <1>4

\* hello_read.
LEMMA ReadWhole ==
  ASSUME Whole, IInv, NEW p \in Paths, NEW range \in Ranges,
         hello_read(p, range)
  PROVE  /\ Looked
         /\ UNCHANGED <<handles, stray, sweep>>
         /\ out'[3] # "died"
<1>1. Ready /\ is_open(p) /\ UNCHANGED <<msgs, blobs>>
  BY DEF hello_read
<1>2. Exists(p) /\ Entry(p) \in TgFiles
  BY <1>1, OpenFile
<1>3. CASE Entry(p).file_id = NoId
  <2>1. /\ out' = <<"read", p, "OK", << >> >>
        /\ UNCHANGED <<up, st, handles, stray, sweep, epoch>>
    BY <1>2, <1>3 DEF hello_read, Reply
  <2> QED
    BY <1>1, <2>1 DEF Looked, Ready
<1>4. CASE Entry(p).file_id # NoId
  <2>1. PICK f \in TgFiles : f = Entry(p)
    BY <1>2
  <2>2. PICK src \in tg_file_load_contents(f) :
          IF src.dies THEN TRUE
          ELSE /\ \/ out' = <<"read", p, "ENOENT", << >> >>
                  \/ out' = <<"read", p, "OK",
                              Slice(src.data, range.off, range.size)>>
               /\ UNCHANGED <<up, st, handles, stray, sweep, epoch>>
    BY <1>2, <1>4, <2>1 DEF hello_read, Reply
  <2>3. src.dies = FALSE
    BY LoadWhole DEF IInv
  <2>4. UNCHANGED <<up, st, handles, stray, sweep, epoch>>
    BY <2>2, <2>3
  <2>5. \E error, value :
          out' = <<"read", p, error, value>> /\ error \in {"OK", "ENOENT"}
    BY <2>2, <2>3
  <2>6. out'[3] # "died"
    BY <2>5
  <2> QED
    BY <1>1, <2>4, <2>6 DEF Looked, Ready
<1> QED
  BY <1>3, <1>4

\* Every step has one of the effects, and none but stray_io kills.
LEMMA NextEffect ==
  ASSUME Whole, IInv, Next
  PROVE  EffectOK
<1>1. CASE Mount
  <2>1. out' = <<"mount", Root, "OK", 0>>
    BY <1>1 DEF Mount, Reply
  <2> QED
    BY <1>1, <2>1 DEF Mount, Restarted, Effect, Survived, EffectOK
<1>2. CASE hello_destroy
  <2>1. out' = <<"destroy", Root, "OK", 0>>
    BY <1>2 DEF hello_destroy, Reply
  <2> QED
    BY <1>2, <2>1 DEF hello_destroy, Gone, clientVars, Ended, Effect, Survived, EffectOK
<1>3. CASE stray_io
  <2>1. out' = <<"stray", Root, "died", 0>>
    BY <1>3 DEF stray_io, Reply
  <2> QED
    BY <1>3, <2>1 DEF stray_io, Gone, clientVars, Ended, Effect, Survived, EffectOK
<1>4. CASE stray_release
  <2>1. out' = <<"ack", Root, "OK", 0>>
    BY <1>4 DEF stray_release, Acknowledge, Reply
  <2> QED
    BY <1>4, <2>1 DEF stray_release, Ready, clientVars, Looked, Effect, Survived, EffectOK
<1>5. CASE rmdir_turn
  BY <1>5, RmdirTurnWhole DEF Effect, Survived, EffectOK
<1>6. CASE rmdir_return
  <2>1. out' = <<"rmdir", sweep.dir, "OK", 0>>
    BY <1>6 DEF rmdir_return, Reply
  <2>2. sweep.dir \in Paths
    BY <1>6 DEF rmdir_return, IInv, ProcessInv
  <2>3. Effect
    BY <1>6, <2>2, RmdirReturnWhole DEF Effect
  <2> QED
    BY <2>1, <2>3 DEF Survived, EffectOK
<1>7. ASSUME NEW p \in AllPaths, hello_getattr(p) \/ hello_readdir(p)
      PROVE  EffectOK
  <2>1. Looked
    BY <1>7 DEF hello_getattr, hello_readdir, Ready, clientVars, Looked
  <2>2. \E op, error, value :
          out' = <<op, p, error, value>> /\ error \in {"OK", "ENOENT"}
    BY <1>7 DEF hello_getattr, hello_readdir, Reply
  <2>3. out'[3] # "died"
    BY <2>2
  <2> QED
    BY <2>1, <2>3 DEF Effect, Survived, EffectOK
<1>8. ASSUME NEW p \in Paths, Request(p)
      PROVE  EffectOK
  <2>1. CASE hello_create(p)
    <3> DEFINE f == tg_file_new_file(p, 0)
    <3>1. /\ f \in TgFiles /\ f.path = p /\ f.type # TG_DIR
          /\ f.file_id = NoId /\ f.message_id = NoId /\ f.file_size = 0
      BY DEF tg_file_new_file, TgFiles, NoId, TG_FILE, TG_DIR
    <3>2. out' = <<"create", p, "OK", 0>>
      BY <2>1 DEF hello_create, Reply
    <3>3. /\ up /\ up' /\ ~In(st, p) /\ Walk(p) /\ st' = tg_storage_push(st, f)
          /\ UNCHANGED <<msgs, blobs, epoch>>
      BY <2>1 DEF hello_create, Ready, clientVars, Exists, Find, In
    <3> HIDE DEF f
    <3>4. Added(f)
      BY <3>1, <3>3 DEF Added
    <3> QED
      BY <3>1, <3>2, <3>4 DEF Effect, Survived, EffectOK
  <2>2. CASE hello_mkdir(p)
    <3> DEFINE f == tg_file_new_dir(p)
    <3>1. /\ f \in TgFiles /\ f.path = p
          /\ f.file_id = NoId /\ f.message_id = NoId /\ f.file_size = 0
      BY DEF tg_file_new_dir, TgFiles, NoId
    <3>2. out' = <<"mkdir", p, "OK", 0>>
      BY <2>2 DEF hello_mkdir, Reply
    <3>3. /\ up /\ up' /\ ~In(st, p) /\ Walk(p) /\ Len(p) <= MkdirDepth
          /\ st' = tg_storage_push(st, f)
          /\ UNCHANGED <<msgs, blobs, epoch>>
      BY <2>2 DEF hello_mkdir, Ready, clientVars, Exists, Find, In
    <3> HIDE DEF f
    <3>4. Added(f)
      BY <3>1, <3>3 DEF Added
    <3> QED
      BY <3>1, <3>2, <3>4 DEF Effect, Survived, EffectOK
  <2>3. CASE hello_unlink(p)
    <3>1. Dropped(p) /\ out' = <<"unlink", p, "OK", 0>>
      BY <2>3, UnlinkWhole
    <3> QED
      BY <3>1 DEF Effect, Survived, EffectOK
  <2>4. CASE hello_rmdir(p)
    BY <2>4 DEF hello_rmdir, Ready, clientVars, Looked, Effect, Survived, EffectOK
  <2>5. CASE \/ hello_ignored(p) \/ release(p) \/ unlink_open(p)
             \/ \E trunc \in BOOLEAN : hello_open(p, trunc)
    <3>1. Looked
      BY <2>5 DEF hello_ignored, release, unlink_open, hello_open, Ready, clientVars, Looked
    <3>2. \E op, q, error :
            out' = <<op, q, error, 0>> /\ error \in {"OK", "ENOSYS"}
      BY <2>5 DEF hello_ignored, release, unlink_open, hello_open, Acknowledge, Reply
    <3>3. out'[3] # "died"
      BY <3>2
    <3> QED
      BY <3>1, <3>3 DEF Effect, Survived, EffectOK
  <2>6. CASE \E range \in Ranges : hello_read(p, range)
    BY <2>6, ReadWhole DEF Effect, Survived, EffectOK
  <2>7. CASE \E chunk \in Chunks : hello_write(p, chunk)
    <3>1. PICK chunk \in Chunks : hello_write(p, chunk)
      BY <2>7
    <3>2. PICK data \in Contents \ {<< >>}, r \in TgFiles :
            /\ r.path = p /\ r.type = TG_FILE /\ Wrote(p, data, r)
            /\ out' = <<"write", p, "OK", Len(chunk.data)>>
      BY <3>1, WriteWhole
    <3>3. Effect
      BY <3>2 DEF Effect
    <3> QED
      BY <3>2, <3>3 DEF Survived, EffectOK
  <2> QED
    BY <1>8, <2>1, <2>2, <2>3, <2>4, <2>5, <2>6, <2>7 DEF Request
<1> QED
  BY <1>1, <1>2, <1>3, <1>4, <1>5, <1>6, <1>7, <1>8 DEF Next
=============================================================================

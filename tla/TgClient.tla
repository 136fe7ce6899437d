------------------------------ MODULE TgClient ------------------------------
(***************************************************************************)
(* The Bot API client of src/tg_file.c with the JSON helpers of            *)
(* src/buffer.c, and the Telegram channel it talks to (external).          *)
(*                                                                         *)
(* Every answer lands in the static json_response_buf.  The writer copies  *)
(* an answer over the start of the buffer and leaves the rest of an older, *)
(* longer answer in place, so the buffer is a row of three cells, each     *)
(* holding the one field that the bytes there spell:                       *)
(*                                                                         *)
(*     sendDocument, editMessageMedia   ok | message_id | file_id          *)
(*     getFile                          ok | file_id    | file_path        *)
(*     deleteMessage                    ok | (other)                       *)
(*     a refusal                        ok | (other)                       *)
(*                                                                         *)
(* The two short answers end inside the second cell and spoil its key.     *)
(* When curl fails, an answer may break off anywhere: what had come of it  *)
(* is in the buffer, and the value it broke off in may lack its end.       *)
(***************************************************************************)
EXTENDS TgFile, FiniteSetsExt

CONSTANT Faults   \* what may go wrong with a call, a subset of FaultKinds

\* refused: the API answers "ok":false and does nothing;
\* lost:    curl fails and the API has not carried the request out;
\* late:    curl fails after the API has carried the request out;
\* split:   the request is carried out and curl hands the answer to the
\*          writer in two pieces, cut behind the "ok" field.
FaultKinds == {"refused", "lost", "late", "split"}

ASSUME FaultsAssumption == Faults \subseteq FaultKinds

VARIABLES
  msgs,   \* the channel: its messages, each with its document and its tag
  blobs,  \* every document uploaded so far; a file_id is a position in it
  json    \* json_response_buf

clientVars == <<msgs, blobs, json>>

Messages == [mid : Nat, fid : Nat, tag : Seq(Names)]

Outcomes == {"answered"} \cup Faults

-----------------------------------------------------------------------------
(* json_response_buf and its parser.                                       *)

Keys == {"none", "ok", "message_id", "file_id", "file_path", "other"}

\* The value of a cell with no ',' or '}' from its key to the end of the
\* buffer: an answer broke off in it, or nothing was ever written there.
Unended == 0

Cell(key, val) == [key |-> key, val |-> val]

JsonBuffers == [1 .. 3 -> [key : Keys, val : Nat]]

EmptyJson == [k \in 1 .. 3 |-> Cell("none", Unended)]

\* The values of "ok".
OkTrue  == 1
OkFalse == 2

SentReply(mid, fid) ==
  <<Cell("ok", OkTrue), Cell("message_id", mid), Cell("file_id", fid)>>

FileReply(fid) ==
  <<Cell("ok", OkTrue), Cell("file_id", fid), Cell("file_path", fid)>>

Other == Cell("other", 1)

DeletedReply == <<Cell("ok", OkTrue), Other>>

RefusedReply == <<Cell("ok", OkFalse), Other>>

\* memcpy to the start of the buffer, nothing behind it cleared.
curl_response_json_writer(buf, reply) ==
  [k \in 1 .. 3 |-> IF k <= Len(reply) THEN reply[k] ELSE buf[k]]

\* strstr finds the field; without it the parser reads through NULL.
HasField(buf, field) == \E k \in 1 .. 3 : buf[k].key = field

\* A value without an end is not copied, and no caller minds the result.
parse_response_field_from_json(dst, buf, field) ==
  LET val == buf[Min({k \in 1 .. 3 : buf[k].key = field})].val
  IN  IF val = Unended THEN dst ELSE val

\* Mutant: the value of "ok" is not looked at.
AnyStatusInJson(buf) == HasField(buf, "ok")

check_ok_status_in_json(buf) ==
  /\ HasField(buf, "ok")
  /\ parse_response_field_from_json(Unended, buf, "ok") = OkTrue

\* curl_easy_perform returns an error.
Failed(o) == o \in {"lost", "late"}

\* What the API sends; a request it does not grant is refused.
Answer(o, granted, reply) ==
  IF o \in {"refused", "lost"} \/ ~granted THEN RefusedReply ELSE reply

\* A cell in which an answer broke off.  Where no older answer ended a value
\* the new one has no end; over another field the key is spoilt.
Broken(old, new) ==
  {old, new}
    \cup (IF old.val = Unended THEN {Cell(new.key, Unended)}
          ELSE IF old.key # new.key THEN {Other} ELSE {})

\* The buffer after an answer that broke off in its n-th cell, for some n;
\* nothing may have come of it, or everything.
BrokenOff(buf, reply) ==
  UNION {{curl_response_json_writer(buf, Append(SubSeq(reply, 1, n - 1), cell)) :
            cell \in Broken(buf[n], reply[n])} : n \in 1 .. Len(reply)}

\* The buffer after curl_easy_perform.  The second piece of a split answer
\* overwrites the first.
Received(buf, o, reply) ==
  IF Failed(o) THEN BrokenOff(buf, reply)
  ELSE IF o = "split"
  THEN {curl_response_json_writer(curl_response_json_writer(buf, <<reply[1]>>),
                                  Tail(reply))}
  ELSE {curl_response_json_writer(buf, reply)}

-----------------------------------------------------------------------------
(* The channel.  Ids are drawn from one counter and never reused.          *)

NewId == Len(blobs) + 1

InChannel(mid) == \E m \in msgs : m.mid = mid

Applied(o) == o \in {"answered", "late", "split"}

sendDocument(buf, f, data, o) ==
  /\ IF Applied(o)
     THEN /\ blobs' = Append(blobs, data)
          /\ msgs' = msgs \cup
               {[mid |-> NewId, fid |-> NewId,
                 tag |-> tg_file_extract_directory(f.path)]}
     ELSE UNCHANGED <<msgs, blobs>>
  /\ json' \in Received(buf, o, Answer(o, TRUE, SentReply(NewId, NewId)))

editMessageMedia(buf, f, data, o) ==
  /\ IF Applied(o) /\ InChannel(f.message_id)
     THEN /\ blobs' = Append(blobs, data)
          /\ msgs' = {IF m.mid = f.message_id
                      THEN [mid |-> m.mid, fid |-> NewId,
                            tag |-> tg_file_extract_directory(f.path)]
                      ELSE m : m \in msgs}
     ELSE UNCHANGED <<msgs, blobs>>
  /\ json' \in Received(buf, o, Answer(o, InChannel(f.message_id),
                                       SentReply(f.message_id, NewId)))

-----------------------------------------------------------------------------
(* The three calls of src/tg_file.c.                                       *)

\* The request: a new message, or a new document in the file's message.
tg_put_file(buf, f, data, o) ==
  IF f.file_id = NoId THEN sendDocument(buf, f, data, o)
                      ELSE editMessageMedia(buf, f, data, o)

\* After the request, with buf the response buffer.  A failed edit is an
\* assertion.  A failed sendDocument is not noticed: the buffer is parsed
\* whatever it holds, and a field that is not there is fatal.
PutAborts(buf, f, o) ==
  \/ f.file_id # NoId /\ Failed(o)
  \/ ~HasField(buf, "ok")
  \/ /\ check_ok_status_in_json(buf)
     /\ \/ ~HasField(buf, "file_id")
        \/ f.file_id = NoId /\ ~HasField(buf, "message_id")

\* Mutants: an edit clears message_id instead of file_id; a first upload does
\* not record its message; an edit does not record its document; file_id is
\* cleared before the answer is looked at.
PutClearsMessage(buf, f) ==
  LET fid == parse_response_field_from_json(NoId, buf, "file_id")
      mid == parse_response_field_from_json(f.message_id, buf, "message_id")
  IN  IF ~check_ok_status_in_json(buf) THEN f
      ELSE IF f.file_id = NoId
           THEN [f EXCEPT !.file_id = fid, !.message_id = mid]
           ELSE [f EXCEPT !.file_id = fid, !.message_id = NoId]
PutForgetsMessage(buf, f) ==
  IF ~check_ok_status_in_json(buf) THEN f
  ELSE [f EXCEPT !.file_id =
                   parse_response_field_from_json(NoId, buf, "file_id")]
PutForgetsDocument(buf, f) ==
  LET fid == parse_response_field_from_json(NoId, buf, "file_id")
      mid == parse_response_field_from_json(f.message_id, buf, "message_id")
  IN  IF check_ok_status_in_json(buf) /\ f.file_id = NoId
      THEN [f EXCEPT !.file_id = fid, !.message_id = mid]
      ELSE f
PutClearsEarly(buf, f) ==
  LET fid == parse_response_field_from_json(NoId, buf, "file_id")
      mid == parse_response_field_from_json(f.message_id, buf, "message_id")
  IN  IF ~check_ok_status_in_json(buf) THEN [f EXCEPT !.file_id = NoId]
      ELSE IF f.file_id = NoId
           THEN [f EXCEPT !.file_id = fid, !.message_id = mid]
           ELSE [f EXCEPT !.file_id = fid]

\* The tg_file record when tg_put_file returns.  file_id is empty before it
\* is parsed; message_id may be that of an upload whose file_id did not come.
PutRecord(buf, f) ==
  LET fid == parse_response_field_from_json(NoId, buf, "file_id")
      mid == parse_response_field_from_json(f.message_id, buf, "message_id")
  IN  IF ~check_ok_status_in_json(buf) THEN f
      ELSE IF f.file_id = NoId
           THEN [f EXCEPT !.file_id = fid, !.message_id = mid]
           ELSE [f EXCEPT !.file_id = fid]

\* What the transfer of a stored document may leave in the buffer: all of it,
\* a part of it if the transfer breaks off, or the body of an error page.
Fetched(fid) ==
  {blobs[fid]}
    \cup (IF \A o \in Faults : ~Failed(o) THEN {}
          ELSE {SubSeq(blobs[fid], 1, n) : n \in 0 .. Len(blobs[fid])})
    \cup (IF "refused" \in Faults THEN {<<Junk>>} ELSE {})

\* The response buffers that getFile may leave.
GotFile(buf, f, o) ==
  Received(buf, o, Answer(o, f.file_id \in 1 .. Len(blobs),
                          FileReply(f.file_id)))

\* A result of tg_file_load_contents: the data, the response buffer, and
\* whether the process dies instead, for a field that is not there.
Load(data, buf, dies) == [data |-> data, json |-> buf, dies |-> dies]

\* The possible results, with buf the response buffer.
Loads(buf, o) ==
  IF Failed(o) THEN {Load(<< >>, buf, FALSE)}
  ELSE IF ~HasField(buf, "ok") THEN {Load(<< >>, buf, TRUE)}
  ELSE IF ~check_ok_status_in_json(buf) THEN {Load(<< >>, buf, FALSE)}
  ELSE IF ~HasField(buf, "file_path") THEN {Load(<< >>, buf, TRUE)}
  ELSE LET file_path == parse_response_field_from_json(NoId, buf, "file_path")
       IN  {Load(data, buf, FALSE) : data \in Fetched(file_path)}

\* The whole call, which clears the response buffer first.
tg_file_load_contents(f) ==
  UNION {UNION {Loads(buf, o) : buf \in GotFile(EmptyJson, f, o)} :
           o \in Outcomes}

\* deleteMessage; whatever comes back, the caller is told 0.
tg_remove_message_with_file(f, o) ==
  /\ msgs' = IF Applied(o) THEN {m \in msgs : m.mid # f.message_id} ELSE msgs
  /\ json' \in Received(json, o,
                        Answer(o, InChannel(f.message_id), DeletedReply))
  /\ UNCHANGED blobs

\* The check of the answer to deleteMessage is fatal without an "ok".
RemoveAborts(buf, o) == ~Failed(o) /\ ~HasField(buf, "ok")
=============================================================================

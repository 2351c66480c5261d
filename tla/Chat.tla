--------------------------------- MODULE Chat ---------------------------------
(***************************************************************************)
(* The private line between the owner of the site and one guest            *)
(* (modules/chat): messages numbered in memory, files that are uploaded    *)
(* first and sent later, the hourly removal of files nobody sent, and the  *)
(* event stream.                                                           *)
(*                                                                         *)
(* One process serves all requests; a handler may be overtaken at every    *)
(* await.  Left out: who may talk (both may), texts, links, typing, read   *)
(* receipts, presence, the time of the last message and rate limits.       *)
(*                                                                         *)
(* A BadX is X with a plausible bug.  What other modules have too is named *)
(* for this one: ChatSpec, ChatInit.                                       *)
(***************************************************************************)
EXTENDS Integers, FiniteSets

CONSTANTS
  Requests,     \* handlers that may overlap
  Viewers,      \* open pages
  Files,        \* uploads
  NoFile,
  PerTick,      \* numbers per tick of the clock (1000 in the code)
  PageSize,     \* messages per page (30 in the code)
  OrphanTtl,    \* age at which an unsent file is removed (48 hours)
  MaxMessages,  \* bound on messages
  MaxClock,     \* bound on the clock
  MaxCrashes    \* bound on crashes

ASSUME ChatAssumption ==
  /\ NoFile \notin Files
  /\ {PerTick, PageSize, OrphanTtl, MaxMessages, MaxClock} \subseteq Nat \ {0}
  /\ MaxCrashes \in Nat

VARIABLES
  messages,     \* chat_messages
  attachments,  \* chat_attachments: the row of each file
  disk,         \* files that are there
  lastSeq,      \* the numbering, in memory
  resumed,      \* the numbering was taken up after the start
  req,          \* the handlers
  cleaning,     \* cleanupOrphans
  viewer,       \* what each page has loaded and was sent
  clock,
  crashes,
  issued,       \* messages so far; the id of the latest
  published,    \* messages that went to the streams
  answered,     \* the highest number that was answered
  overdue,      \* files that were old enough to be removed, at some time
  promised      \* files of answered messages that were not yet
tables == <<messages, attachments, disk>>
ghosts == <<issued, published, answered, overdue, promised>>
chatVars == <<tables, lastSeq, resumed, req, cleaning, viewer, clock, crashes, ghosts>>

Ids == 1..MaxMessages
Unsent == 0
Message == [id: Ids, seq: Nat, file: Files \cup {NoFile}]
Attachment == [there: BOOLEAN, message: Ids \cup {Unsent}, created: Nat]
FileRow(there, message, created) == [there |-> there, message |-> message, created |-> created]
NoRow == FileRow(FALSE, Unsent, 0)
Request == [at: {"idle", "register", "number", "insert", "bind", "publish"},
            file: Files \cup {NoFile}, row: Attachment, id: Ids \cup {0},
            seq: Nat, after: Nat]
Free == [at |-> "idle", file |-> NoFile, row |-> NoRow, id |-> 0, seq |-> 0, after |-> 0]
Page(at, before, shown) == [at |-> at, before |-> before, shown |-> shown]
Away == Page("away", 0, {})

(* Handler r goes on at another step. *)
Goes(r, at) == [at |-> at, file |-> r.file, row |-> r.row, id |-> r.id, seq |-> r.seq,
                after |-> r.after]

AtRest == [todo |-> {}, file |-> NoFile]

-----------------------------------------------------------------------------
(* registerUpload: the file is moved into the thread's directory, then its row
   is saved. *)

MoveFile(q, f) ==
  /\ resumed /\ req[q].at = "idle"
  /\ f \notin disk /\ attachments[f] = NoRow
  /\ \A p \in Requests : req[p].file # f
  /\ disk' = disk \cup {f}
  /\ req' = [req EXCEPT ![q] = [at |-> "register", file |-> f, row |-> NoRow, id |-> 0,
                                seq |-> 0, after |-> 0]]
  /\ UNCHANGED <<messages, attachments, lastSeq, resumed, cleaning, viewer, clock,
                 crashes, ghosts>>

Register(q) ==
  /\ req[q].at = "register"
  /\ attachments' = [attachments EXCEPT ![req[q].file] =
                       FileRow(TRUE, Unsent, clock)]
  /\ req' = [req EXCEPT ![q] = Free]
  /\ UNCHANGED <<messages, disk, lastSeq, resumed, cleaning, viewer, clock, crashes, ghosts>>

-----------------------------------------------------------------------------
(* send: a file must not have been sent before. *)

BeginSend(q, f) ==
  /\ resumed /\ req[q].at = "idle"
  /\ f # NoFile => attachments[f].there /\ attachments[f].message = Unsent
  /\ req' = [req EXCEPT ![q] =
               [at |-> "number", file |-> f, id |-> 0, seq |-> 0, after |-> answered,
                row |-> IF f = NoFile THEN NoRow ELSE attachments[f]]]
  /\ UNCHANGED <<tables, lastSeq, resumed, cleaning, viewer, clock, crashes, ghosts>>

(* nextSeq: microseconds, or one more than the last. *)
NextSeq == IF clock * PerTick > lastSeq THEN clock * PerTick ELSE lastSeq + 1

Number(q) ==
  /\ req[q].at = "number" /\ issued < MaxMessages
  /\ lastSeq' = NextSeq
  /\ issued' = issued + 1
  /\ req' = [req EXCEPT ![q] = [at |-> "insert", file |-> @.file, row |-> @.row,
                                id |-> issued + 1, seq |-> NextSeq, after |-> @.after]]
  /\ UNCHANGED <<tables, resumed, cleaning, viewer, clock, crashes, published, answered,
                 overdue, promised>>

InsertMessage(q) ==
  /\ req[q].at = "insert"
  /\ messages' = messages \cup {[id |-> req[q].id, seq |-> req[q].seq, file |-> req[q].file]}
  /\ req' = [req EXCEPT ![q] = Goes(@, IF @.file = NoFile THEN "publish" ELSE "bind")]
  /\ UNCHANGED <<attachments, disk, lastSeq, resumed, cleaning, viewer, clock, crashes, ghosts>>

(* The copy that was read is saved whole, as a new row if there is none. *)
Bind(q) ==
  /\ req[q].at = "bind"
  /\ attachments' = [attachments EXCEPT ![req[q].file] =
                       FileRow(TRUE, req[q].id, req[q].row.created)]
  /\ req' = [req EXCEPT ![q] = Goes(@, "publish")]
  /\ UNCHANGED <<messages, disk, lastSeq, resumed, cleaning, viewer, clock, crashes, ghosts>>

(* publish writes to every stream of the thread; then send answers. *)
Publish(q) ==
  /\ req[q].at = "publish"
  /\ viewer' = [v \in Viewers |->
                  IF viewer[v].at = "away" THEN viewer[v]
                  ELSE Page(viewer[v].at, viewer[v].before, viewer[v].shown \cup {req[q].id})]
  /\ published' = published \cup {req[q].id}
  /\ answered' = IF req[q].seq > answered THEN req[q].seq ELSE answered
  /\ promised' = promised \cup ({req[q].file} \ ({NoFile} \cup overdue))
  /\ req' = [req EXCEPT ![q] = Free]
  /\ UNCHANGED <<tables, lastSeq, resumed, cleaning, clock, crashes, issued, overdue>>

(* A statement fails, or the connection does: the handler ends with an error,
   and what it has done stays. *)
Fail(q) ==
  /\ req[q].at # "idle"
  /\ req' = [req EXCEPT ![q] = Free]
  /\ UNCHANGED <<tables, lastSeq, resumed, cleaning, viewer, clock, crashes, ghosts>>

-----------------------------------------------------------------------------
(* A page opens its stream and then loads the messages page by page, from the
   newest back; the cursor is the oldest message it has. *)

Subscribe(v) ==
  /\ resumed /\ viewer[v].at = "away"
  /\ viewer' = [viewer EXCEPT ![v] = Page("first", 0, {})]
  /\ UNCHANGED <<tables, lastSeq, resumed, req, cleaning, clock, crashes, ghosts>>

BadEarlier(before) ==
  {m \in messages : \A b \in messages : b.id = before => m.seq < b.seq - 1}

(* What listMessages pages from: everything, or what is strictly earlier than
   the cursor. *)
Earlier(before) ==
  {m \in messages : \A b \in messages : b.id = before => m.seq < b.seq}

Newest(rows) ==
  {page \in SUBSET rows :
     /\ Cardinality(page) = IF Cardinality(rows) < PageSize THEN Cardinality(rows) ELSE PageSize
     /\ \A x \in page, y \in rows \ page : x.seq >= y.seq}

ListMessages(v) ==
  /\ resumed /\ viewer[v].at \in {"first", "older"}
  /\ LET rows == Earlier(viewer[v].before)
     IN  \E page \in Newest(rows) :
           IF page = rows
             THEN viewer' = [viewer EXCEPT ![v] =
                               Page("done", 0, @.shown \cup {m.id : m \in page})]
             ELSE \E oldest \in page :
                    /\ \A m \in page : oldest.seq <= m.seq
                    /\ viewer' = [viewer EXCEPT ![v] =
                                    Page("older", oldest.id, @.shown \cup {m.id : m \in page})]
  /\ UNCHANGED <<tables, lastSeq, resumed, req, cleaning, clock, crashes, ghosts>>

(* The page is closed, or its stream breaks. *)
Drop(v) ==
  /\ viewer[v].at # "away"
  /\ viewer' = [viewer EXCEPT ![v] = Away]
  /\ UNCHANGED <<tables, lastSeq, resumed, req, cleaning, clock, crashes, ghosts>>

-----------------------------------------------------------------------------
(* cleanupOrphans: the unsent rows are read once, then each that is old enough
   loses its file and its row. *)

BadOrphans == {f \in Files : attachments[f].there /\ attachments[f].message = Unsent}

Orphans ==
  {f \in Files : /\ attachments[f].there /\ attachments[f].message = Unsent
                 /\ attachments[f].created + OrphanTtl <= clock}

FindOrphans ==
  /\ resumed /\ cleaning = AtRest /\ Orphans # {}
  /\ cleaning' = [todo |-> Orphans, file |-> NoFile]
  /\ UNCHANGED <<tables, lastSeq, resumed, req, viewer, clock, crashes, ghosts>>

UnlinkFile ==
  /\ cleaning.file = NoFile
  /\ \E f \in cleaning.todo :
       /\ disk' = disk \ {f}
       /\ cleaning' = [todo |-> cleaning.todo \ {f}, file |-> f]
  /\ UNCHANGED <<messages, attachments, lastSeq, resumed, req, viewer, clock, crashes, ghosts>>

DeleteRow ==
  /\ cleaning.file # NoFile
  /\ attachments' = [attachments EXCEPT ![cleaning.file] = FileRow(FALSE, @.message, @.created)]
  /\ cleaning' = [todo |-> cleaning.todo, file |-> NoFile]
  /\ UNCHANGED <<messages, disk, lastSeq, resumed, req, viewer, clock, crashes, ghosts>>

-----------------------------------------------------------------------------
Tick ==
  /\ clock < MaxClock
  /\ clock' = clock + 1
  /\ overdue' = overdue \cup {f \in Files : attachments[f].there
                                         /\ attachments[f].created + OrphanTtl <= clock'}
  /\ UNCHANGED <<tables, lastSeq, resumed, req, cleaning, viewer, crashes, issued,
                 published, answered, promised>>

(* A crash takes the memory and the streams; the clock may have been set back
   when the process starts again. *)
ChatCrash ==
  /\ crashes < MaxCrashes
  /\ crashes' = crashes + 1
  /\ clock' \in 1..clock
  /\ lastSeq' = 0 /\ resumed' = FALSE
  /\ req' = [q \in Requests |-> Free] /\ cleaning' = AtRest
  /\ viewer' = [v \in Viewers |-> Away]
  /\ UNCHANGED <<tables, ghosts>>

BadResume ==
  /\ ~resumed /\ resumed' = TRUE
  /\ UNCHANGED <<tables, lastSeq, req, cleaning, viewer, clock, crashes, ghosts>>

(* onModuleInit asks for the highest number; requests come once the server
   listens, behind that query. *)
Resume ==
  /\ ~resumed /\ resumed' = TRUE
  /\ lastSeq' \in {m.seq : m \in messages} \cup {lastSeq}
  /\ lastSeq' >= lastSeq /\ \A m \in messages : m.seq <= lastSeq'
  /\ UNCHANGED <<tables, req, cleaning, viewer, clock, crashes, ghosts>>

ChatInit ==
  /\ messages = {} /\ attachments = [f \in Files |-> NoRow] /\ disk = {}
  /\ lastSeq = 0 /\ resumed = FALSE
  /\ req = [q \in Requests |-> Free] /\ cleaning = AtRest
  /\ viewer = [v \in Viewers |-> Away]
  /\ clock = 1 /\ crashes = 0
  /\ issued = 0 /\ published = {} /\ answered = 0 /\ overdue = {} /\ promised = {}

ChatNext ==
  \/ \E q \in Requests :
       \/ \E f \in Files : MoveFile(q, f) \/ BeginSend(q, f)
       \/ BeginSend(q, NoFile)
       \/ Register(q) \/ Number(q) \/ InsertMessage(q) \/ Bind(q) \/ Publish(q) \/ Fail(q)
  \/ \E v \in Viewers : Subscribe(v) \/ ListMessages(v) \/ Drop(v)
  \/ FindOrphans \/ UnlinkFile \/ DeleteRow
  \/ Tick \/ ChatCrash \/ Resume

ChatSpec == ChatInit /\ [][ChatNext]_chatVars

-----------------------------------------------------------------------------
(* Properties. *)

(* Rows, handlers and pages keep their shape. *)
ChatTypeOK ==
  /\ messages \subseteq Message /\ attachments \in [Files -> Attachment]
  /\ disk \subseteq Files /\ lastSeq \in Nat /\ resumed \in BOOLEAN
  /\ req \in [Requests -> Request]
  /\ \A q \in Requests :
       /\ req[q].at \in {"register", "bind"} => req[q].file # NoFile
       /\ req[q].at \in {"insert", "bind", "publish"} => req[q].id # 0
  /\ cleaning \in [todo: SUBSET Files, file: Files \cup {NoFile}]
  /\ viewer \in [Viewers -> [at: {"away", "first", "older", "done"},
                             shown: SUBSET Ids, before: Ids \cup {0}]]
  /\ clock \in 1..MaxClock /\ crashes \in 0..MaxCrashes
  /\ issued \in 0..MaxMessages /\ published \subseteq Ids
  /\ answered \in Nat /\ overdue \subseteq Files /\ promised \subseteq Files

(* A page that opened its stream first and then went through the history has
   every message that was sent, however sends, pages and events interleave:
   each is in a page or came as an event. *)
NothingMissed ==
  \A v \in Viewers : viewer[v].at = "done" => published \subseteq viewer[v].shown

(* A message stands behind every message that was answered before it was
   begun, also after a restart with a clock that was set back. *)
AnsweredInOrder ==
  \A q \in Requests :
    req[q].at \in {"insert", "bind", "publish"} => req[q].seq > req[q].after

(* A file that was sent in time can be opened for good: a cleanup that read
   its row before it was sent does not take it. *)
SentFilesStay == \A f \in promised : attachments[f].there /\ f \in disk
=============================================================================

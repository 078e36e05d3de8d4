--------------------------------- MODULE Cclip ---------------------------------
(* One cclip process from main to its exit (src/cclip): it parses its command    *)
(* line, runs one SQLite statement and prints rows with writev_full, or becomes  *)
(* the source of a selection (cclip copy).  Other processes change the database  *)
(* meanwhile; whoever reads the output or pastes is the environment.  What the   *)
(* commands that write do to the tables is in Database; of those, this module    *)
(* has the two whose handling of statement and pragma matters here.              *)
EXTENDS Preview

CONSTANTS Scenario,    \* command lines, the stored entries they meet, and the tags that no
                       \* entry has (cclip tag can leave some): [line, contents, orphans]
          TextPrefix,  \* "text/"
          PreviewLen,  \* config.preview_len of the cclipd that stored the entries
          Reader,      \* clients that paste
          Nonblocking, \* those whose pipe is O_NONBLOCK
          MaxChanges   \* bound: entries other processes delete

\* fields is {} if the command line has no list of fields, id is 0 if the argument is
\* not a number; filter has the tags an entry must have one of (all of them for -t).
IsLine(l) == /\ l.action \in {"list", "get", "copy", "tags", "tags_delete", "delete"}
             /\ l.usage \in {"ok", "help", "bad"}
             /\ l.id \in Nat /\ l.secure \in BOOLEAN
             /\ \A ts \in l.fields : ts \in Seq(STRING) /\ l.fields = {ts}

\* is_tag_valid: printable ASCII without commas.
TagByte == (32 .. 126) \ {44}

IsContent(c) == /\ c.id \in Nat /\ c.data \in Seq(Byte) /\ c.type \in Seq(Byte)
                /\ c.tags \in Seq(Seq(TagByte))

None == 0

ASSUME CclipAssumption ==
  /\ \A s \in Scenario : /\ IsLine(s.line)
                         /\ s.contents \in Seq({s.contents[i] : i \in DOMAIN s.contents})
                         /\ \A i \in DOMAIN s.contents : IsContent(s.contents[i])
                         /\ \A i, j \in DOMAIN s.contents :
                              s.contents[i].id = s.contents[j].id => i = j
                         /\ s.orphans \in Seq(Seq(TagByte))
  /\ TextPrefix \in Seq(Byte) /\ PreviewLen \in Nat \ {0} /\ MaxChanges \in Nat
  /\ None \notin Reader /\ Nonblocking \subseteq Reader

VARIABLES
  line,     \* the command line
  table,    \* the committed entries, newest first
  orphans,  \* the tags without entries
  pc,       \* where the process is; "exited" and "killed" are its ends
  code,     \* retcode
  db, stmt, \* "none", "open", "closed"; and "null", "live", "freed"
  frees,    \* history: calls of sqlite3_finalize for the statement
  rows,     \* rows of the statement to come, each the sequence of its columns
  result,   \* history: all of them
  image,    \* history: the entries when the statement was first stepped
  iov,      \* what writev_full has still to write
  out,      \* bytes written to standard output
  secure,   \* the connection's secure_delete
  residue,  \* deleted payloads the file still has
  held,     \* cclip copy: wl->data
  wire,     \* events sent to the data source: a reader, or None for cancelled
  reader,   \* per reader: [state, known, got]
  serving,  \* the reader on_data_control_source_send is writing to
  changes   \* what MaxChanges counts

process == <<line, pc, code>>
handles == <<db, stmt, frees>>
output  == <<rows, result, image, iov, out>>
file    == <<table, orphans, secure, residue, changes>>
copying == <<held, wire, reader, serving>>
vars    == <<process, handles, output, file, copying>>

\* An entry as cclipd stores it.
Stored(c) == [id |-> c.id, data |-> c.data, type |-> c.type, tags |-> c.tags,
              preview |-> GeneratePreview(c.data, c.type, TextPrefix, PreviewLen)]

Init == /\ \E s \in Scenario : /\ line = s.line
                               /\ table = [i \in DOMAIN s.contents |-> Stored(s.contents[i])]
                               /\ orphans = s.orphans
        /\ pc = "main" /\ code = 0
        /\ db = "none" /\ stmt = "null" /\ frees = 0
        /\ rows = << >> /\ result = << >> /\ image = << >> /\ iov = << >> /\ out = << >>
        /\ secure \in BOOLEAN /\ residue = {}   \* SQLITE_SECURE_DELETE of the build
        /\ held = << >> /\ wire = << >> /\ serving = None
        /\ reader = [r \in Reader |-> [state |-> "idle", known |-> FALSE, got |-> << >>]]
        /\ changes = 0

At(where) == pc = where /\ UNCHANGED line

Goto(where) == pc' = where /\ UNCHANGED code

\* OUT
Out(c) == pc' = "out" /\ code' = c

Exit(c) == pc' = "exited" /\ code' = c

-------------------------------------------------------------------------------
(* Fields and the queries built from them.                                      *)

FieldNames == [id        |-> {"id", "rowid"},
               preview   |-> {"preview"},
               mime_type |-> {"mime_type", "mime", "type"},
               data_size |-> {"data_size", "size"},
               timestamp |-> {"timestamp", "time"},
               tags      |-> {"tags", "tag"}]

FieldOf(token) == CHOOSE f \in DOMAIN FieldNames : token \in FieldNames[f]

IsField(token) == \E f \in DOMAIN FieldNames : token \in FieldNames[f]

\* Mutant of BuildFieldList: seen_fields is not looked at.
BuildFieldListAny(tokens) ==
  IF \A i \in DOMAIN tokens : IsField(tokens[i])
    THEN [i \in DOMAIN tokens |-> FieldOf(tokens[i])] ELSE << >>

\* build_field_list: no field if a token is unknown or names a field named before.
BuildFieldList(tokens) ==
  IF /\ \A i \in DOMAIN tokens : IsField(tokens[i])
     /\ \A i, j \in DOMAIN tokens : FieldOf(tokens[i]) = FieldOf(tokens[j]) => i = j
    THEN [i \in DOMAIN tokens |-> FieldOf(tokens[i])] ELSE << >>

DefaultFields == <<"rowid", "mime_type", "preview">>

Fields(l) == BuildFieldList(IF l.fields = {} THEN DefaultFields ELSE CHOOSE ts \in l.fields : TRUE)

\* A number, as SQLite writes it.
Decimal(n) == LET digits[m \in 0 .. n] == IF m < 10 THEN <<48 + m>> ELSE digits[m \div 10] \o <<48 + (m % 10)>>
              IN  digits[n]

Comma == <<44>>

\* group_concat(t.name, ',')
Joined(tags) ==
  IF tags = << >> THEN << >>
  ELSE FlattenSeq([k \in 1 .. 2 * Len(tags) - 1 |-> IF k % 2 = 1 THEN tags[(k + 1) \div 2] ELSE Comma])

\* What sqlite3_column_blob has for a field of an entry; tags is NULL without any.  The
\* time of an entry grows with its id.
Column(r, f) == CASE f = "id" -> Decimal(r.id)
                  [] f = "preview" -> r.preview
                  [] f = "mime_type" -> r.type
                  [] f = "data_size" -> Decimal(Len(r.data))
                  [] f = "timestamp" -> Decimal(r.id + 10)
                  [] f = "tags" -> Joined(r.tags)

Tab     == <<9>>
NewLine == <<10>>

\* Mutant of Iov: a tab after the last field too.
IovTabs(columns) == [k \in 1 .. 2 * Len(columns) |-> IF k % 2 = 1 THEN columns[(k + 1) \div 2] ELSE Tab]

\* field, tab, field, tab, field, newline
Iov(columns) == [k \in 1 .. 2 * Len(columns) |->
                   IF k % 2 = 1 THEN columns[(k + 1) \div 2]
                   ELSE IF k < 2 * Len(columns) THEN Tab ELSE NewLine]

\* The iov for a row: get without fields prints the payload and nothing else.
Printed(row, l) == IF l.action = "get" /\ l.fields = {} THEN row ELSE Iov(row)

RowOf(r, l) == [i \in DOMAIN Fields(l) |-> Column(r, Fields(l)[i])]

Distinct(s) ==
  LET seen[i \in 0 .. Len(s)] == IF i = 0 THEN << >>
                                ELSE IF s[i] \in ToSet(seen[i - 1]) THEN seen[i - 1]
                                ELSE Append(seen[i - 1], s[i])
  IN  seen[Len(s)]

Listed(r, l) == l.filter = {} \/ ToSet(r.tags) \cap l.filter # {}

Mapped(s, Op(_)) == [i \in DOMAIN s |-> Op(s[i])]

\* id is the primary key.
WithId(id) == {r \in ToSet(table) : r.id = id}

\* The payload, or the fields asked for.
EntryRow(l) == IF WithId(l.id) = {} THEN << >>
               ELSE LET r == CHOOSE x \in WithId(l.id) : TRUE
                    IN  IF l.action = "get" /\ l.fields # {} THEN <<RowOf(r, l)>> ELSE <<<<r.data>>>>

\* SELECT DISTINCT merges entries that differ in no field asked for.
ListRows(entries, l) ==
  Distinct(FlattenSeq(Mapped(entries, LAMBDA r : IF Listed(r, l) THEN <<RowOf(r, l)>> ELSE << >>)))

\* All of the table tags.
TagRows == Distinct(Mapped(FlattenSeq(Mapped(table, LAMBDA r : r.tags)) \o orphans, LAMBDA t : <<t>>))

\* The rows of each query.
Query(l) == CASE l.action = "list" -> ListRows(table, l)
              [] l.action = "tags" -> TagRows
              [] l.action \in {"get", "copy"} -> EntryRow(l)

-------------------------------------------------------------------------------
(* main and the way to the statement.                                           *)

\* db_open, the schema version or the name of the action.
Main == /\ At("main")
        /\ \/ db' = "open" /\ Goto("args")
           \/ db' \in {"none", "closed"} /\ Exit(1)
        /\ UNCHANGED <<stmt, frees, output, file, copying>>

ValidLine == /\ line.usage = "ok"
             /\ line.action \in {"get", "copy", "delete"} => line.id > 0
             /\ line.action = "list" \/ line.fields # {} => Fields(line) # << >>

Args == /\ At("args")
        /\ IF ValidLine THEN Goto(IF line.secure THEN "pragma" ELSE "prepare")
           ELSE Out(IF line.usage = "help" THEN 0 ELSE 1)
        /\ UNCHANGED <<handles, output, file, copying>>

\* db_set_secure_delete: a pragma takes no parameter, so no statement is prepared, and
\* to step none gives SQLITE_MISUSE, which is not SQLITE_DONE: true is returned.
SetSecureDelete == /\ At("pragma")
                   /\ Goto("prepare")
                   /\ UNCHANGED <<handles, output, file, copying>>

\* db_prepare_stmt
Prepare == /\ At("prepare")
           /\ \/ stmt' = "live" /\ Goto("query")
              \/ UNCHANGED stmt /\ Out(1)
           /\ UNCHANGED <<db, frees, output, file, copying>>

Finalize == /\ stmt' = IF stmt = "null" THEN "null" ELSE "freed"
            /\ frees' = IF stmt = "null" THEN frees ELSE frees + 1

Reads == {"list", "get", "copy", "tags"}

\* The first sqlite3_step of a query fixes the image all its rows come from.
StartQuery == /\ At("query") /\ line.action \in Reads
              /\ \/ /\ rows' = Query(line) /\ result' = Query(line) /\ image' = table
                    /\ Goto("step")
                 \/ UNCHANGED <<rows, result, image>> /\ Out(1)
              /\ UNCHANGED <<iov, out, handles, file, copying>>

\* cclip delete
Delete == /\ At("query") /\ line.action = "delete"
          /\ \/ \E i \in DOMAIN table :
                  /\ table[i].id = line.id
                  /\ table' = RemoveAt(table, i)
                  /\ residue' = IF secure THEN {} ELSE {table[i].data}
                  /\ Out(0)
             \/ UNCHANGED <<table, residue>> /\ Out(1)   \* no such entry, or an error
          /\ UNCHANGED <<orphans, secure, changes, handles, output, copying>>

\* cclip tags delete finalizes its statement, and again at out.
TagsDelete == /\ At("query") /\ line.action = "tags_delete"
              /\ Finalize
              /\ Out(0) \/ Out(1)
              /\ UNCHANGED <<db, output, file, copying>>

\* The end of every action but a copy that found its entry.  What a second finalize
\* does is undefined.
Leave == /\ At("out")
         /\ Finalize
         /\ db' = "closed"
         /\ UNCHANGED code
         /\ pc' \in {"exited"} \cup IF stmt = "freed" THEN {"killed"} ELSE {}
         /\ UNCHANGED <<output, file, copying>>

-------------------------------------------------------------------------------
(* Rows and writev_full.                                                        *)

NextRow == /\ At("step") /\ rows # << >> /\ line.action # "copy"
           /\ iov' = Printed(Head(rows), line) /\ rows' = Tail(rows)
           /\ Goto("write")
           /\ UNCHANGED <<result, image, out, handles, file, copying>>

\* SQLITE_DONE, or for list and tags an error at a later row.
NoRow == /\ At("step")
         /\ \/ rows = << >> /\ Out(IF line.action \in {"get", "copy"} THEN 1 ELSE 0)
            \/ line.action \in {"list", "tags"} /\ Out(1)
         /\ UNCHANGED <<handles, output, file, copying>>

\* The bytes in the first k buffers.
BytesIn(bufs, k) == Len(FlattenSeq(SubSeq(bufs, 1, k)))

\* The buffers before the one that has the n-th byte.
Used(bufs, n) == CHOOSE k \in 0 .. Len(bufs) - 1 : BytesIn(bufs, k) < n /\ n <= BytesIn(bufs, k + 1)

\* Mutant of Remaining: a buffer that was just used up stays, and is written again.
RemainingAgain(bufs, n) ==
  LET used == Used(bufs, n)
      took == n - BytesIn(bufs, used)
      rest == SubSeq(bufs, used + 2, Len(bufs))
  IN  IF took = Len(bufs[used + 1]) THEN SubSeq(bufs, used + 1, Len(bufs))
      ELSE <<SubSeq(bufs[used + 1], took + 1, Len(bufs[used + 1]))>> \o rest

\* What writev_full goes on with after n bytes, n > 0: the used buffers go, and so does
\* the next one if nothing is left of it, or it loses its beginning.
Remaining(bufs, n) ==
  LET used == Used(bufs, n)
      took == n - BytesIn(bufs, used)
      rest == SubSeq(bufs, used + 2, Len(bufs))
  IN  IF took = Len(bufs[used + 1]) THEN rest
      ELSE <<SubSeq(bufs[used + 1], took + 1, Len(bufs[used + 1]))>> \o rest

\* One writev takes some of the bytes.
Writev == /\ At("write") /\ iov # << >>
          /\ \E n \in 1 .. Len(FlattenSeq(iov)) :
               /\ out' = out \o SubSeq(FlattenSeq(iov), 1, n)
               /\ iov' = Remaining(iov, n)
          /\ UNCHANGED <<pc, code, rows, result, image, handles, file, copying>>

\* The row is out.  get prints one.
RowWritten == /\ At("write") /\ iov = << >>
              /\ IF line.action = "get" THEN Out(0) ELSE Goto("step")
              /\ UNCHANGED <<handles, output, file, copying>>

\* An error, which get ignores, or SIGPIPE.
WriteFails == /\ At("write") /\ iov # << >>
              /\ \/ Out(IF line.action = "get" THEN 0 ELSE 1)
                 \/ Goto("killed")
              /\ UNCHANGED <<handles, output, file, copying>>

-------------------------------------------------------------------------------
(* cclip copy.                                                                  *)

\* Mutant of Copied: the statement is left to the exit.
CopiedOnly == /\ At("step") /\ line.action = "copy" /\ rows # << >>
              /\ held' = Head(Head(rows))
              /\ rows' = Tail(rows)
              /\ db' = "closed"
              /\ Goto("connect")
              /\ UNCHANGED <<stmt, frees, result, image, iov, out, file, wire, reader, serving>>

\* The payload is duplicated, then the statement and the database are closed.
Copied == /\ At("step") /\ line.action = "copy" /\ rows # << >>
          /\ held' = Head(Head(rows))
          /\ rows' = Tail(rows)
          /\ Finalize
          /\ db' = "closed"
          /\ Goto("connect")
          /\ UNCHANGED <<result, image, iov, out, file, wire, reader, serving>>

\* do_copy up to its loop; without -f the process is from then on the child of daemon.
Connect == /\ At("connect")
           /\ Goto("serve") \/ Exit(1)
           /\ UNCHANGED <<handles, output, file, copying>>

Dispatching == At("serve") /\ serving = None

\* Mutant of Cancelled: running is not cleared.
CancelledServesOn == /\ Dispatching /\ wire # << >> /\ Head(wire) = None
                     /\ wire' = Tail(wire)
                     /\ UNCHANGED <<pc, code, held, reader, serving, handles, output, file>>

\* on_data_control_source_cancelled ends the loop.
Cancelled == /\ Dispatching /\ wire # << >> /\ Head(wire) = None
             /\ wire' = Tail(wire)
             /\ Exit(0)
             /\ UNCHANGED <<held, reader, serving, handles, output, file>>

\* wl_display_dispatch fails: the compositor has gone.
DisplayLost == /\ Dispatching
               /\ Exit(0)
               /\ UNCHANGED <<handles, output, file, copying>>

Done(r) == reader' = [reader EXCEPT ![r].state = IF @ = "closed" THEN @ ELSE "eof"]

\* on_data_control_source_send: a type that was not offered is answered by closing.
StartSend == /\ Dispatching /\ wire # << >> /\ Head(wire) # None
             /\ wire' = Tail(wire)
             /\ IF reader[Head(wire)].known
                  THEN serving' = Head(wire) /\ UNCHANGED reader
                  ELSE Done(Head(wire)) /\ UNCHANGED serving
             /\ UNCHANGED <<pc, code, held, handles, output, file>>

Got == reader[serving].got

\* Mutant of Send: after a short write the payload is sent from its start.
SendRestarts ==
  /\ At("serve") /\ serving # None /\ reader[serving].state = "asked"
  /\ \E n \in 1 .. Len(held) - Len(Got) :
       LET all == Got \o SubSeq(held, 1, n) IN
       /\ reader' = [reader EXCEPT ![serving] = [@ EXCEPT !.got = all,
                       !.state = IF Len(all) = Len(held) THEN "eof" ELSE @]]
       /\ serving' = IF Len(all) = Len(held) THEN None ELSE serving
  /\ UNCHANGED <<pc, code, held, wire, handles, output, file>>

\* One write of the loop, as much as the reader's pipe takes, and close after the last.
Send == /\ At("serve") /\ serving # None /\ reader[serving].state = "asked"
        /\ \E n \in Len(Got) + 1 .. Len(held) :
             /\ reader' = [reader EXCEPT ![serving] = [@ EXCEPT !.got = SubSeq(held, 1, n),
                             !.state = IF n = Len(held) THEN "eof" ELSE "asked"]]
             /\ serving' = IF n = Len(held) THEN None ELSE serving
        /\ UNCHANGED <<pc, code, held, wire, handles, output, file>>

\* The reader has closed: SIGPIPE, if that is not ignored; or its nonblocking pipe is
\* full.  On an error the loop is left and the pipe closed.
SendFails == /\ At("serve") /\ serving # None
             /\ reader[serving].state = "closed" \/ serving \in Nonblocking
             /\ \/ Done(serving) /\ serving' = None /\ UNCHANGED <<pc, code>>
                \/ reader[serving].state = "closed" /\ Goto("killed") /\ UNCHANGED <<reader, serving>>
             /\ UNCHANGED <<held, wire, handles, output, file>>

-------------------------------------------------------------------------------
(* The environment.                                                             *)

\* Another cclip, or cclipd, deletes an entry.
OtherDeletes == /\ pc \notin {"exited", "killed"} /\ changes < MaxChanges
                /\ \E i \in DOMAIN table : table' = RemoveAt(table, i)
                /\ changes' = changes + 1
                /\ UNCHANGED <<orphans, secure, residue, process, handles, output, copying>>

WasCancelled == Contains(wire, None)

\* A client pastes: it asks for the type offered, or for another one.
Paste(r) == /\ pc = "serve" /\ ~WasCancelled
            /\ reader[r].state = "idle"
            /\ \E k \in BOOLEAN : reader' = [reader EXCEPT ![r].state = "asked", ![r].known = k]
            /\ wire' = Append(wire, r)
            /\ UNCHANGED <<held, serving, process, handles, output, file>>

\* It closes its end of the pipe early, or never reads.
GiveUp(r) == /\ pc = "serve" /\ reader[r].state \in {"asked", "stalled"}
             /\ reader' = [reader EXCEPT ![r].state = "closed"]
             /\ UNCHANGED <<held, wire, serving, process, handles, output, file>>

Stall(r) == /\ pc = "serve" /\ reader[r].state = "asked"
            /\ reader' = [reader EXCEPT ![r].state = "stalled"]
            /\ UNCHANGED <<held, wire, serving, process, handles, output, file>>

\* Someone else takes the selection.
Replace == /\ pc = "serve" /\ ~WasCancelled
           /\ wire' = Append(wire, None)
           /\ UNCHANGED <<held, reader, serving, process, handles, output, file>>

-------------------------------------------------------------------------------
Process == \/ Main \/ Args \/ SetSecureDelete \/ Prepare \/ StartQuery \/ Delete \/ TagsDelete
           \/ NextRow \/ NoRow \/ Writev \/ RowWritten \/ WriteFails \/ Leave
           \/ Copied \/ Connect \/ Cancelled \/ StartSend \/ Send \/ SendFails

Environment == OtherDeletes \/ Replace \/ \E r \in Reader : Paste(r) \/ GiveUp(r) \/ Stall(r)

Ended == pc \in {"exited", "killed"}

Next == Process \/ DisplayLost \/ Environment \/ (Ended /\ UNCHANGED vars)

\* The process runs when it can; nothing is assumed of the environment.
Spec == Init /\ [][Next]_vars /\ WF_vars(Process)

-------------------------------------------------------------------------------
(* Properties.                                                                  *)

\* The types; the columns of a row fit fields[SELECT_FIELDS_COUNT].
TypeOK == /\ IsLine(line)
          /\ pc \in {"main", "args", "pragma", "prepare", "query", "step", "write", "out",
                     "connect", "serve", "exited", "killed"}
          /\ code \in {0, 1}
          /\ db \in {"none", "open", "closed"} /\ stmt \in {"null", "live", "freed"}
          /\ \A i \in DOMAIN result : Len(result[i]) <= Cardinality(DOMAIN FieldNames)
          /\ secure \in BOOLEAN
          /\ \A i \in DOMAIN out : out[i] \in Byte
          /\ serving \in {None} \cup Reader
          /\ \A r \in Reader : reader[r].state \in {"idle", "asked", "stalled", "closed", "eof"}

Whole(rs, l) == FlattenSeq(Mapped(rs, LAMBDA r : FlattenSeq(Printed(r, l))))

\* What cclip list is to print: the entries of the image that -t and -T let through.
ToList == {e \in ToSet(image) : Listed(e, line)}

\* The rows are those of all entries to list, none twice.  Entries that differ in no field
\* asked for share a row: one line per entry, as the manual has it, there is only if the
\* id is among the fields.
RowsOfAll == /\ ToSet(result) = {RowOf(e, line) : e \in ToList}
             /\ \A i, j \in DOMAIN result : result[i] = result[j] => i = j
             /\ "id" \in ToSet(Fields(line)) => Len(result) = Cardinality(ToList)

\* Standard output always has the beginning of the rows of one image of the database,
\* however writev splits them, inside and between buffers, empty ones included; a list
\* that exits with 0 has printed all of them, and with them every entry of that image,
\* whatever other processes deleted meanwhile; entries that look alike share a line.
OutputWhole == /\ line.action # "copy" => IsPrefix(out, Whole(result, line))
               /\ pc = "exited" /\ code = 0 /\ line.action \in {"list", "tags"} => out = Whole(result, line)
               /\ pc = "exited" /\ code = 0 /\ line.action = "list" /\ line.usage = "ok" => RowsOfAll

SplitStep(before, at, b) == IF b = at THEN Append(before, << >>)
                            ELSE Append(Front(before), Append(Last(before), b))

Split(s, at) ==
  LET parts[i \in 0 .. Len(s)] == IF i = 0 THEN << << >> >> ELSE SplitStep(parts[i - 1], at, s[i])
  IN  parts[Len(s)]

\* No MIME type has a tab or a newline.
PlainTypes == \A s \in Scenario : \A i \in DOMAIN s.contents :
                ToSet(s.contents[i].type) \cap {9, 10} = {}

\* What is listed can be taken apart again, which is how cclip list is used: one line per
\* row of SELECT DISTINCT (not per entry, see RowsOfAll), one column per field, whatever
\* else the entries hold.
LinesParse == PlainTypes /\ pc = "exited" /\ code = 0 /\ line.action = "list" /\ line.usage = "ok" =>
                LET lines == Split(out, 10) IN
                /\ Len(lines) = Len(result) + 1 /\ lines[Len(lines)] = << >>
                /\ \A i \in DOMAIN result : Split(lines[i], 9) = result[i]

\* A text preview in the database is faithful to its payload.
PreviewFaithful == \A i \in DOMAIN table :
  IsPrefix(TextPrefix, table[i].type) => Faithful(table[i].data, table[i].preview, PreviewLen)

\* On every path the statement is finalized once and before the database is closed; a
\* process that serves a selection, a child of the one that opened it, holds neither.
\* (cclip tags delete finalizes twice.)
StatementsReleased ==
  /\ frees <= 1 \/ line.action = "tags_delete"
  /\ db = "closed" \/ pc \in {"connect", "serve", "exited"} => stmt # "live" /\ db # "open"

\* Whoever pastes and is told that it has everything has the payload of the entry, also
\* if the entry has been deleted since; nobody gets anything else.  (A reader with a
\* nonblocking pipe may be told so too early.)
CopyServes == \A r \in Reader :
  /\ IsPrefix(reader[r].got, held)
  /\ held # << >> => held = Head(Head(result))
  /\ reader[r].state = "eof" /\ reader[r].known /\ r \notin Nonblocking => reader[r].got = held

\* A copy that has been replaced ends, unless a reader keeps it waiting.
CopyEnds == (pc = "serve" /\ WasCancelled) ~> (Ended \/ \E r \in Reader : reader[r].state = "stalled")

\* man/cclip.1.in, delete: "If -s is specified, overwrites deleted entry with zeroes for
\* security".  No run finds that to hold: the pragma is never set.
SecureDeleteErases == pc = "exited" /\ code = 0 /\ line.secure => residue = {}
===============================================================================

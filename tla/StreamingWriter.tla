--------------------------- MODULE StreamingWriter ---------------------------
(***************************************************************************)
(* StreamingWorkbookWriter: rows are appended to one spool file per sheet, *)
(* strings go through a shared-string table that the sheets of a workbook  *)
(* share, and close() assembles the package from the spools and saves it.  *)
(* The save is what AtomicReplace promises, which AtomicFile implements.   *)
(* A spool is the sequence of rows its file holds, and the row without an  *)
(* end tag that an append that threw left in it; what a caller appended is *)
(* remembered beside it, and StreamingWorkbookReader is the operator       *)
(* ReadBack.  A failed close leaves the writer open, a destroyed writer    *)
(* closes itself, and a later writer saves to the same path.               *)
(***************************************************************************)
EXTENDS Naturals, Sequences, SequencesExt, FiniteSets

CONSTANTS
  SheetNames,     \* the names a caller gives; "Sheet1" is the default one
  Texts, Date,    \* values of cells: texts, and a date
  Rows,           \* the rows a caller appends
  Lines, Columns, \* the grid: a cell beyond it has no address
  Modes,          \* subset of {"Disabled", "Hash", "BoundedLru"}
  Capacities,     \* capacities of the LRU cache a caller asks for
  SpoolFaults,    \* may a write to a spool fail
  RepeatedNames,  \* may a caller give two sheets one name
  LateDateSystem, \* may a caller choose the date system after adding a sheet
  NoFile,
  MaxSheets, MaxRows, MaxFaults, MaxWriters   \* bounds of the instance

ASSUME RowsAssumption == Rows \subseteq Seq(Texts \cup {Date})
ASSUME GridAssumption == Lines \in Nat /\ Columns \in Nat

VARIABLES
  mode, capacity, \* the constructor's choice of shared strings
  strings,        \* strings_: the text of every index
  cache,          \* hash_, or cache_ with order_: [text, index], oldest first
  used,           \* the indexes handed out so far, in order
  sheets,         \* sheets_: what NewSheet makes
  date1904, closed,
  phase,          \* "open", "saving", "destroying", "gone"
  package,        \* what the save under way writes
  destination,    \* the package at the path, or NoFile
  saved,          \* the sheets of the last successful save of this writer
  faults, writers,
  rows            \* rows appended by all writers

table == <<strings, cache, used>>
options == <<mode, capacity>>
vars == <<options, table, sheets, date1904, closed, phase, package, destination, saved,
          faults, writers, rows>>

Fault == faults < MaxFaults /\ faults' = faults + 1

-----------------------------------------------------------------------------
\* Mutant: an eviction frees the index, and the next new text takes it.
IndexReused(t, text) ==
  LET hits == {k \in DOMAIN t.cache : t.cache[k].text = text}
      hit == CHOOSE k \in hits : TRUE
      full == mode = "BoundedLru" /\ Len(t.cache) = capacity
      index == IF full THEN t.cache[1].index ELSE Len(t.strings)
  IN  IF hits # {} THEN [t EXCEPT !.used = Append(@, t.cache[hit].index)]
      ELSE [strings |-> IF full THEN [t.strings EXCEPT ![index + 1] = text]
                        ELSE Append(t.strings, text),
            cache |-> Append(IF full THEN Tail(t.cache) ELSE t.cache,
                             [text |-> text, index |-> index]),
            used |-> Append(t.used, index)]

\* SharedStringTable::index on a table [strings, cache, used].
Index(t, text) ==
  LET hits == {k \in DOMAIN t.cache : t.cache[k].text = text}
      hit == CHOOSE k \in hits : TRUE
      fresh == [text |-> text, index |-> Len(t.strings)]
      grown == Append(t.cache, fresh)
  IN  IF hits # {}
        THEN [t EXCEPT !.cache = IF mode = "Hash" THEN @
                                 ELSE Append(RemoveAt(@, hit), @[hit]),
                       !.used = Append(@, t.cache[hit].index)]
        ELSE [strings |-> Append(t.strings, text),
              cache |-> IF mode = "BoundedLru" /\ Len(grown) > capacity THEN Tail(grown)
                        ELSE grown,
              used |-> Append(t.used, fresh.index)]

\* cellXml: the kind and the content of a cell, and the table after it.
AddCell(sheet, state, value) ==
  IF value = Date
    THEN [state EXCEPT !.cells = Append(@, [t |-> "n", v |-> sheet.date1904])]
  ELSE IF mode = "Disabled"
    THEN [state EXCEPT !.cells = Append(@, [t |-> "inlineStr", v |-> value])]
    ELSE LET after == Index(state.table, value) IN
         [table |-> after,
          cells |-> Append(state.cells, [t |-> "s", v |-> Last(after.used)])]

RowXml(sheet, row) ==
  LET xml[n \in 0 .. Len(row)] ==
        IF n = 0 THEN [table |-> [strings |-> strings, cache |-> cache, used |-> used],
                       cells |-> <<>>]
        ELSE AddCell(sheet, xml[n - 1], row[n])
  IN  xml[Len(row)]

-----------------------------------------------------------------------------
\* The reader: bindings reject a repeated name, a shared index must be in
\* range, and a number is a date in the workbook's date system.  A row without
\* an end tag of its own ends at the next one, and the last row without any
\* ends the reading with an exception.
Rejected == <<>>

ReadCell(p, cell) ==
  CASE cell.t = "inlineStr" -> cell.v
    [] cell.t = "s" -> p.strings[cell.v + 1]
    [] cell.t = "n" -> IF cell.v = p.date1904 THEN Date ELSE <<"another day">>

ReadBack(p) ==
  LET known == \A i \in DOMAIN p.sheets : \A r \in Range(p.sheets[i].rows) :
                 \A c \in Range(r) : c.t = "s" => c.v < Len(p.strings)
      distinct == \A i, j \in DOMAIN p.sheets : p.sheets[i].name = p.sheets[j].name => i = j
  IN  IF distinct /\ known
        THEN [i \in DOMAIN p.sheets |->
                [name |-> p.sheets[i].name, ended |-> p.sheets[i].open = <<>>,
                 rows |-> [r \in DOMAIN p.sheets[i].rows |->
                             [c \in DOMAIN p.sheets[i].rows[r] |->
                                ReadCell(p, p.sheets[i].rows[r][c])]]]]
        ELSE Rejected

-----------------------------------------------------------------------------
\* A sheet's spool holds rows, after which a row may be open; its stream may
\* be bad and finished.  count is rowCount_, appended are the rows a caller
\* appended before an append threw, and torn tells whether one did.
NewSheet(name) == [name |-> name, date1904 |-> date1904, spool |-> <<>>, open |-> <<>>,
                   bad |-> FALSE, finished |-> FALSE, count |-> 0, appended |-> <<>>,
                   torn |-> FALSE]

\* The constructor: a capacity of zero is raised to one, and only the bounded
\* cache has one.
Raised(m) == IF m = "BoundedLru" THEN {IF c = 0 THEN 1 ELSE c : c \in Capacities} ELSE {1}

Init ==
  /\ mode \in Modes /\ capacity \in Raised(mode)
  /\ strings = <<>> /\ cache = <<>> /\ used = <<>>
  /\ sheets = <<>> /\ date1904 = FALSE /\ closed = FALSE
  /\ phase = "open" /\ package = NoFile /\ saved = <<>>
  /\ destination = NoFile /\ faults = 0 /\ writers = 1 /\ rows = 0

SetDate1904 ==
  /\ phase = "open"
  /\ LateDateSystem \/ sheets = <<>>
  /\ date1904' = ~date1904
  /\ UNCHANGED <<options, table, sheets, closed, phase, package, destination, saved, faults,
                 writers, rows>>

AddWorksheet(name) ==
  /\ phase = "open" /\ ~closed
  /\ Len(sheets) < MaxSheets
  /\ RepeatedNames \/ \A i \in DOMAIN sheets : sheets[i].name # name
  /\ sheets' = Append(sheets, NewSheet(name))
  /\ UNCHANGED <<options, table, date1904, closed, phase, package, destination, saved, faults,
                 writers, rows>>

\* The cells of a row that cellXml has an address for: it throws at the next.
Fitting(s, row) ==
  IF s.count + 1 > Lines THEN <<>>
  ELSE IF Len(row) <= Columns THEN row ELSE SubSeq(row, 1, Columns)

\* What append writes to the stream, which is never looked at: after a failed
\* write it ignores the row.
Spooled(s, cells, whole) ==
  LET all == IF s.open = <<>> THEN cells ELSE s.open[1] \o cells IN
  IF s.bad THEN s
  ELSE IF whole THEN [s EXCEPT !.spool = Append(@, all), !.open = <<>>]
  ELSE [s EXCEPT !.open = <<all>>]

Remembered(s, row, whole) ==
  [s EXCEPT !.count = @ + 1, !.torn = @ \/ ~whole,
            !.appended = IF whole /\ ~s.torn THEN Append(@, row) ELSE @]

\* StreamingWorksheetWriter::append.  The strings of the row are in the table
\* even if a later cell throws or the stream does not take the row.
AppendRow(i, row) ==
  LET fits == Fitting(sheets[i], row)
      whole == Len(fits) = Len(row)
      xml == RowXml(sheets[i], fits)
      after == Remembered(Spooled(sheets[i], xml.cells, whole), row, whole)
  IN
  /\ phase = "open"
  /\ ~sheets[i].finished
  /\ rows < MaxRows
  /\ rows' = rows + 1
  /\ strings' = xml.table.strings /\ cache' = xml.table.cache /\ used' = xml.table.used
  /\ \/ sheets' = [sheets EXCEPT ![i] = after] /\ UNCHANGED faults
     \/ /\ SpoolFaults /\ Fault
        /\ sheets' = [sheets EXCEPT ![i] = Remembered([sheets[i] EXCEPT !.bad = TRUE], row, whole)]
  /\ UNCHANGED <<options, date1904, closed, phase, package, destination, saved, writers>>

\* What close() does before the save: the default sheet, finish() of every
\* sheet, and the parts.
Finished(s) == [i \in DOMAIN s |-> [s[i] EXCEPT !.finished = TRUE]]

Package(s) == [sheets |-> [i \in DOMAIN s |->
                            [name |-> s[i].name, rows |-> s[i].spool, open |-> s[i].open]],
               strings |-> strings, date1904 |-> date1904]

BeginClose(next) ==
  LET all == Finished(IF sheets = <<>> THEN <<NewSheet("Sheet1")>> ELSE sheets) IN
  /\ sheets' = all
  /\ package' = Package(all)
  /\ phase' = next
  /\ UNCHANGED <<options, table, date1904, closed, destination, saved, faults, writers, rows>>

Close == phase = "open" /\ ~closed /\ BeginClose("saving")

\* The writer's memory is gone; the path keeps its package.
Gone ==
  /\ phase' = "gone"
  /\ sheets' = <<>> /\ strings' = <<>> /\ cache' = <<>> /\ used' = <<>>

\* The destructor closes a writer that is still open, then removes the spools.
Destroy ==
  /\ phase = "open"
  /\ \/ ~closed /\ BeginClose("destroying")
     \/ /\ closed /\ Gone
        /\ UNCHANGED <<options, date1904, closed, package, destination, saved, faults, writers,
                       rows>>

Return ==
  \/ phase = "saving" /\ phase' = "open" /\ UNCHANGED <<table, sheets>>
  \/ phase = "destroying" /\ Gone

\* zip.save returned.
Saved ==
  /\ Return
  /\ destination' = package /\ package' = NoFile
  /\ closed' = TRUE
  /\ saved' = sheets
  /\ UNCHANGED <<options, date1904, faults, writers, rows>>

\* close() threw: a spool cannot be created or opened, or the save failed.
\* The destructor swallows the exception.
CloseFailed ==
  /\ Return /\ Fault
  /\ package' = NoFile
  /\ UNCHANGED <<options, date1904, closed, destination, saved, writers, rows>>

\* The process dies.
Crash ==
  /\ phase # "gone" /\ Gone /\ Fault
  /\ package' = NoFile
  /\ UNCHANGED <<options, date1904, closed, destination, saved, writers, rows>>

\* Another writer for the same path.
NewWriter ==
  /\ phase = "gone" /\ writers < MaxWriters
  /\ writers' = writers + 1
  /\ mode' \in Modes /\ capacity' \in Raised(mode')
  /\ strings' = <<>> /\ cache' = <<>> /\ used' = <<>>
  /\ sheets' = <<>> /\ date1904' = FALSE /\ closed' = FALSE
  /\ phase' = "open" /\ package' = NoFile /\ saved' = <<>>
  /\ UNCHANGED <<destination, faults, rows>>

Next ==
  \/ SetDate1904
  \/ \E name \in SheetNames : AddWorksheet(name)
  \/ \E i \in DOMAIN sheets, row \in Rows : AppendRow(i, row)
  \/ Close \/ Destroy \/ Saved \/ CloseFailed \/ Crash \/ NewWriter

Spec == Init /\ [][Next]_vars

-----------------------------------------------------------------------------
\* A sheet that is read against what was appended to it.
ReadsAs(read, s) ==
  /\ read.name = s.name
  /\ \A r \in DOMAIN s.appended : r \in DOMAIN read.rows /\ read.rows[r] = s.appended[r]
  /\ ~s.torn => read.ended /\ Len(read.rows) = Len(s.appended)

\* A package that a writer reported as saved reads back as every row that was
\* ever appended, on a sheet an append threw for as every row before that one:
\* across sheets that share the string table, evicted strings, a close that
\* failed and was repeated with sheets added in between, and a writer that was
\* destroyed without being closed (StreamingWorkbookWriter.cpp close and
\* append, against StreamingWorkbookReader).
SavedReadsBack ==
  closed =>
    LET read == ReadBack(destination) IN
    /\ DOMAIN read = DOMAIN saved
    /\ \A i \in DOMAIN saved : ReadsAs(read[i], saved[i])
=============================================================================

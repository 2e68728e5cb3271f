--------------------------- MODULE VbaProjectFile ---------------------------
(***************************************************************************)
(* vbaProject.bin: buildVbaProjectBinary, readVbaProjectBinary,            *)
(* readVbaProjectInfoBinary and isXlppGeneratedVbaProjectBinary            *)
(* (src/src/XLPP/VBA/VbaProjectBinary.cpp).                                *)
(*                                                                         *)
(* The streams hold units <<tag, payload>>: words and line ends of source  *)
(* ("src"), its "Attribute" lines ("attr"), records of the stream dir      *)
(* ("dir"), lines of PROJECT ("project") and the tokens of the compression.*)
(***************************************************************************)
EXTENDS CompoundFile

CONSTANTS
  ChunkSize,        \* units a compressed chunk holds at most (3000 in the code)
  GroupSize,        \* tokens after one byte of flags (8 in the code)
  NotIdentifiers    \* names validateVbaModuleName refuses by their characters

Cr == <<"src", "cr">>
Lf == <<"src", "lf">>
Crlf == <<Cr, Lf>>
Least(S) == CHOOSE x \in S : \A y \in S : x <= y
Greatest(S) == CHOOSE x \in S : \A y \in S : x >= y
AtLeastZero(n) == IF n < 0 THEN 0 ELSE n
Same(a, b) == Lower[a] = Lower[b]

(***************************************************************************)
(* Compressed containers.                                                  *)
(***************************************************************************)
RECURSIVE Groups(_)                      \* literals only, in groups
Groups(units) ==
  IF units = <<>> THEN <<>>
  ELSE LET n == IF Len(units) < GroupSize THEN Len(units) ELSE GroupSize
       IN  <<<<"flags", {}>>>> \o SubSeq(units, 1, n) \o Groups(SubSeq(units, n + 1, Len(units)))

RECURSIVE ChunksOf(_)
ChunksOf(units) ==
  IF units = <<>> THEN <<>>
  ELSE LET n == IF Len(units) < ChunkSize THEN Len(units) ELSE ChunkSize
       IN  With(Groups(SubSeq(units, 1, n)), LAMBDA payload :
             <<<<"chunk", Len(payload)>>>> \o payload \o ChunksOf(SubSeq(units, n + 1, Len(units))))

\* compressOvba; the chunk of an empty source claims a byte it does not have.
Signature == <<"container", 1>>
CompressOvba(units) ==
  <<Signature>> \o (IF units = <<>> THEN <<<<"chunk", 1>>>> ELSE ChunksOf(units))

RECURSIVE Repeat(_, _, _)                \* a copy token, unit by unit
Repeat(out, offset, length) ==
  IF length = 0 THEN out
  ELSE Repeat(Append(out, out[Len(out) + 1 - offset]), offset, length - 1)

\* The tokens of a chunk from pos to its end; bit counts the tokens since
\* the flags, out holds this chunk's output.
RECURSIVE Tokens(_, _, _, _, _, _)
Tokens(units, pos, end, flags, bit, out) ==
  IF pos > end THEN [ok |-> TRUE, units |-> out]
  ELSE IF bit = GroupSize THEN Tokens(units, pos + 1, end, units[pos][2], 0, out)
  ELSE IF bit \notin flags THEN Tokens(units, pos + 1, end, flags, bit + 1, Append(out, units[pos]))
  ELSE LET copy == units[pos][2] IN
       IF copy[1] > Len(out) THEN Fail
       ELSE Tokens(units, pos + 1, end, flags, bit + 1, Repeat(out, copy[1], copy[2]))

RECURSIVE Chunks(_, _)
Chunks(units, pos) ==
  IF pos > Len(units) THEN [ok |-> TRUE, units |-> <<>>]
  ELSE IF units[pos][1] \notin {"chunk", "raw"} THEN Fail
  ELSE LET end == pos + units[pos][2]
       IN  IF end > Len(units) THEN Fail
           ELSE Then(IF units[pos][1] = "raw" THEN [ok |-> TRUE, units |-> SubSeq(units, pos + 1, end)]
                     ELSE Tokens(units, pos + 1, end, {}, GroupSize, <<>>), LAMBDA here :
                Then(Chunks(units, end + 1), LAMBDA rest :
                  [ok |-> TRUE, units |-> here.units \o rest.units]))

\* decompressOvba.
DecompressOvba(units, start) ==
  IF start >= Len(units) THEN Fail
  ELSE IF units[start + 1] # Signature THEN Fail ELSE Chunks(units, start + 2)

(***************************************************************************)
(* Source text.                                                            *)
(***************************************************************************)
RECURSIVE LineEnds(_)
LineEnds(source) ==
  IF source = <<>> THEN <<>>
  ELSE IF Head(source) = Cr
  THEN Crlf \o LineEnds(SubSeq(source, IF Len(source) > 1 /\ source[2] = Lf THEN 3 ELSE 2, Len(source)))
  ELSE IF Head(source) = Lf THEN Crlf \o LineEnds(Tail(source))
  ELSE <<Head(source)>> \o LineEnds(Tail(source))

\* normalizeVbaSource (a word has two characters at least).
NormalizeVbaSource(source) ==
  With(LineEnds(source), LAMBDA s : IF s # <<>> /\ s[Len(s)] # Lf THEN s \o Crlf ELSE s)

\* stripGeneratedAttributes: the leading Attribute lines go, whoever wrote them.
RECURSIVE StripGeneratedAttributes(_)
StripGeneratedAttributes(source) ==
  LET ends == {i \in 1..Len(source) - 1 : source[i] = Cr /\ source[i + 1] = Lf}
  IN  IF source = <<>> \/ Head(source)[1] # "attr" THEN source
      ELSE IF ends = {} THEN <<>>
      ELSE StripGeneratedAttributes(SubSeq(source, Least(ends) + 2, Len(source)))

Attr(key, value) == <<<<"attr", <<key, value>>>>>> \o Crlf

\* moduleStreamSource.
ModuleStreamSource(m) ==
  Attr("VB_Name", m.name)
  \o (CASE m.type = "Document" -> Attr("VB_Base", IF Lower[m.name] = "thisworkbook" THEN "workbook" ELSE "worksheet")
        [] m.type = "Designer" -> Attr("VB_Base", IF m.base = "" THEN "form" ELSE m.base)
        [] OTHER -> <<>>)
  \o (IF m.type = "Standard" THEN <<>> ELSE Attr("VB_Exposed", m.type))
  \o NormalizeVbaSource(m.source)

(***************************************************************************)
(* The stream dir.                                                         *)
(***************************************************************************)
Rec(id, v) == <<"dir", <<id, v>>>>

Baseline == << [name |-> "stdole", libid |-> "stdole2.tlb", kind |-> "Registered", extra |-> "", extended |-> ""],
               [name |-> "Office", libid |-> "MSO.DLL", kind |-> "Registered", extra |-> "", extended |-> ""] >>

\* The references written: the baseline, and each of info's unless one of
\* its name or library is there; a same name with another library replaces.
RECURSIVE MergeReferences(_, _)
MergeReferences(known, new) ==
  IF new = <<>> THEN known
  ELSE LET r == Head(new)
           same == {i \in DOMAIN known : Same(known[i].name, r.name) \/ known[i].libid = r.libid}
           at == Least(same)
       IN  MergeReferences(
             IF same = {} THEN Append(known, r)
             ELSE IF known[at].libid # r.libid THEN [known EXCEPT ![at] = r] ELSE known, Tail(new))

WritableReference(r) ==
  /\ r.name # "" /\ r.libid # ""
  /\ r.kind \in {"Project", "Control"} => r.extra # ""

RecordsOfReference(r) ==
  <<Rec("reference", r.name)>>
  \o (CASE r.kind = "Project" -> <<Rec("project", <<r.libid, r.extra>>)>>
        [] r.kind = "Control" -> <<Rec("control", ""),
                                   Rec("reference", IF r.extended = "" THEN r.name ELSE r.extended),
                                   Rec("extended", <<r.libid, r.extra>>)>>
        [] OTHER -> <<Rec("registered", r.libid)>>)

RecordsOfModule(m) ==
  <<Rec("module", m.name), Rec("stream", m.name), Rec("doc", m.doc), Rec("offset", 0),
    Rec("context", AtLeastZero(m.help)),
    Rec("type", IF m.type = "Standard" THEN "procedural" ELSE "other")>>
  \o (IF "readOnly" \in m.flags THEN <<Rec("flag", "readOnly")>> ELSE <<>>)
  \o (IF "private" \in m.flags THEN <<Rec("flag", "private")>> ELSE <<>>)
  \o <<Rec("end", 0)>>

\* buildDirStream.
BuildDirStream(modules, info) ==
  With(MergeReferences(Baseline, info.references), LAMBDA references :
    CompressOvba(
      <<Rec("host", info.host), Rec("name", info.name), Rec("text", info.text),
        Rec("help", AtLeastZero(info.help)), Rec("constants", info.constants)>>
      \o Together([i \in DOMAIN references |-> RecordsOfReference(references[i])], 1)
      \o <<Rec("count", Len(modules))>>
      \o Together([i \in DOMAIN modules |-> RecordsOfModule(modules[i])], 1)))

(***************************************************************************)
(* PROJECT and the whole file.                                             *)
(***************************************************************************)
LineOf(key, value) == <<"project", <<key, value>>>>
Scaffold == LineOf("Scaffold", "xlpp")        \* CMG, DPB, GC and the host info
Stub == <<"stub", "xlpp">>                    \* the seven bytes of _VBA_PROJECT

LinesOfModule(m) ==
  CASE m.type = "Document" -> <<LineOf("Document", m.name)>>
    [] m.type = "Class"    -> <<LineOf("Class", m.name)>>
    [] m.type = "Designer" -> <<LineOf("Package", IF m.classId = "" THEN "userform" ELSE m.classId),
                                LineOf("BaseClass", m.name)>>
    [] OTHER               -> <<LineOf("Module", m.name)>>

\* buildProjectText.
BuildProjectText(modules, info) ==
  <<LineOf("ID", IF info.id = "" THEN "xlpp" ELSE info.id)>>
  \o Together([i \in DOMAIN modules |-> LinesOfModule(modules[i])], 1)
  \o <<LineOf("Name", info.name)>>
  \o (IF info.text = "" THEN <<>> ELSE <<LineOf("Description", info.text)>>)
  \o <<LineOf("HelpContextID", AtLeastZero(info.help)), Scaffold>>

BuildProjectWm(modules) == Append([i \in DOMAIN modules |-> <<"wm", modules[i].name>>], <<"wm", "">>)

\* validateVbaModuleName.
ValidName(name) == name \notin NotIdentifiers /\ Lower[name] # "thisworkbook"

\* The host modules: one a worksheet and ThisWorkbook, with the source and
\* metadata the input gives for them (its help context is not copied).
HostModule(name, modules) ==
  LET given == {i \in DOMAIN modules : modules[i].type = "Document" /\ Same(modules[i].name, name)}
      blank == [name |-> name, type |-> "Document", source |-> <<>>, doc |-> "", flags |-> {}, help |-> 0,
                classId |-> "", base |-> ""]
  IN  IF given = {} THEN blank
      ELSE With(modules[Greatest(given)], LAMBDA last :
             [blank EXCEPT !.source = NormalizeVbaSource(last.source), !.doc = last.doc, !.flags = last.flags])
HostModules(codeNames, modules) ==
  [i \in 1..Len(codeNames) + 1 |->
     HostModule(IF i > Len(codeNames) THEN "ThisWorkbook" ELSE codeNames[i], modules)]
UserModules(modules) == SelectSeq(modules, LAMBDA m : m.type # "Document")

Distinct(names) == \A i, j \in DOMAIN names : Same(names[i], names[j]) => i = j

RECURSIVE InMapOrder(_)          \* a map as a sequence (the order is layout only)
InMapOrder(map) ==
  IF DOMAIN map = {} THEN <<>>
  ELSE LET n == CHOOSE x \in DOMAIN map : TRUE
       IN  <<[name |-> n, data |-> map[n]]>> \o InMapOrder([m \in DOMAIN map \ {n} |-> map[m]])

NamesOf(modules) == [i \in DOMAIN modules |-> modules[i].name]

\* The streams of the storage VBA: a module named like a fixed stream, or
\* like an earlier module, takes its place.
VbaStreams(modules, info) ==
  LET names == NamesOf(modules)
  IN  [n \in {names[i] : i \in DOMAIN names} \cup {"_VBA_PROJECT", "dir"} |->
         IF \E i \in DOMAIN names : names[i] = n
         THEN CompressOvba(ModuleStreamSource(modules[Greatest({i \in DOMAIN names : names[i] = n})]))
         ELSE IF n = "dir" THEN BuildDirStream(modules, info) ELSE <<Stub>>]

\* buildVbaProjectBinary.
BuildVbaProjectBinary(input, codeNames, info) ==
  With(HostModules(codeNames, input) \o UserModules(input), LAMBDA modules :
    IF /\ Distinct(NamesOf(modules))
       /\ \A i \in DOMAIN input : input[i].type # "Document" => ValidName(input[i].name)
       /\ \A i \in DOMAIN info.references : WritableReference(info.references[i])
    THEN BuildCfb(<<[name |-> "PROJECT", data |-> BuildProjectText(modules, info)],
                    [name |-> "PROJECTwm", data |-> BuildProjectWm(modules)]>>,
                  InMapOrder(VbaStreams(modules, info)), info.storages)
    ELSE Fail)

(***************************************************************************)
(* Reading it back.                                                        *)
(***************************************************************************)
\* isXlppGeneratedVbaProjectBinary.
IsXlppGenerated(file) ==
  Then(OpenCfb(file), LAMBDA reader :
  Then(ReadStream(reader, <<"PROJECT">>), LAMBDA project :
  Then(ReadStream(reader, <<"VBA", "_VBA_PROJECT">>), LAMBDA stub :
    [ok |-> stub.units = <<Stub>> /\ \E i \in DOMAIN project.units : project.units[i] = Scaffold]))).ok

DirOf(reader) ==
  Then(ReadStream(reader, <<"VBA", "dir">>), LAMBDA stream : DecompressOvba(stream.units, 0))

IdAt(dir, i) == IF i \in DOMAIN dir THEN dir[i][2][1] ELSE "none"
At(dir, id) == {i \in DOMAIN dir : IdAt(dir, i) = id}

\* The records of one module of parseModuleRecords, in the order required.
RecordAt(dir, pos) ==
  LET ends == {i \in At(dir, "end") : i >= pos}
      end == Least(ends)
  IN  IF [k \in 0..5 |-> IdAt(dir, pos + k)]
           # [k \in 0..5 |-> <<"module", "stream", "doc", "offset", "context", "type">>[k + 1]] \/ ends = {}
      THEN Fail
      ELSE IF \E i \in pos + 6..end - 1 : IdAt(dir, i) # "flag" THEN Fail
      ELSE [ok |-> TRUE, name |-> dir[pos][2][2], doc |-> dir[pos + 2][2][2], offset |-> dir[pos + 3][2][2],
            help |-> dir[pos + 4][2][2],
            type |-> IF dir[pos + 5][2][2] = "procedural" THEN "Standard" ELSE "Document",
            flags |-> {dir[i][2][2] : i \in pos + 6..end - 1}, next |-> end + 1]

RECURSIVE RecordsFrom(_, _, _)
RecordsFrom(dir, pos, count) ==
  IF count = 0 THEN [ok |-> TRUE, records |-> <<>>]
  ELSE Then(RecordAt(dir, pos), LAMBDA r :
       Then(RecordsFrom(dir, r.next, count - 1), LAMBDA rest :
         [ok |-> TRUE, records |-> <<r>> \o rest.records]))

\* parseModuleRecords.
ParseModuleRecords(dir) ==
  With({i \in At(dir, "count") : dir[i][2][2] > 0}, LAMBDA counts :
    IF counts = {} THEN Fail ELSE RecordsFrom(dir, Least(counts) + 1, dir[Least(counts)][2][2]))

KeyAt(lines, i) == lines[i][2][1]
Declarations == {"Document", "Class", "Module", "BaseClass"}
\* The type PROJECT declares for a module (the last line counts), "" if none,
\* and the class of the Package line before a BaseClass line (or a form's).
DeclaredAt(lines, name) ==
  {i \in DOMAIN lines : KeyAt(lines, i) \in Declarations /\ Same(lines[i][2][2], name)}
DeclaredType(lines, name) ==
  IF DeclaredAt(lines, name) = {} THEN ""
  ELSE LET key == KeyAt(lines, Greatest(DeclaredAt(lines, name)))
       IN  CASE key = "Module" -> "Standard" [] key = "BaseClass" -> "Designer" [] OTHER -> key
DeclaredClass(lines, name) ==
  LET at == {i \in DeclaredAt(lines, name) : KeyAt(lines, i) = "BaseClass"}
      packages == {j \in DOMAIN lines : /\ KeyAt(lines, j) = "Package" /\ j < Greatest(at)
                                        /\ \A k \in j + 1..Greatest(at) - 1 : KeyAt(lines, k) \notin Declarations}
  IN  IF at = {} \/ packages = {} THEN "userform" ELSE lines[Greatest(packages)][2][2]

BaseOf(source) ==
  LET at == {i \in DOMAIN source : source[i][1] = "attr" /\ source[i][2][1] = "VB_Base"}
  IN  IF at = {} THEN "form" ELSE source[Least(at)][2][2]

\* One module of readVbaProjectBinary.
ModuleOf(lines, record, text) ==
  LET declared == DeclaredType(lines, record.name)
      type == IF declared = "" THEN record.type ELSE declared
  IN  [name |-> record.name, type |-> type, doc |-> record.doc, flags |-> record.flags, help |-> record.help,
       classId |-> IF type = "Designer" THEN DeclaredClass(lines, record.name) ELSE "",
       base |-> IF type = "Designer" THEN BaseOf(text) ELSE "",
       source |-> NormalizeVbaSource(StripGeneratedAttributes(text))]

RECURSIVE ModulesFrom(_, _, _)
ModulesFrom(reader, lines, records) ==
  IF records = <<>> THEN [ok |-> TRUE, modules |-> <<>>]
  ELSE Then(ReadStream(reader, <<"VBA", Head(records).name>>), LAMBDA stream :
       Then(DecompressOvba(stream.units, Head(records).offset), LAMBDA text :
       Then(ModulesFrom(reader, lines, Tail(records)), LAMBDA rest :
         [ok |-> TRUE, modules |-> <<ModuleOf(lines, Head(records), text.units)>> \o rest.modules])))

\* readVbaProjectBinary: without a stream PROJECT the types of dir hold.
ReadVbaProjectBinary(file) ==
  Then(OpenCfb(file), LAMBDA reader :
  Then(DirOf(reader), LAMBDA dir :
  Then(ParseModuleRecords(dir.units), LAMBDA records :
  With(ReadStream(reader, <<"PROJECT">>), LAMBDA project :
    ModulesFrom(reader, IF project.ok THEN project.units ELSE <<>>, records.records)))))

\* The reference a "reference" record starts, if the next record is of a kind.
ReferenceAt(dir, i) ==
  LET r == [name |-> dir[i][2][2], kind |-> "Registered", libid |-> "", extra |-> "", extended |-> ""]
      value == dir[i + 1][2][2]
  IN  CASE IdAt(dir, i + 1) = "registered" -> <<[r EXCEPT !.libid = value]>>
        [] IdAt(dir, i + 1) = "project" ->
             <<[r EXCEPT !.kind = "Project", !.libid = value[1], !.extra = value[2]]>>
        [] IdAt(dir, i + 1) = "control" /\ IdAt(dir, i + 2) = "reference" /\ IdAt(dir, i + 3) = "extended" ->
             <<[r EXCEPT !.kind = "Control", !.extended = dir[i + 2][2][2],
                         !.libid = dir[i + 3][2][2][1], !.extra = dir[i + 3][2][2][2]]>>
        [] OTHER -> <<>>
ReadReferences(dir) ==
  Together([i \in DOMAIN dir |-> IF IdAt(dir, i) = "reference" THEN ReferenceAt(dir, i) ELSE <<>>], 1)

LineValue(lines, key, default) ==
  LET at == {i \in DOMAIN lines : KeyAt(lines, i) = key}
  IN  IF at = {} THEN default ELSE lines[Greatest(at)][2][2]
RecordValue(dir, id, default) ==
  IF At(dir, id) = {} THEN default ELSE dir[Least(At(dir, id))][2][2]

RECURSIVE StoragesIn(_, _)
StoragesIn(reader, names) ==
  IF names = {} THEN <<>>
  ELSE LET n == CHOOSE x \in names : TRUE
           paths == InMapOrder([p \in StreamsUnder(reader, n) |-> ReadStream(reader, p).units])
       IN  <<[name |-> n, streams |-> [i \in DOMAIN paths |->
                                         [path |-> Tail(paths[i].name), data |-> paths[i].data]]]>>
           \o StoragesIn(reader, names \ {n})

\* readVbaProjectInfoBinary: only a storage that a BaseClass line names shows;
\* what dir tells is left at its defaults when dir cannot be read.
Shown(reader, lines) ==
  {s \in RootStorages(reader) : Lower[s] # "vba"
     /\ \E i \in DOMAIN lines : KeyAt(lines, i) = "BaseClass" /\ Same(lines[i][2][2], s)}

InfoFrom(reader, lines, dir) ==
  [ok |-> TRUE,
   info |-> [id |-> LineValue(lines, "ID", ""), name |-> LineValue(lines, "Name", "VBAProject"),
             text |-> LineValue(lines, "Description", ""), help |-> LineValue(lines, "HelpContextID", 0),
             host |-> RecordValue(dir, "host", "default"), constants |-> RecordValue(dir, "constants", ""),
             references |-> ReadReferences(dir), storages |-> StoragesIn(reader, Shown(reader, lines))]]
ReadVbaProjectInfoBinary(file) ==
  Then(OpenCfb(file), LAMBDA reader :
  Then(ReadStream(reader, <<"PROJECT">>), LAMBDA project :
  With(DirOf(reader), LAMBDA dir :
    InfoFrom(reader, project.units, IF dir.ok THEN dir.units ELSE <<>>))))
=============================================================================

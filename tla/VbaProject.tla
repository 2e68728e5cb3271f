----------------------------- MODULE VbaProject -----------------------------
(***************************************************************************)
(* The VBA project of a workbook: the operations of                        *)
(* src/src/XLPP/Workbook/WorkbookVba.cpp with the parts of Workbook.cpp    *)
(* that name the worksheets' document modules, rebuild a generated project *)
(* at save and recognise one at load.                                      *)
(*                                                                         *)
(* Every operation reads the whole project back from its bytes, changes    *)
(* modules or info, and builds new bytes.  asked is a ghost: what the      *)
(* successful calls asked for.                                             *)
(***************************************************************************)
EXTENDS VbaProjectFile, UserForm

CONSTANTS
  SheetNames,        \* the code names "Sheet1", "Sheet2", ... in order
  Modules,           \* modules a caller sets (not designers)
  Designers,         \* [name, source, storage] a caller sets
  Designs,           \* [name, source, form]: user forms a caller adds
  Infos,             \* project infos a caller sets (storages <<>>)
  RemovedNames,      \* names of modules and storages a caller removes
  FormPatches,       \* patches of a form
  ObjectPatches,     \* <<index, patch>> of a control's object
  SitePatches,       \* <<index, patch>> of a control's site
  Attached,          \* a project written by another program
  AttachedAsk,       \* what it holds, as asked
  Packages,          \* workbooks already saved, to load
  MaxSheets, MaxCalls,       \* bounds
  Reissue,           \* may a worksheet be added after one is removed?
  NoAsk              \* no project

VARIABLES
  wb,        \* sheets (their code names, "" for none), part, signed, generated
  saved,     \* the saved package: sheets, part, signed; its part is Fail at first
  asked,     \* ghost: the project asked for
  made,      \* worksheets ever made
  calls
vars == <<wb, saved, asked, made, calls>>

NoProject == Fail
HasProject(w) == w.part # NoProject

(***************************************************************************)
(* Code names of the worksheets.                                           *)
(***************************************************************************)
RECURSIVE Issue(_, _, _)        \* the names "SheetN" nobody has, in order
Issue(codes, i, n) ==
  IF i > Len(codes) THEN codes
  ELSE IF codes[i] # "" THEN Issue(codes, i + 1, n)
  ELSE IF \E k \in DOMAIN codes : codes[k] # "" /\ Same(codes[k], SheetNames[n]) THEN Issue(codes, i, n + 1)
  ELSE Issue([codes EXCEPT ![i] = SheetNames[n]], i + 1, n + 1)
\* resolvedWorksheetVbaCodeNames, ensureWorksheetVbaCodeNames.
Resolved(sheets) == Issue(sheets, 1, 1)

(***************************************************************************)
(* Operations on the workbook w; Fail when the code throws.                *)
(***************************************************************************)
Ok(w) == [ok |-> TRUE, w |-> w]

\* Mutant: the old signature stays.
WithPartSigned(w, part, generated) == [w EXCEPT !.part = part, !.generated = generated]
\* setVbaProject: the bytes, without a signature.
WithPart(w, part, generated) == [w EXCEPT !.part = part, !.signed = FALSE, !.generated = generated]

\* setVbaProject(buildVbaProjectBinary(...)); generatedVbaProject_ = true.
Rebuild(w, modules, info) ==
  With(Resolved(w.sheets), LAMBDA codes :
    Then(BuildVbaProjectBinary(modules, codes, info), LAMBDA built :
      Ok(WithPart([w EXCEPT !.sheets = codes], built.file, TRUE))))

NoInfo == [id |-> "", name |-> "VBAProject", text |-> "", help |-> 0, host |-> "default", constants |-> "",
           references |-> <<>>, storages |-> <<>>]
ModulesOf(w) == IF HasProject(w) THEN ReadVbaProjectBinary(w.part) ELSE [ok |-> TRUE, modules |-> <<>>]
InfoOf(w) == IF HasProject(w) THEN ReadVbaProjectInfoBinary(w.part) ELSE [ok |-> TRUE, info |-> NoInfo]
\* vbaModules and vbaProjectInfo where a failure is caught.
InfoShown(w) == With(InfoOf(w), LAMBDA read : IF read.ok THEN read.info ELSE NoInfo)

\* A list of named records: one of the name replaced or appended, or removed.
Named(list, name) == {i \in DOMAIN list : Same(list[i].name, name)}
PutNamed(list, x) ==
  With(Named(list, x.name), LAMBDA at : IF at = {} THEN Append(list, x) ELSE [list EXCEPT ![Least(at)] = x])
Without(list, name) == SelectSeq(list, LAMBDA x : ~Same(x.name, name))

\* setVbaModule.
Acceptable(w, m) ==
  IF m.type = "Document"
  THEN Lower[m.name] = "thisworkbook" \/ \E code \in {Resolved(w.sheets)[i] : i \in DOMAIN w.sheets} : Same(code, m.name)
  ELSE ValidName(m.name)
KindKept(modules, m) ==
  \A i \in Named(modules, m.name) : (modules[i].type = "Document") = (m.type = "Document")
Normalized(m) == [m EXCEPT !.source = NormalizeVbaSource(@)]
SetVbaModule(w, m) ==
  IF ~Acceptable(w, m) THEN Fail
  ELSE Then(ModulesOf(w), LAMBDA read : Then(InfoOf(w), LAMBDA info :
         IF KindKept(read.modules, m) THEN Rebuild(w, PutNamed(read.modules, Normalized(m)), info.info) ELSE Fail))

\* setVbaProjectInfo (a name longer than 31 characters is in NotIdentifiers).
SetVbaProjectInfo(w, info) ==
  IF info.name \in NotIdentifiers THEN Fail
  ELSE Then(ModulesOf(w), LAMBDA read : Rebuild(w, read.modules, info))

\* setVbaDesignerStorage and removeVbaDesignerStorage.
WithStorages(w, info, storages) == SetVbaProjectInfo(w, [info EXCEPT !.storages = storages])
SetVbaDesignerStorage(w, s) ==
  IF s.name = "" \/ ~HasProject(w) THEN Fail
  ELSE Then(InfoOf(w), LAMBDA read : WithStorages(w, read.info, PutNamed(read.info.storages, s)))
RemoveVbaDesignerStorage(w, name) ==
  IF ~HasProject(w) THEN Fail
  ELSE Then(InfoOf(w), LAMBDA read :
         IF Named(read.info.storages, name) = {} THEN Fail
         ELSE WithStorages(w, read.info, Without(read.info.storages, name)))

\* setVbaDesignerModule: the module, then its storage.
DesignerModule(name, source) ==
  [name |-> name, type |-> "Designer", source |-> source, doc |-> "", flags |-> {}, help |-> 0,
   classId |-> "userform", base |-> "form"]
SetVbaDesignerModule(w, name, source, storage) ==
  IF storage.name # name THEN Fail
  ELSE Then(SetVbaModule(w, DesignerModule(name, source)), LAMBDA set : SetVbaDesignerStorage(set.w, storage))

\* addUserForm: the streams of the design and the source with its handler.
One(bytes) == <<<<"bytes", bytes>>>>
StorageOf(design) ==
  With(BuildUserForm(design.form), LAMBDA built :
    [name |-> design.name,
     streams |-> << [path |-> <<"f">>, data |-> One(built.f)], [path |-> <<"o">>, data |-> One(built.o)],
                    [path |-> <<"f3">>, data |-> One(<<>>)], [path |-> <<"Designer">>, data |-> One(<<>>)] >>])
Handler == <<Lf, <<"src", "Initialize">>, Lf>>
AddForm(w, design) == SetVbaDesignerModule(w, design.name, design.source \o Handler, StorageOf(design))

\* removeVbaModule: the project goes with the last source that is not empty.
Goes(m, name) == m.type # "Document" /\ Same(m.name, name)
Empty(modules) == \A i \in DOMAIN modules : modules[i].type = "Document" /\ modules[i].source = <<>>
InfoWithout(w, gone, name) ==
  IF \E i \in DOMAIN gone : gone[i].type = "Designer"
  THEN [InfoShown(w) EXCEPT !.storages = Without(@, name)] ELSE InfoShown(w)
RemoveVbaModule(w, name) ==
  IF ~HasProject(w) THEN Fail
  ELSE Then(ModulesOf(w), LAMBDA read :
    With(SelectSeq(read.modules, LAMBDA m : Goes(m, name)), LAMBDA gone :
    With(SelectSeq(read.modules, LAMBDA m : ~Goes(m, name)), LAMBDA left :
      IF gone = <<>> THEN Fail
      ELSE IF Empty(left) THEN Ok(WithPart(w, NoProject, FALSE))
      ELSE Rebuild(w, left, InfoWithout(w, gone, name)))))

(***************************************************************************)
(* Form edits on the streams "f" and "o" of a designer.                    *)
(***************************************************************************)
StreamAt(storage, name) == {i \in DOMAIN storage.streams : storage.streams[i].path = <<name>>}
BytesAt(storage, name) == storage.streams[Least(StreamAt(storage, name))].data[1][2]
HasStreams(storage) == StreamAt(storage, "f") # {} /\ StreamAt(storage, "o") # {}
WithBytes(storage, f, o) ==
  [storage EXCEPT !.streams = [i \in DOMAIN @ |->
     IF @[i].path = <<"f">> THEN [@[i] EXCEPT !.data = One(f)]
     ELSE IF @[i].path = <<"o">> THEN [@[i] EXCEPT !.data = One(o)] ELSE @[i]]]

\* The storages of the project that hold a form.
Forms(w) ==
  IF HasProject(w)
  THEN With(InfoShown(w).storages, LAMBDA all : {all[i] : i \in {j \in DOMAIN all : HasStreams(all[j])}})
  ELSE {}

\* The storage after an edit, and the project with it.
Edited(storage, result) ==
  WithBytes(storage, result.f, IF "o" \in DOMAIN result THEN result.o ELSE BytesAt(storage, "o"))
WithForm(w, storage, result) ==
  IF result.outcome = "ok" THEN SetVbaDesignerStorage(w, Edited(storage, result)) ELSE Fail

(***************************************************************************)
(* The ghost: modules in order, documents by code name, the info, and what *)
(* each form shows.                                                        *)
(***************************************************************************)
FreshAsk == [modules |-> <<>>, info |-> NoInfo, views |-> Nowhere, edited |-> TRUE]
Ask == IF asked = NoAsk THEN FreshAsk ELSE asked
AskModule(a, m) == [a EXCEPT !.modules = PutNamed(@, [Normalized(m) EXCEPT !.help = AtLeastZero(@)])]
AskStorage(a, s, view) ==
  [a EXCEPT !.info.storages = PutNamed(@, s), !.views = (s.name :> view) @@ @]
AskNoStorage(a, name) == [a EXCEPT !.info.storages = Without(@, name)]
AskNoModule(a, name) == [a EXCEPT !.modules = SelectSeq(@, LAMBDA m : ~Goes(m, name))]
AskNoDocument(a, code) == [a EXCEPT !.modules = SelectSeq(@, LAMBDA m : m.type # "Document" \/ ~Same(m.name, code))]

\* What a form shows, less the sizes an edit may change; what a design asks.
Unsized(site) == [p \in DOMAIN site \ {"objectStreamSize"} |-> site[p]]
ViewOf(storage) ==
  IF HasStreams(storage)
  THEN Then(InspectUserForm(BytesAt(storage, "f"), BytesAt(storage, "o")), LAMBDA shown :
         [shown EXCEPT !.sites = [k \in DOMAIN @ |-> Unsized(@[k])]])
  ELSE Fail
DesignView(design) ==
  With(design.form.controls, LAMBDA controls :
    [ViewOf(StorageOf(design)) EXCEPT
       !.form = [caption |-> design.form.caption] @@ @,
       !.sites = [k \in DOMAIN controls |->
                    [name |-> controls[k].name, controlTipText |-> controls[k].tip] @@ @[k]],
       !.objects = [k \in DOMAIN controls |->
                      [n \in DOMAIN @[k] \cap DOMAIN controls[k].texts |-> controls[k].texts[n]] @@ @[k]]])

(***************************************************************************)
(* Actions.                                                                *)
(***************************************************************************)
Call(result, ask) ==
  /\ calls < MaxCalls
  /\ calls' = calls + 1
  /\ IF result.ok
     THEN wb' = result.w /\ asked' = IF ask = NoAsk THEN NoAsk ELSE [ask EXCEPT !.edited = TRUE]
     ELSE UNCHANGED <<wb, asked>>
  /\ UNCHANGED <<saved, made>>

\* addWorksheet: code names at once only in a generated project.
AddWorksheet ==
  /\ calls < MaxCalls /\ Len(wb.sheets) < MaxSheets /\ (Reissue \/ made = Len(wb.sheets))
  /\ LET sheets == Append(wb.sheets, "")
     IN  wb' = [wb EXCEPT !.sheets = IF wb.generated THEN Resolved(sheets) ELSE sheets]
  /\ calls' = calls + 1 /\ made' = made + 1
  /\ UNCHANGED <<saved, asked>>

\* removeWorksheet: its document module goes with it.
RemoveWorksheet ==
  \E i \in DOMAIN wb.sheets :
    /\ calls < MaxCalls /\ Len(wb.sheets) > 1
    /\ wb' = [wb EXCEPT !.sheets = SubSeq(@, 1, i - 1) \o SubSeq(@, i + 1, Len(@))]
    /\ asked' = IF asked = NoAsk THEN asked ELSE AskNoDocument(asked, wb.sheets[i])
    /\ calls' = calls + 1
    /\ UNCHANGED <<saved, made>>

SetModule == \E m \in Modules : Call(SetVbaModule(wb, m), AskModule(Ask, m))
SetDesigner ==
  \E d \in Designers :
    Call(SetVbaDesignerModule(wb, d.name, d.source, d.storage),
         AskStorage(AskModule(Ask, DesignerModule(d.name, d.source)), d.storage, ViewOf(d.storage)))
AddUserForm ==
  \E d \in Designs :
    Call(AddForm(wb, d),
         AskStorage(AskModule(Ask, DesignerModule(d.name, d.source \o Handler)), StorageOf(d), DesignView(d)))
SetStorage ==             \* of a designer the project has
  \E d \in Designers :
    /\ \E i \in DOMAIN Ask.modules : Ask.modules[i].type = "Designer" /\ Same(Ask.modules[i].name, d.name)
    /\ Call(SetVbaDesignerStorage(wb, d.storage), AskStorage(Ask, d.storage, ViewOf(d.storage)))
RemoveStorage == \E n \in RemovedNames : Call(RemoveVbaDesignerStorage(wb, n), AskNoStorage(Ask, n))
SetInfo ==
  \E i \in Infos :
    Call(SetVbaProjectInfo(wb, [i EXCEPT !.storages = InfoShown(wb).storages]),
         [Ask EXCEPT !.info = [i EXCEPT !.storages = Ask.info.storages]])
RemoveModule ==
  \E n \in RemovedNames :
    With(RemoveVbaModule(wb, n), LAMBDA result :
      Call(result, IF ~result.ok THEN asked ELSE IF ~HasProject(result.w) THEN NoAsk
                   ELSE AskNoStorage(AskNoModule(Ask, n), n)))

\* updateVbaUserFormProperties, -ControlObject and -ControlSite, for inputs on
\* which the edit is defined: the view is the old one with the patch.
Edit(s, result, view) ==
  /\ result.outcome # "undefined"
  /\ Call(WithForm(wb, s, result), IF result.outcome = "ok" THEN AskStorage(Ask, Edited(s, result), view) ELSE asked)
EditForm ==
  \E s \in Forms(wb) :
    \/ \E p \in FormPatches :
         Edit(s, UpdateForm(BytesAt(s, "f"), p), [Ask.views[s.name] EXCEPT !.form = p @@ @])
    \/ \E p \in ObjectPatches :
         Edit(s, UpdateObject(BytesAt(s, "f"), BytesAt(s, "o"), p[1], p[2]),
              [Ask.views[s.name] EXCEPT !.objects[p[1]] = p[2] @@ @])
    \/ \E p \in SitePatches :
         Edit(s, UpdateSite(BytesAt(s, "f"), p[1], p[2]), [Ask.views[s.name] EXCEPT !.sites[p[1]] = p[2] @@ @])

\* setVbaProject with a project of another program, removeVbaProject.
Attach ==
  /\ calls < MaxCalls
  /\ wb' = WithPart(wb, Attached, FALSE) /\ asked' = AttachedAsk /\ calls' = calls + 1
  /\ UNCHANGED <<saved, made>>
RemoveProject == HasProject(wb) /\ Call(Ok(WithPart(wb, NoProject, FALSE)), NoAsk)

\* save: the sheets' code names are written when there is a project, and a
\* generated project is rebuilt for them.
\* Mutant: the bytes of the last change.
RebuiltEarlier(codes) == [ok |-> TRUE, file |-> wb.part]
Rebuilt(codes) ==
  IF wb.generated THEN BuildVbaProjectBinary(ModulesOf(wb).modules, codes, InfoShown(wb))
  ELSE [ok |-> TRUE, file |-> wb.part]
Save ==
  \/ With(Rebuilt(Resolved(wb.sheets)), LAMBDA built :
       /\ HasProject(wb) /\ built.ok
       /\ saved' = [sheets |-> Resolved(wb.sheets), part |-> built.file, signed |-> wb.signed, asked |-> asked]
       /\ saved' # saved
       /\ UNCHANGED <<wb, asked, made, calls>>)
  \/ /\ ~HasProject(wb)
     /\ saved' = [sheets |-> [i \in DOMAIN wb.sheets |-> ""], part |-> NoProject, signed |-> wb.signed, asked |-> asked]
     /\ saved' # saved
     /\ UNCHANGED <<wb, asked, made, calls>>

\* load: the code names of the sheets, and whether the project is our own.
Reload ==
  /\ saved # NoAsk
  /\ wb' = [sheets |-> saved.sheets, part |-> saved.part, signed |-> saved.signed,
            generated |-> HasProject(saved) /\ IsXlppGenerated(saved.part)]
  /\ asked' = saved.asked /\ made' = Len(saved.sheets)
  /\ wb' # wb
  /\ UNCHANGED <<saved, calls>>

Init ==
  /\ wb = [sheets |-> <<"">>, part |-> NoProject, signed |-> FALSE, generated |-> FALSE]
  /\ saved \in {NoAsk} \cup Packages
  /\ asked = NoAsk /\ made = 1 /\ calls = 0

Next ==
  \/ AddWorksheet \/ RemoveWorksheet \/ SetModule \/ SetDesigner \/ AddUserForm \/ SetStorage
  \/ RemoveStorage \/ SetInfo \/ RemoveModule \/ EditForm \/ Attach \/ RemoveProject \/ Save \/ Reload

Spec == Init /\ [][Next]_vars

(***************************************************************************)
(* Properties.                                                             *)
(***************************************************************************)
Generated(p) == HasProject(p) /\ IsXlppGenerated(p.part)

\* The document modules Excel expects: one a worksheet, in order, and the
\* workbook's, with the sources and metadata asked for.
ExpectedModules(a, codes) ==
  [i \in 1..Len(codes) + 1 |-> HostModule(IF i > Len(codes) THEN "ThisWorkbook" ELSE codes[i], a.modules)]
  \o UserModules(a.modules)

Visible(a) ==
  {a.info.storages[i] : i \in {j \in DOMAIN a.info.storages :
     \E k \in DOMAIN a.modules : a.modules[k].type = "Designer"
                                 /\ Same(a.modules[k].name, a.info.storages[j].name)}}
AsSet(storage) == [name |-> storage.name, streams |-> {storage.streams[i] : i \in DOMAIN storage.streams}]

\* A saved project that XL++ wrote holds what the calls asked for: the
\* document modules of exactly the saved worksheets, the modules set and not
\* removed, the info and the storages of the designers, stream by stream
\* (Workbook.cpp: 2107, "Rebuild it at save time so worksheets added or removed
\* ... cannot leave vbaProject.bin out of sync with sheetPr codeName").
SavedShowsCalls ==
  saved # NoAsk /\ Generated(saved) =>
    LET a == saved.asked
        modules == ReadVbaProjectBinary(saved.part)
        read == ReadVbaProjectInfoBinary(saved.part)
    IN  /\ modules.ok /\ read.ok
        /\ modules.modules = ExpectedModules(a, saved.sheets)
        /\ [read.info EXCEPT !.storages = <<>>, !.references = <<>>, !.id = ""]
             = [a.info EXCEPT !.storages = <<>>, !.references = <<>>, !.id = "", !.help = AtLeastZero(@)]
        /\ \A i \in DOMAIN a.info.references :
             \E j \in DOMAIN read.info.references :
               read.info.references[j].libid = a.info.references[i].libid
        /\ {AsSet(read.info.storages[i]) : i \in DOMAIN read.info.storages} = {AsSet(s) : s \in Visible(a)}

\* A project of another program is saved byte for byte until a call changes
\* it, through any number of saves and loads, and a signature is saved only
\* with the bytes it signs (Workbook.cpp: 2107-2112, WorkbookVba.cpp: 559).
AttachedKept ==
  saved # NoAsk /\ HasProject(saved) =>
    /\ ~saved.asked.edited \/ saved.signed => saved.part = Attached
    /\ saved.asked.edited => Generated(saved)

\* A form edit changes the properties it names and nothing else the form
\* shows, its strings, sites and control objects included (WorkbookVba.cpp:
\* 386-392, "the following string/Size fields must stay aligned").
EditsKeepTheRest ==
  \A s \in Forms(wb) : s.name \in DOMAIN Ask.views => ViewOf(s) = Ask.views[s.name]
=============================================================================

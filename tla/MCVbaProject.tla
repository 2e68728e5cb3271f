---------------------------- MODULE MCVbaProject ----------------------------
(***************************************************************************)
(* A workbook of up to two worksheets, the project of another program (a   *)
(* performance cache before each source, copy tokens, a form with a class  *)
(* table and sized controls) and a handful of calls.                       *)
(***************************************************************************)
EXTENDS VbaProject

MCSheetNames == <<"Sheet1", "Sheet2", "Sheet3">>
MCShorter == <<"", "f", "o", "x", "f3", "dir", "lib", "mod", "sub", "vba", "form", "other", "office", "sheet1",
               "sheet2", "sheet3", "stdole", "project", "designer", "bad name", "projectwm", "root entry",
               "thisworkbook", "_vba_project">>
MCNames == {"", "f", "o", "x", "f3", "dir", "Lib", "Mod", "MOD", "sub", "VBA", "Form", "Other", "Office",
            "Sheet1", "Sheet2", "Sheet3", "stdole", "PROJECT", "Designer", "bad name", "PROJECTwm",
            "Root Entry", "ThisWorkbook", "_VBA_PROJECT"}
MCLower == [n \in MCNames \cup {MCShorter[i] : i \in DOMAIN MCShorter} |->
  CASE n = "Lib" -> "lib" [] n \in {"Mod", "MOD"} -> "mod" [] n = "VBA" -> "vba" [] n = "Form" -> "form"
    [] n = "Other" -> "other" [] n = "Office" -> "office" [] n = "Sheet1" -> "sheet1"
    [] n = "Sheet2" -> "sheet2" [] n = "Sheet3" -> "sheet3" [] n = "PROJECT" -> "project"
    [] n = "Designer" -> "designer" [] n = "PROJECTwm" -> "projectwm" [] n = "Root Entry" -> "root entry"
    [] n = "ThisWorkbook" -> "thisworkbook" [] n = "_VBA_PROJECT" -> "_vba_project" [] OTHER -> n]
MCNotIdentifiers == {"", "bad name"}

W(word) == <<"src", word>>
Plain(name, type, source) ==
  [name |-> name, type |-> type, source |-> source, doc |-> "", flags |-> {}, help |-> 0, classId |-> "", base |-> ""]
MCModules ==
  { [Plain("Mod", "Standard", <<W("Sub"), Lf, W("End"), Cr, Lf, W("Rem")>>) EXCEPT
       !.doc = "about", !.flags = {"readOnly", "private"}, !.help = -1],
    [Plain("MOD", "Class", <<W("Dim"), Cr>>) EXCEPT !.help = 7],
    Plain("ThisWorkbook", "Document", <<W("Open")>>),
    Plain("Sheet1", "Document", <<W("Change"), Lf>>), Plain("Sheet2", "Standard", <<W("Oops")>>),
    Plain("Other", "Document", <<>>) }
MCDesigners ==
  { [name |-> "Form", source |-> <<W("Show")>>,
     storage |-> [name |-> "Form", streams |-> << [path |-> <<"x">>, data |-> <<>>],
                    [path |-> <<"sub", "x">>, data |-> <<<<"raw byte", 1>>, <<"raw byte", 2>>>>] >>]] }

Control(kind, name, caption, value) ==
  [kind |-> kind, name |-> name, tip |-> <<84, 105>>, tabIndex |-> <<1, 0>>, position |-> <<1, 0, 0, 0, 2, 0, 0, 0>>,
   fields |-> [backColor |-> <<5, 6, 7, 128>>, maxLength |-> <<9, 0, 0, 0>>],
   texts |-> [caption |-> caption, text |-> <<72>>, value |-> value, groupName |-> <<>>, columnWidths |-> <<>>]]
MCDesigns ==
  { [name |-> "Form", source |-> <<W("Load")>>,
     form |-> [fields |-> [backColor |-> <<1, 2, 3, 4>>], caption |-> <<72, 105>>, size |-> <<9, 0, 0, 0, 8, 0, 0, 0>>,
               controls |-> <<Control("TextBox", <<65>>, <<97, 98>>, <<70, 97>>),
                              Control("Label", <<66, 66>>, <<300>>, <<>>)>>]] }
MCInfos ==
  { [NoInfo EXCEPT !.name = "Named", !.text = "about", !.help = -3, !.host = "64-bit", !.constants = "Debug = 1",
       !.references = << [name |-> "Lib", libid |-> "lib.tlb", kind |-> "Registered", extra |-> "", extended |-> ""],
                         [name |-> "Mod", libid |-> "other.xls", kind |-> "Project", extra |-> "rel", extended |-> ""],
                         [name |-> "Form", libid |-> "ctl.ocx", kind |-> "Control", extra |-> "guid", extended |-> ""],
                         [name |-> "Office", libid |-> "MSO2.DLL", kind |-> "Registered", extra |-> "", extended |-> ""] >>],
    [NoInfo EXCEPT !.name = ""] }
MCRemoved == {"Mod", "Form"}
MCFormPatches == { [caption |-> <<300, 301, 302>>, backColor |-> <<9, 9, 9, 9>>], [zoom |-> <<1, 0, 0, 0>>] }
MCObjectPatches == { <<1, [text |-> <<80, 81, 82, 83, 84>>, maxLength |-> <<1, 1, 0, 0>>]>>,
                     <<1, [caption |-> <<120, 121>>]>>, <<2, [caption |-> <<99, 99, 99>>]>> }
MCSitePatches == { <<1, [name |-> <<65, 65, 65>>, tabIndex |-> <<3, 0>>]>>,
                   <<2, [controlTipText |-> <<400>>, name |-> <<67>>]>> }

(***************************************************************************)
(* The project of another program.                                         *)
(***************************************************************************)
Squeezed(units) ==             \* a repeated unit is a copy token
  LET earlier(i) == {j \in 1..i - 1 : units[j] = units[i]}
      token(i) == IF earlier(i) = {} THEN units[i] ELSE <<"copy", <<i - Greatest(earlier(i)), 1>>>>
      groups == CeilDiv(Len(units), GroupSize)
      in(g) == (g - 1) * GroupSize + 1..Smaller(g * GroupSize, Len(units))
      payload == Together([g \in 1..groups |->
                   <<<<"flags", {i - (g - 1) * GroupSize - 1 : i \in {j \in in(g) : earlier(j) # {}}}>>>>
                   \o [k \in 1..Len(SubSeq(units, (g - 1) * GroupSize + 1, Smaller(g * GroupSize, Len(units)))) |->
                         token((g - 1) * GroupSize + k)]], 1)
  IN  <<Signature, <<"chunk", Len(payload)>>>> \o payload
Raw(units) == <<Signature, <<"raw", Len(units)>>>> \o units

\* Streams "f" and "o" with every property of a text box and of a button, sizes
\* included, every property of their sites, a run of depths and a class table.
ForeignSite(size, index) ==
  <<0, 0, 64, 0, 255, 123, 0, 0, 1, 0, 0, 128, 1, 0, 0, 128>> \o Zeros(12) \o <<size, 0, 0, 0, 0, 0, index>>
  \o Zeros(7) \o <<0, 128, 0, 0, 0, 128, 2, 0, 0, 128, 0, 0, 0, 128, 84, 103>> \o Zeros(8) \o <<67, 49>>
ForeignF ==
  <<0, 4, 21, 0, 2, 16, 8, 0, 0, 0, 0, 0, 1, 0, 0, 128>> \o Zeros(8)
  \o <<70, 1, 0, 0, 0, 4, 0, 9, 9, 9, 9, 2, 0, 0, 0, 140, 0, 0, 0, 1, 130, 1, 0>>
  \o ForeignSite(112, 23) \o ForeignSite(48, 17)
ForeignO ==
  <<0, 2, 108, 0, 255, 255, 255, 255>> \o Zeros(12) \o <<3, 0, 0, 128>> \o Zeros(36) \o <<1, 0, 0, 128>> \o Zeros(8)
  \o <<1, 0, 0, 128>> \o Zeros(16) \o <<97, 98, 99, 0, 104, 0, 0, 0, 49, 0, 0, 0, 7, 0, 0, 0, 8, 0, 0, 0>>
  \o <<0, 2, 44, 0, 255, 5, 0, 0>> \o Zeros(12) \o <<3, 0, 0, 128>> \o Zeros(12)
  \o <<97, 98, 99, 0, 7, 0, 0, 0, 8, 0, 0, 0>>

ForeignForm == [name |-> "Form", streams |-> <<[path |-> <<"f">>, data |-> One(ForeignF)],
                                               [path |-> <<"o">>, data |-> One(ForeignO)]>>]
ForeignModules ==
  << [Plain("Sheet1", "Document", <<W("Mine")>> \o Crlf) EXCEPT !.doc = "d"],
     Plain("ThisWorkbook", "Document", <<>>),
     [Plain("Form", "Designer", <<W("Go"), Cr, Lf>>) EXCEPT !.classId = "other form", !.base = "other base"],
     Plain("Mod", "Standard", <<W("Top")>> \o Crlf \o <<W("Top")>> \o Crlf) >>
ForeignInfo == [NoInfo EXCEPT !.name = "Foreign", !.text = "theirs", !.storages = <<ForeignForm>>,
                  !.references = <<[name |-> "Lib", libid |-> "lib.tlb", kind |-> "Registered", extra |-> "", extended |-> ""]>>]
Stubs == <<"stub", "other">>
Cached(record) == IF record = Rec("offset", 0) THEN Rec("offset", 1) ELSE record
RecordsWithCache(m) == With(RecordsOfModule(m), LAMBDA records : [k \in DOMAIN records |-> Cached(records[k])])
ForeignDir(modules, references) ==
  <<Rec("host", "default"), Rec("constants", "")>>
  \o Together([i \in DOMAIN references |-> RecordsOfReference(references[i])], 1)
  \o <<Rec("count", Len(modules))>> \o Together([i \in DOMAIN modules |-> RecordsWithCache(modules[i])], 1)
ForeignProject(modules) ==
  Together([i \in DOMAIN modules |-> LinesOfModule(modules[i])], 1)
  \o <<LineOf("ID", "theirs"), LineOf("Name", "Foreign"), LineOf("Description", "theirs"), Scaffold>>
MCAttached ==
  With(ForeignModules, LAMBDA modules :
    BuildCfb(<<[name |-> "PROJECT", data |-> ForeignProject(modules)]>>,
             <<[name |-> "_VBA_PROJECT", data |-> <<Stubs>>],
               [name |-> "dir", data |-> Raw(ForeignDir(modules, ForeignInfo.references))]>>
             \o [i \in DOMAIN modules |->
                   [name |-> modules[i].name, data |-> <<<<"cache", i>>>> \o Squeezed(ModuleStreamSource(modules[i]))]],
             <<ForeignForm>>).file)
MCAttachedAsk ==
  With(ForeignForm, LAMBDA form :
    [modules |-> ForeignModules, info |-> ForeignInfo, views |-> "Form" :> ViewOf(form), edited |-> FALSE])

\* A signed package of the other program, and one of ours: two worksheets, a
\* document source, a module, a form.
OwnAsk(design) ==
  [modules |-> << [Plain("Sheet1", "Document", <<W("Change")>> \o Crlf) EXCEPT !.doc = "d"],
                  Plain("Mod", "Standard", <<W("Top")>> \o Crlf),
                  DesignerModule("Form", NormalizeVbaSource(design.source \o Handler)) >>,
   info |-> [NoInfo EXCEPT !.storages = <<StorageOf(design)>>], views |-> "Form" :> DesignView(design),
   edited |-> TRUE]
OwnPackage(a) ==
  [sheets |-> <<"Sheet1", "Sheet2">>, signed |-> FALSE, asked |-> a,
   part |-> BuildVbaProjectBinary(a.modules, <<"Sheet1", "Sheet2">>, a.info).file]
MCPackages ==
  { [sheets |-> <<"Sheet1">>, part |-> MCAttached, signed |-> TRUE, asked |-> MCAttachedAsk] }
  \cup {OwnPackage(OwnAsk(design)) : design \in MCDesigns}
MCNoAsk == [edited |-> FALSE]
=============================================================================

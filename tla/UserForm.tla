------------------------------ MODULE UserForm ------------------------------
(***************************************************************************)
(* The streams "f" and "o" of a UserForm: parsed, patched in place and     *)
(* built from a design (src/src/XLPP/Workbook/WorkbookUserForm.cpp and the *)
(* editing half of WorkbookVba.cpp).                                       *)
(*                                                                         *)
(* A stream is the sequence of its bytes; offsets count from 0 as in the   *)
(* code.  The form, a control site and a control object share one shape: a *)
(* mask of the properties present, a block of their fixed fields in the    *)
(* order of the bits, each aligned to its size, and an extra block of the  *)
(* strings and sizes.  A text is the sequence of its code points.          *)
(***************************************************************************)
EXTENDS Outcomes, Integers, Sequences, TLC

Refused == [outcome |-> "refused"]       \* an exception
Undefined == [outcome |-> "undefined"]   \* iterators past the end of the object

Align(offset, n) == ((offset + n - 1) \div n) * n
Smaller(a, b) == IF a < b THEN a ELSE b
Zeros(n) == [i \in 1..n |-> 0]

U16(b, at) == b[at + 1] + 256 * b[at + 2]
U31(b, at) == U16(b, at) + 65536 * (b[at + 3] + 256 * (b[at + 4] % 128))
Bytes(v, n) == IF n = 1 THEN <<v>> ELSE IF n = 2 THEN <<v % 256, v \div 256>>
               ELSE <<v % 256, (v \div 256) % 256, (v \div 65536) % 256, v \div 16777216>>
Field(b, at, n) == SubSeq(b, at + 1, at + n)
Put(b, at, bytes) == [i \in DOMAIN b |-> IF i \in at + 1..at + Len(bytes) THEN bytes[i - at] ELSE b[i]]
Bit(b, at, n) == (b[at + 1 + (n \div 8)] \div 2 ^ (n % 8)) % 2 = 1
Splice(b, from, to, bytes) == SubSeq(b, 1, from) \o bytes \o SubSeq(b, to + 1, Len(b))

(***************************************************************************)
(* Strings: one byte a character when every code point fits, UTF-16 else.  *)
(***************************************************************************)
RECURSIVE Wide(_)
Wide(text) ==
  IF text = <<>> THEN <<>>
  ELSE LET cp == Head(text) IN
       (IF cp <= 65535 THEN Bytes(cp, 2)
        ELSE Bytes(55296 + ((cp - 65536) \div 1024), 2) \o Bytes(56320 + ((cp - 65536) % 1024), 2))
       \o Wide(Tail(text))

Narrow(text) == \A i \in DOMAIN text : text[i] <= 255
EncodeUserFormString(text) == IF Narrow(text) THEN text ELSE Wide(text)
Count(text) ==        \* the LengthAndCompression field
  LET n == Len(EncodeUserFormString(text))
  IN  <<n % 256, n \div 256, 0, IF Narrow(text) THEN 128 ELSE 0>>

RECURSIVE Unwiden(_)
Unwiden(b) ==
  IF b = <<>> THEN [ok |-> TRUE, text |-> <<>>]
  ELSE IF Len(b) < 2 THEN Fail
  ELSE With(U16(b, 0), LAMBDA first :
       IF first \notin 55296..56319
       THEN Then(Unwiden(SubSeq(b, 3, Len(b))), LAMBDA rest : [rest EXCEPT !.text = <<first>> \o @])
       ELSE IF Len(b) < 4 THEN Fail
       ELSE With(U16(b, 2), LAMBDA second :
            IF second \notin 56320..57343 THEN Fail
            ELSE Then(Unwiden(SubSeq(b, 5, Len(b))), LAMBDA rest :
                   [rest EXCEPT !.text = <<65536 + (first - 55296) * 1024 + second - 56320>> \o @])))
DecodeUserFormString(b, compressed) ==
  IF compressed THEN [ok |-> TRUE, text |-> b]
  ELSE IF Len(b) % 2 = 1 THEN Fail ELSE Unwiden(b)

(***************************************************************************)
(* Tables: <<bit, size, property>> of the fixed fields; of the extra block *)
(* the size is 0 for a string, whose count is the fixed field of its name. *)
(***************************************************************************)
FormBlock ==
  << <<1, 4, "backColor">>, <<2, 4, "foreColor">>, <<3, 4, "nextAvailableId">>,
     <<6, 4, "booleanProperties">>, <<7, 1, "borderStyle">>, <<8, 1, "mousePointer">>,
     <<9, 1, "scrollBars">>, <<13, 4, "groupCount">>, <<15, 2, "mouseIcon">>, <<16, 1, "cycle">>,
     <<17, 1, "specialEffect">>, <<18, 4, "borderColor">>, <<19, 4, "caption">>, <<20, 2, "font">>,
     <<21, 2, "picture">>, <<22, 4, "zoom">>, <<23, 1, "pictureAlignment">>,
     <<25, 1, "pictureSizeMode">>, <<26, 4, "shapeCookie">>, <<27, 4, "drawBuffer">> >>
FormExtras == << <<10, 8, "displayedSize">>, <<11, 8, "logicalSize">>, <<12, 8, "scrollPosition">>,
                 <<19, 0, "caption">> >>

SiteBlock ==
  << <<0, 4, "name">>, <<1, 4, "tag">>, <<2, 4, "id">>, <<3, 4, "helpContextId">>, <<4, 4, "bitFlags">>,
     <<5, 4, "objectStreamSize">>, <<6, 2, "tabIndex">>, <<7, 2, "clsidCacheIndex">>, <<9, 2, "groupId">>,
     <<11, 4, "controlTipText">>, <<12, 4, "runtimeLicenseKey">>, <<13, 4, "controlSource">>,
     <<14, 4, "rowSource">> >>
SiteExtras == << <<0, 0, "name">>, <<1, 0, "tag">>, <<8, 8, "position">>, <<11, 0, "controlTipText">>,
                 <<12, 0, "runtimeLicenseKey">>, <<13, 0, "controlSource">>, <<14, 0, "rowSource">> >>

Toggles == {"CheckBox", "OptionButton", "ToggleButton"}
Lists == {"ComboBox", "ListBox"}
Bars == {"ScrollBar", "SpinButton"}
Semantic == {"CommandButton", "Label", "TextBox"} \cup Toggles \cup Lists \cup Bars
Is64(kind) == kind \in Lists \cup {"MultiPage", "TabStrip"}
MaskBytes(kind) == IF Is64(kind) THEN 8 ELSE 4

Colours == << <<0, 4, "foreColor">>, <<1, 4, "backColor">>, <<2, 4, "variousPropertyBits">> >>
Faces == << <<3, 4, "caption">>, <<4, 4, "picturePosition">>, <<5, 2, "specialEffect">>,
            <<6, 1, "mousePointer">>, <<7, 2, "picture">>, <<8, 4, "borderColor">>, <<9, 2, "borderStyle">> >>
ButtonBlock ==
  Colours \o << <<3, 4, "caption">>, <<4, 4, "picturePosition">>, <<6, 1, "mousePointer">>,
                <<7, 2, "picture">>, <<8, 2, "accelerator">>, <<10, 2, "mouseIcon">> >>
LabelBlock ==
  Colours \o << <<3, 4, "caption">>, <<6, 1, "mousePointer">>, <<7, 4, "borderColor">>,
                <<8, 2, "borderStyle">>, <<9, 2, "specialEffect">>, <<10, 2, "picture">>,
                <<11, 2, "accelerator">>, <<12, 2, "mouseIcon">> >>
TextBoxBlock ==
  Colours \o Faces \o
  << <<10, 2, "scrollBars">>, <<11, 1, "displayStyle">>, <<12, 2, "mouseIcon">>,
     <<13, 1, "enterKeyBehavior">>, <<14, 1, "tabKeyBehavior">>, <<15, 4, "maxLength">>,
     <<16, 2, "wordWrap">>, <<17, 4, "text">>, <<18, 1, "iMEMode">>, <<19, 1, "iMEStatus">>,
     <<20, 1, "autoWordSelect">>, <<21, 1, "integralHeight">>, <<22, 2, "passwordChar">>,
     <<23, 4, "value">>, <<24, 4, "lineCount">>, <<25, 2, "multiLine">>, <<26, 2, "multiSelect">>,
     <<27, 2, "hideSelection">>, <<28, 1, "dataEntry">>, <<29, 1, "dragBehavior">>, <<31, 4, "listRows">> >>
ToggleBlock ==
  Colours \o Faces \o
  << <<10, 4, "groupName">>, <<11, 2, "accelerator">>, <<12, 2, "mouseIcon">>, <<13, 4, "value">>,
     <<14, 2, "groupNumber">>, <<15, 2, "tripleState">> >>
BarBlock ==
  Colours \o << <<3, 4, "value">>, <<4, 4, "min">>, <<5, 4, "max">>, <<6, 4, "smallChange">>,
                <<7, 4, "largeChange">>, <<8, 1, "orientation">>, <<9, 1, "mousePointer">>,
                <<10, 2, "mouseIcon">> >>
ListBlock ==
  Colours \o Faces \o
  << <<10, 2, "scrollBars">>, <<11, 1, "displayStyle">>, <<12, 2, "mouseIcon">>, <<15, 4, "listRows">>,
     <<16, 4, "listWidth">>, <<17, 4, "boundColumn">>, <<18, 4, "textColumn">>, <<19, 4, "columnCount">>,
     <<20, 4, "columnWidths">>, <<21, 1, "style">>, <<22, 1, "listStyle">>, <<23, 1, "matchEntry">>,
     <<24, 1, "showDropButtonWhen">>, <<25, 1, "dropButtonStyle">>, <<26, 2, "multiSelect">>,
     <<27, 4, "value">>, <<28, 1, "matchFound">>, <<29, 1, "iMEMode">>, <<30, 1, "iMEStatus">> >>

Block(kind) ==
  CASE kind = "CommandButton" -> ButtonBlock [] kind = "Label" -> LabelBlock
    [] kind = "TextBox" -> TextBoxBlock [] kind \in Toggles -> ToggleBlock
    [] kind \in Lists -> ListBlock [] kind \in Bars -> BarBlock [] OTHER -> Colours

\* The strings a control keeps after its fields.
ObjectStrings(kind) ==
  CASE kind = "TextBox" -> << <<3, 0, "caption">>, <<17, 0, "text">>, <<23, 0, "value">> >>
    [] kind \in Toggles -> << <<3, 0, "caption">>, <<10, 0, "groupName">>, <<13, 0, "value">> >>
    [] kind \in Lists -> << <<3, 0, "caption">>, <<20, 0, "columnWidths">>, <<27, 0, "value">> >>
    [] kind \in Bars -> << >>
    [] OTHER -> << <<3, 0, "caption">> >>
SizeBit(kind) == CASE kind = "TextBox" -> 30 [] kind \in Toggles -> 16 [] kind \in Bars -> 11
                   [] kind \in Lists -> 31 [] OTHER -> 5
ObjectExtras(kind) == Append(ObjectStrings(kind), <<SizeBit(kind), 8, "size">>)

(***************************************************************************)
(* Parsing.                                                                *)
(***************************************************************************)
Nowhere == [n \in {} |-> 0]

\* take of each field whose bit is set: its offset, or a block past its end.
RECURSIVE Take(_, _, _, _, _, _, _)
Take(b, mask, block, i, base, rel, end) ==
  IF i > Len(block) THEN [ok |-> TRUE, at |-> Nowhere, next |-> base + rel]
  ELSE IF ~Bit(b, mask, block[i][1]) THEN Take(b, mask, block, i + 1, base, rel, end)
  ELSE With(Align(rel, block[i][2]), LAMBDA from :
       IF base + from + block[i][2] > end THEN Fail
       ELSE Then(Take(b, mask, block, i + 1, base, from + block[i][2], end), LAMBDA rest :
              [rest EXCEPT !.at = (block[i][3] :> base + from) @@ @]))

\* The extra block; in a control object every item starts at a multiple of 4.
SizeIn(b, item, fixed) == IF item[2] > 0 THEN item[2] ELSE U31(b, fixed[item[3]])
RECURSIVE TakeExtra(_, _, _, _, _, _, _, _)
TakeExtra(b, mask, extras, i, fixed, pos, end, unit) ==
  IF i > Len(extras) THEN [ok |-> TRUE, at |-> Nowhere, size |-> Nowhere, next |-> pos]
  ELSE IF ~Bit(b, mask, extras[i][1]) THEN TakeExtra(b, mask, extras, i + 1, fixed, pos, end, unit)
  ELSE With(SizeIn(b, extras[i], fixed), LAMBDA n : With(Align(pos, unit), LAMBDA from :
       IF n > end - from THEN Fail
       ELSE Then(TakeExtra(b, mask, extras, i + 1, fixed, from + n, end, unit), LAMBDA rest :
              [rest EXCEPT !.at = (extras[i][3] :> from) @@ @, !.size = (extras[i][3] :> n) @@ @])))

\* The layout of one structure: offsets of its fields, of its strings and
\* sizes, and the properties with their values.
Widths(block) == [n \in {block[i][3] : i \in DOMAIN block} |->
                    block[CHOOSE i \in DOMAIN block : block[i][3] = n][2]]
StringsOf(extras) == {extras[i][3] : i \in {j \in DOMAIN extras : extras[j][2] = 0}}
LaidOut(b, fixed, extra, widths, decoded) ==
  IF \E n \in DOMAIN decoded : ~decoded[n].ok THEN Fail
  ELSE [ok |-> TRUE, at |-> fixed.at, extraAt |-> extra.at, size |-> extra.size, next |-> extra.next,
        values |-> [n \in DOMAIN decoded |-> decoded[n].text]
                   @@ [n \in DOMAIN extra.at |-> Field(b, extra.at[n], extra.size[n])]
                   @@ [n \in DOMAIN fixed.at |-> Field(b, fixed.at[n], widths[n])]]
Structure(b, mask, block, extras, base, end, unit) ==
  Then(Take(b, mask, block, 1, base, 0, end), LAMBDA fixed :
  With(base + Align(fixed.next - base, 4), LAMBDA from :
  IF from > end THEN Fail
  ELSE Then(TakeExtra(b, mask, extras, 1, fixed.at, from, end, unit), LAMBDA extra :
         LaidOut(b, fixed, extra, Widths(block),
           [n \in StringsOf(extras) \cap DOMAIN extra.at |->
              DecodeUserFormString(Field(b, extra.at[n], extra.size[n]), b[fixed.at[n] + 4] >= 128)]))))

\* parseUserFormStream.
FormEnd(f) == 4 + U16(f, 2)
ParseUserFormStream(f) ==
  IF Len(f) < 8 \/ U16(f, 2) < 4 \/ FormEnd(f) > Len(f) THEN Fail
  ELSE Structure(f, 4, FormBlock, FormExtras, 8, FormEnd(f), 1)

\* parseOneUserFormSite.
ParseSite(f, begin, depth) ==
  IF begin + 8 > Len(f) THEN Fail
  ELSE With(begin + 4 + U16(f, begin + 2), LAMBDA end :
       IF end < begin + 8 \/ end > Len(f) \/ \E n \in 15..31 : Bit(f, begin + 4, n) THEN Fail
       ELSE Then(Structure(f, begin + 4, SiteBlock, SiteExtras, begin + 8, end, 1), LAMBDA s :
              IF s.next # end THEN Fail ELSE s @@ [begin |-> begin, end |-> end, depth |-> depth]))

RECURSIVE ParseSites(_, _, _)
ParseSites(f, depths, pos) ==      \* as many sites as depths, up to the end
  IF depths = <<>> THEN (IF pos = Len(f) THEN [ok |-> TRUE, sites |-> <<>>] ELSE Fail)
  ELSE Then(ParseSite(f, pos, Head(depths)), LAMBDA s :
       Then(ParseSites(f, Tail(depths), s.end), LAMBDA rest : [rest EXCEPT !.sites = <<s>> \o @]))

\* A depth and a type, or a depth and a run of one type.
RunAt(f, pos) ==
  IF pos + 2 > Len(f) THEN Fail
  ELSE IF f[pos + 2] < 128 THEN [ok |-> TRUE, run |-> 1, type |-> f[pos + 2], next |-> pos + 2]
  ELSE IF pos + 3 > Len(f) THEN Fail
  ELSE [ok |-> TRUE, run |-> f[pos + 2] - 128, type |-> f[pos + 3], next |-> pos + 3]
RECURSIVE ParseDepths(_, _, _)
ParseDepths(f, pos, count) ==
  IF count = 0 THEN [ok |-> TRUE, depths |-> <<>>, next |-> pos]
  ELSE Then(RunAt(f, pos), LAMBDA r :
       IF r.type # 1 \/ r.run = 0 \/ r.run > count THEN Fail
       ELSE Then(ParseDepths(f, r.next, count - r.run), LAMBDA rest :
              [rest EXCEPT !.depths = [i \in 1..r.run |-> f[pos + 1]] \o @]))

RECURSIVE SkipClasses(_, _, _)     \* the class table before the sites; -1: none there
SkipClasses(f, pos, count) ==
  IF count = 0 THEN pos
  ELSE IF pos + 4 > Len(f) THEN -1
  ELSE With(U16(f, pos + 2), LAMBDA size :
       IF size < 4 \/ pos + 4 + size > Len(f) THEN -1 ELSE SkipClasses(f, pos + 4 + size, count - 1))

\* The site data if it starts here: its counts reach exactly the end of the
\* stream and every site parses.
SitesAt(f, pos) ==
  IF pos < 0 \/ pos + 8 > Len(f) THEN Fail
  ELSE IF U31(f, pos) > 4096 \/ U31(f, pos + 4) # Len(f) - pos - 8 THEN Fail
  ELSE Then(ParseDepths(f, pos + 8, U31(f, pos)), LAMBDA depths :
       Then(ParseSites(f, depths.depths, pos + 8 + Align(depths.next - pos - 8, 4)), LAMBDA sites :
         sites @@ [countOfBytesAt |-> pos + 4]))

\* parseUserFormSiteData: the first offset at which site data parses, with a
\* class table or without one.
TableAt(f, at) == IF U16(f, at) > 1024 THEN -1 ELSE SkipClasses(f, at + 2, U16(f, at))
RECURSIVE FirstSites(_, _)
FirstSites(f, places) ==
  IF places = <<>> THEN Fail
  ELSE With(SitesAt(f, Head(places)), LAMBDA here : IF here.ok THEN here ELSE FirstSites(f, Tail(places)))
RECURSIVE ParseUserFormSiteData(_, _)
ParseUserFormSiteData(f, at) ==
  IF at + 8 > Len(f) THEN Fail
  ELSE With(FirstSites(f, <<TableAt(f, at), at>>), LAMBDA here :
         IF here.ok THEN here ELSE ParseUserFormSiteData(f, at + 1))

SitesOf(f) == Then(ParseUserFormStream(f), LAMBDA form : ParseUserFormSiteData(f, FormEnd(f)))

\* userFormControlKindFromCacheIndex and ufClsidCacheIndex.
CacheIndex == [Form |-> 7, Image |-> 12, Frame |-> 14, MorphData |-> 15, SpinButton |-> 16,
               CommandButton |-> 17, TabStrip |-> 18, Label |-> 21, TextBox |-> 23, ListBox |-> 24,
               ComboBox |-> 25, CheckBox |-> 26, OptionButton |-> 27, ToggleButton |-> 28,
               ScrollBar |-> 47, MultiPage |-> 57]
KindOf(site) ==
  IF "clsidCacheIndex" \notin DOMAIN site.values THEN "Unknown"
  ELSE LET index == U16(site.values["clsidCacheIndex"], 0)
       IN  IF index >= 32768 THEN "CustomClass"
           ELSE IF \E k \in DOMAIN CacheIndex : CacheIndex[k] = index
           THEN CHOOSE k \in DOMAIN CacheIndex : CacheIndex[k] = index ELSE "Unknown"

\* parseSimpleUserFormControlObject.
ParseObject(o, kind) ==
  IF Len(o) < 4 THEN Fail
  ELSE IF 4 + U16(o, 2) > Len(o) \/ Len(o) < 4 + MaskBytes(kind) THEN Fail
  ELSE IF kind \notin Semantic
  THEN [ok |-> TRUE, at |-> Nowhere, extraAt |-> Nowhere, size |-> Nowhere, values |-> Nowhere]
  ELSE Structure(o, 4, Block(kind), ObjectExtras(kind), 4 + MaskBytes(kind), 4 + U16(o, 2), 4)

\* The slice of stream "o" a site owns.
ObjectSize(site) ==
  IF "objectStreamSize" \in DOMAIN site.values THEN U31(site.values["objectStreamSize"], 0) ELSE 0
RECURSIVE ObjectOffset(_, _)
ObjectOffset(sites, i) == IF i = 1 THEN 0 ELSE ObjectOffset(sites, i - 1) + ObjectSize(sites[i - 1])
SliceOf(o, sites, i) ==
  With(ObjectOffset(sites, i), LAMBDA from : SubSeq(o, from + 1, from + ObjectSize(sites[i])))

\* inspectVbaUserForm, inspectVbaUserFormControls and
\* inspectVbaUserFormControlObject: every property the form shows.
ShownObject(object) == IF object.ok THEN object.values ELSE [bad |-> <<>>]
InspectUserForm(f, o) ==
  Then(ParseUserFormStream(f), LAMBDA form : Then(SitesOf(f), LAMBDA data : With(data.sites, LAMBDA sites :
    IF sites # <<>> /\ Len(o) < ObjectOffset(sites, Len(sites)) + ObjectSize(sites[Len(sites)]) THEN Fail
    ELSE [ok |-> TRUE, form |-> form.values, sites |-> [i \in DOMAIN sites |-> sites[i].values],
          objects |-> [i \in DOMAIN sites |->
                         ShownObject(ParseObject(SliceOf(o, sites, i), KindOf(sites[i])))]])))

(***************************************************************************)
(* Editing.  A patch gives some properties new values: bytes for a field,  *)
(* a text for a string.  The result of an edit has an outcome.             *)
(***************************************************************************)
Orderly(r, F(_)) == IF r.ok THEN F(r) ELSE Refused
Continue(r, F(_)) == IF r.outcome = "ok" THEN F(r) ELSE r

RECURSIVE PutAll(_, _, _, _)
PutAll(b, offsets, patch, names) ==
  IF names = {} THEN b
  ELSE With(CHOOSE x \in names : TRUE, LAMBDA n :
         PutAll(Put(b, offsets[n], patch[n]), offsets, patch, names \ {n}))

\* requireUserFormField, requireUserFormSiteField, requireUserFormObjectField:
\* only a property the mask materialises can be patched.
Materialized(layout, patch) == DOMAIN patch \subseteq DOMAIN layout.values
Offsets(layout) == layout.extraAt @@ layout.at

\* A string in place: its payload, its count and the structure's own size.
Inserted(b, layout, name, text, new, cb) ==
  Put(Put(Splice(b, layout.extraAt[name], layout.extraAt[name] + layout.size[name], new),
          layout.at[name], Count(text)), 2, Bytes(cb, 2))
GrownBy(b, layout, name, new) == U16(b, 2) + Len(new) - layout.size[name]

\* updateVbaUserFormProperties.
UpdateCaption(g, layout, text) ==
  With(EncodeUserFormString(text), LAMBDA new : With(GrownBy(g, layout, "caption", new), LAMBDA cb :
    IF cb > 65535 THEN Refused ELSE [outcome |-> "ok", f |-> Inserted(g, layout, "caption", text, new, cb)]))
UpdateForm(f, patch) ==
  Orderly(ParseUserFormStream(f), LAMBDA layout :
    IF ~Materialized(layout, patch) THEN Refused
    ELSE With(PutAll(f, Offsets(layout), patch, DOMAIN patch \ {"caption"}), LAMBDA g :
           IF "caption" \in DOMAIN patch THEN UpdateCaption(g, layout, patch["caption"])
           ELSE [outcome |-> "ok", f |-> g]))

Reparsed(object, kind) ==
  IF ParseObject(object, kind).ok THEN [outcome |-> "ok", object |-> object] ELSE Refused

\* The caption edit of updateVbaUserFormControlObject.
EditCaption(object, kind, layout, text) ==
  With(EncodeUserFormString(text), LAMBDA new : With(GrownBy(object, layout, "caption", new), LAMBDA cb :
    IF cb > 65535 THEN Refused ELSE Reparsed(Inserted(object, layout, "caption", text, new, cb), kind)))

\* patchObjectString: the payload, padding, and the tail from the old
\* payload's aligned end.
Padded(b) == b \o Zeros(Align(Len(b), 4) - Len(b))
Resized(b, layout, name, text) == Put(Put(b, layout.at[name], Count(text)), 2, Bytes(Len(b) - 4, 2))
\* Mutant: the tail from the old payload's end.
EditStringUnaligned(object, kind, name, text) ==
  Orderly(ParseObject(object, kind), LAMBDA layout :
    IF name \notin DOMAIN layout.extraAt THEN Refused
    ELSE With(layout.extraAt[name] + layout.size[name], LAMBDA tail :
      IF tail > Len(object) THEN Undefined
      ELSE With(Padded(SubSeq(object, 1, layout.extraAt[name]) \o EncodeUserFormString(text))
                \o SubSeq(object, tail + 1, Len(object)), LAMBDA rebuilt :
             IF Len(rebuilt) - 4 > 65535 THEN Refused
             ELSE Reparsed(Resized(rebuilt, layout, name, text), kind))))

EditString(object, kind, name, text) ==
  Orderly(ParseObject(object, kind), LAMBDA layout :
    IF name \notin DOMAIN layout.extraAt THEN Refused
    ELSE With(Align(layout.extraAt[name] + layout.size[name], 4), LAMBDA tail :
      IF tail > Len(object) THEN Undefined
      ELSE With(Padded(SubSeq(object, 1, layout.extraAt[name]) \o EncodeUserFormString(text))
                \o SubSeq(object, tail + 1, Len(object)), LAMBDA rebuilt :
             IF Len(rebuilt) - 4 > 65535 THEN Refused
             ELSE Reparsed(Resized(rebuilt, layout, name, text), kind))))

RECURSIVE EditStrings(_, _, _, _)
EditStrings(object, kind, names, patch) ==
  IF names = <<>> THEN [outcome |-> "ok", object |-> object]
  ELSE Continue(IF Head(names) \in DOMAIN patch THEN EditString(object, kind, Head(names), patch[Head(names)])
             ELSE [outcome |-> "ok", object |-> object], LAMBDA one :
         EditStrings(one.object, kind, Tail(names), patch))

Texts == {"caption", "text", "value", "groupName", "columnWidths"}

\* updateVbaUserFormControlObject on a control's own bytes.
EditObject(object, kind, patch) ==
  Orderly(ParseObject(object, kind), LAMBDA layout :
    IF kind \notin Semantic \/ ~Materialized(layout, patch) THEN Refused
    ELSE Continue(IF "caption" \in DOMAIN patch THEN EditCaption(object, kind, layout, patch["caption"])
               ELSE [outcome |-> "ok", object |-> object], LAMBDA captioned :
           With(ParseObject(captioned.object, kind), LAMBDA after :
             EditStrings(PutAll(captioned.object, Offsets(after), patch, DOMAIN patch \ Texts), kind,
                         <<"text", "value", "groupName", "columnWidths">>, patch))))

\* updateVbaUserFormControlObject: the object's slice of "o" is replaced and
\* the size its site records follows.
Replaced(f, o, site, from, object) ==
  IF Len(object) = ObjectSize(site)
  THEN [outcome |-> "ok", f |-> f, o |-> Splice(o, from, from + ObjectSize(site), object)]
  ELSE IF "objectStreamSize" \notin DOMAIN site.at THEN Refused
  ELSE [outcome |-> "ok", f |-> Put(f, site.at["objectStreamSize"], Bytes(Len(object), 4)),
        o |-> Splice(o, from, from + ObjectSize(site), object)]
UpdateObject(f, o, index, patch) ==
  Orderly(SitesOf(f), LAMBDA data :
    IF index > Len(data.sites) THEN Refused
    ELSE With(data.sites[index], LAMBDA site : With(ObjectOffset(data.sites, index), LAMBDA from :
           IF from + ObjectSize(site) > Len(o) THEN Refused
           ELSE Continue(EditObject(SliceOf(o, data.sites, index), KindOf(site), patch), LAMBDA edited :
                  Replaced(f, o, site, from, edited.object)))))

SiteTexts == <<"name", "tag", "controlTipText", "controlSource", "rowSource">>

\* patchString of a site: the record and the site data grow by the same amount.
Lengthened(f, data, site, name, text, new, delta) ==
  IF U16(f, site.begin + 2) + delta > 65535 THEN Refused
  ELSE [outcome |-> "ok",
        f |-> Put(Put(Put(Splice(f, site.extraAt[name], site.extraAt[name] + site.size[name], new),
                          site.at[name], Count(text)),
                      site.begin + 2, Bytes(U16(f, site.begin + 2) + delta, 2)),
                  data.countOfBytesAt, Bytes(U31(f, data.countOfBytesAt) + delta, 4))]
EditSiteString(f, index, name, text) ==
  Orderly(SitesOf(f), LAMBDA data : With(data.sites[index], LAMBDA site :
    IF name \notin DOMAIN site.extraAt THEN Refused
    ELSE With(EncodeUserFormString(text), LAMBDA new :
           Lengthened(f, data, site, name, text, new, Len(new) - site.size[name]))))

RECURSIVE EditSiteStrings(_, _, _, _)
EditSiteStrings(f, index, names, patch) ==
  IF names = <<>> THEN [outcome |-> "ok", f |-> f]
  ELSE Continue(IF Head(names) \in DOMAIN patch THEN EditSiteString(f, index, Head(names), patch[Head(names)])
             ELSE [outcome |-> "ok", f |-> f], LAMBDA one :
         EditSiteStrings(one.f, index, Tail(names), patch))

\* updateVbaUserFormControlSite.
FieldsOf(patch) == DOMAIN patch \ {SiteTexts[i] : i \in DOMAIN SiteTexts}
UpdateSite(f, index, patch) ==
  Orderly(SitesOf(f), LAMBDA data :
    IF index > Len(data.sites) THEN Refused
    ELSE Continue(EditSiteStrings(f, index, SiteTexts, patch), LAMBDA named :
         Orderly(SitesOf(named.f), LAMBDA after : With(after.sites[index], LAMBDA site :
           IF ~(FieldsOf(patch) \subseteq DOMAIN site.values) THEN Refused
           ELSE [outcome |-> "ok", f |-> PutAll(named.f, Offsets(site), patch, FieldsOf(patch))]))))

(***************************************************************************)
(* Building.  A control gives its kind, its strings and the fields that    *)
(* are not zero.                                                           *)
(***************************************************************************)
Omitted == {"picture", "mouseIcon"}     \* materialised for no control
OmittedBy(kind) == Omitted \cup (IF kind = "TextBox" THEN {"iMEMode", "iMEStatus", "listRows"} ELSE {})

BitAmong(bits, n) == IF n \in bits THEN 2 ^ (n % 8) ELSE 0
RECURSIVE ByteOf(_, _, _)
ByteOf(bits, from, n) == IF n = 0 THEN 0 ELSE BitAmong(bits, from + n - 1) + ByteOf(bits, from, n - 1)
MaskOf(bits) == [k \in 1..4 |-> ByteOf(bits, (k - 1) * 8, 8)]

RECURSIVE Emit(_, _, _)          \* the fields, each aligned to its size
AlignedTo(body, n) == body \o Zeros(Align(Len(body), n) - Len(body))
ValueOf(field, values) == IF field[3] \in DOMAIN values THEN values[field[3]] ELSE Zeros(field[2])
Emit(body, block, values) ==
  IF block = <<>> THEN body
  ELSE Emit(AlignedTo(body, block[1][2]) \o ValueOf(block[1], values), Tail(block), values)

RECURSIVE EmitStrings(_, _, _)   \* the payloads, each at a multiple of 4
EmitStrings(body, extras, texts) ==
  IF extras = <<>> THEN body
  ELSE EmitStrings(Padded(body) \o EncodeUserFormString(texts[extras[1][3]]), Tail(extras), texts)

\* A structure: its size before everything else.
Headed(version, body) == version \o Bytes(Len(body), 2) \o body
Only(block, bits) == SelectSeq(block, LAMBDA x : x[1] \in bits)
BitsIn(block) == {block[i][1] : i \in DOMAIN block}

\* ufBuildControlObject.
Written(kind) == kind \in Semantic \ Bars
FieldsBuilt(kind) ==
  IF Written(kind) THEN SelectSeq(Block(kind), LAMBDA x : x[3] \notin OmittedBy(kind)) ELSE <<>>
FieldMask(kind, bits) == MaskOf(bits) \o (IF kind \in Lists THEN Zeros(4) ELSE <<>>)
BuildObject(control) ==
  With(FieldsBuilt(control.kind), LAMBDA block :
    Headed(<<0, 2>>,
      EmitStrings(Emit(FieldMask(control.kind, IF Written(control.kind) THEN BitsIn(block) ELSE {0, 1, 2}), block,
                       [n \in DOMAIN control.texts |-> Count(control.texts[n])] @@ control.fields),
                  IF Written(control.kind) THEN ObjectStrings(control.kind) ELSE << <<3, 0, "caption">> >>,
                  control.texts)))

\* One site record of ufBuildFormStream.
SiteBits == {0, 2, 3, 4, 5, 6, 7, 8, 9, 11}
SiteValues(control, id, size) ==
  [name |-> Count(control.name), id |-> Bytes(id, 4), objectStreamSize |-> Bytes(size, 4),
   tabIndex |-> control.tabIndex, clsidCacheIndex |-> Bytes(CacheIndex[control.kind], 2),
   controlTipText |-> Count(control.tip)]
BuildSite(control, id, size) ==
  Headed(<<0, 0>>, Padded(Emit(MaskOf(SiteBits), Only(SiteBlock, SiteBits), SiteValues(control, id, size)))
                   \o EncodeUserFormString(control.name) \o control.position \o EncodeUserFormString(control.tip))

RECURSIVE BuildSites(_, _, _)
BuildSites(controls, objects, i) ==
  IF i > Len(controls) THEN <<>>
  ELSE BuildSite(controls[i], i, Len(objects[i])) \o BuildSites(controls, objects, i + 1)
RECURSIVE Concatenated(_)
Concatenated(blocks) == IF blocks = <<>> THEN <<>> ELSE Head(blocks) \o Concatenated(Tail(blocks))

\* ufBuildFormStream.
FormBits == {1, 2, 3, 6, 7, 8, 9, 10, 11, 16, 17, 18, 19}
FormValues(design) ==
  design.fields @@ [nextAvailableId |-> Bytes(Len(design.controls) + 1, 4), caption |-> Count(design.caption)]
BuildFormStream(design, objects) ==
  With(Padded([i \in 1..2 * Len(objects) |-> 1]) \o BuildSites(design.controls, objects, 1), LAMBDA data :
    Headed(<<0, 2>>, Padded(Emit(MaskOf(FormBits), Only(FormBlock, FormBits), FormValues(design)))
                     \o design.size \o design.size \o EncodeUserFormString(design.caption))
    \o <<0, 0>> \o Bytes(Len(objects), 4) \o Bytes(Len(data), 4) \o data)

\* buildUserFormDesign: the streams of the designer storage.
BuildUserForm(design) ==
  With([i \in DOMAIN design.controls |-> BuildObject(design.controls[i])], LAMBDA objects :
    [f |-> BuildFormStream(design, objects), o |-> Concatenated(objects)])
=============================================================================

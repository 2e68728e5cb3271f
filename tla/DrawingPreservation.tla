------------------------- MODULE DrawingPreservation -------------------------
(***************************************************************************)
(* The pictures, charts and shapes of one worksheet between a load and the  *)
(* saves that follow it.                                                    *)
(*                                                                          *)
(* A loaded worksheet keeps the package it came from.  Its setters do not   *)
(* touch that package: they change the object model and record an edit per  *)
(* imported object (importedImageEdits_, importedChartEdits_).  Save then   *)
(* has two ways to write the drawing.  If nothing asked for mutable access  *)
(* it patches the preserved drawing: it replays the edits on the anchors,   *)
(* the relationships and the media of the source and appends what was       *)
(* added.  Otherwise it writes a new drawing from the object model.  What   *)
(* save wrote never becomes the new source, and the flags that chose the    *)
(* way are cleared by every save.                                           *)
(*                                                                          *)
(* A part is <<kind, number, extension>>; a package maps parts to contents, *)
(* each drawing to its anchors and its relationships, and lists the         *)
(* drawings the worksheet owns.  The XML, the pixel arithmetic of two-cell  *)
(* anchors and the styles below a chart part are left out; the title stands *)
(* for everything a chart part holds.                                       *)
(*                                                                          *)
(* The operators marked "Seeded fault" are wrong on purpose: each takes the *)
(* place of the definition it precedes to show that a property would notice. *)
(***************************************************************************)
EXTENDS Naturals, FiniteSets, SequencesExt

CONSTANTS
  Places,      \* where an anchor can be put
  Sizes,       \* how large a picture or a chart can be
  Bytes,       \* contents of pictures
  Exts,        \* extensions of picture files
  Titles,      \* titles of charts
  Texts,       \* texts of shapes
  Sources,     \* the packages a workbook can be loaded from
  None,        \* no place, no text, no source
  MaxAdded,    \* bound: objects of a kind added since the load
  MaxDrawings, \* bound: drawing parts in a package that is loaded again
  MaxNumber,   \* bound: numbers of the media and chart parts of such a package
  MaxRedrawn,  \* bound: objects of a worksheet whose drawing is due for regeneration
  MaxId        \* bound: object ids in the drawings of such a package

VARIABLES
  images, loadedImages, imageEdits,
  charts, loadedCharts, chartEdits,
  shapes,
  drawingsDirty,
  package      \* the preserved parts and relationships of the loaded file

ASSUME LooksAssumption ==
  Places # {} /\ Sizes # {} /\ Bytes # {} /\ Exts # {} /\ Titles # {}

vars == <<images, loadedImages, imageEdits, charts, loadedCharts, chartEdits,
          shapes, drawingsDirty, package>>

-----------------------------------------------------------------------------
(* Packages                                                                 *)

EmptyPackage == [owned |-> <<>>, anchors |-> <<>>, rels |-> <<>>, parts |-> <<>>]

\* The first number no part of this kind has: nextAvailablePartId,
\* nextAvailableMediaId and the counters save keeps from there.
NextNumber(kind, parts) ==
  1 + Max({0} \union {part[2] : part \in {q \in parts : q[1] = kind}})

\* allocateRelationshipId: the first free id of a numbered series.
FreeId(used) == Min((1 .. Cardinality(used) + 1) \ used)

Without(f, keys) == [k \in DOMAIN f \ keys |-> f[k]]
Over(f, g) == [k \in DOMAIN f \union DOMAIN g |-> IF k \in DOMAIN f THEN f[k] ELSE g[k]]
Put(f, key, x) == Over([k \in {key} |-> x], f)

\* An anchor the readers accept: its relationship exists and so does its part.
Resolves(P, d, a) ==
  a.rel \in DOMAIN P.rels[d] /\ P.rels[d][a.rel] \in DOMAIN P.parts

\* The anchors of a kind a reader of drawing d accepts, each with its drawing.
AnchorsOf(P, d, kind) ==
  LET accepted[n \in 0 .. Len(P.anchors[d])] ==
        IF n = 0 THEN <<>>
        ELSE LET a == P.anchors[d][n]
             IN  IF a.kind = kind /\ Resolves(P, d, a)
                 THEN Append(accepted[n - 1], [drawing |-> d, anchor |-> a])
                 ELSE accepted[n - 1]
  IN  accepted[Len(P.anchors[d])]

\* Those of the worksheet, drawing by drawing.
Found(P, kind) == FlattenSeq([k \in DOMAIN P.owned |-> AnchorsOf(P, P.owned[k], kind)])

\* Where an imported object came from; the first two fields are its stable id.
Origin(P, d, a) == [drawing |-> d, id |-> a.id, rel |-> a.rel, part |-> P.rels[d][a.rel]]

ImageOf(P, d, a) ==
  [source |-> Origin(P, d, a), place |-> a.place, size |-> a.size,
   bytes |-> P.parts[P.rels[d][a.rel]], ext |-> P.rels[d][a.rel][3]]
ChartAt(P, d, a) ==
  [source |-> Origin(P, d, a), place |-> a.place, size |-> a.size,
   title |-> P.parts[P.rels[d][a.rel]]]

ImagesOf(P) ==
  LET found == Found(P, "pic")
  IN  [i \in DOMAIN found |-> ImageOf(P, found[i].drawing, found[i].anchor)]
ChartsOf(P) ==
  LET found == Found(P, "chart")
  IN  [i \in DOMAIN found |-> ChartAt(P, found[i].drawing, found[i].anchor)]

\* The packages Sources holds, and what a save makes of them.  A picture or a
\* chart of an owned drawing has an object id and a relationship that no other
\* anchor of the drawing has; the part of a chart has one relationship; shapes
\* have none (0).
AnchorFields == {"id", "kind", "rel", "place", "size", "text"}

RegularDrawing(anchors, rels) ==
  /\ anchors \in Seq(Range(anchors))
  /\ \A i \in DOMAIN anchors :
       /\ DOMAIN anchors[i] = AnchorFields
       /\ anchors[i].id \in Nat
       /\ IF anchors[i].kind = "shape" THEN anchors[i].rel = 0 ELSE anchors[i].rel \in DOMAIN rels
  /\ \A i, j \in DOMAIN anchors : i # j =>
       /\ anchors[i].id # anchors[j].id
       /\ anchors[i].kind # "shape" => anchors[i].rel # anchors[j].rel

RegularRels(rels, parts) ==
  /\ IsFiniteSet(DOMAIN rels) /\ DOMAIN rels \subseteq Nat \ {0}
  /\ \A r \in DOMAIN rels : rels[r] \in parts

RegularParts(parts) == IsFiniteSet(parts) /\ \A part \in parts : part[2] \in Nat

\* No other relationship leads to the part this one leads to.
LeadsAlone(rels, d, r) ==
  \A e \in DOMAIN rels : \A q \in DOMAIN rels[e] : rels[e][q] = rels[d][r] => e = d /\ q = r

ChartsApart(anchors, rels, d) ==
  \A i \in DOMAIN anchors[d] :
    anchors[d][i].kind = "chart" => LeadsAlone(rels, d, anchors[d][i].rel)

Regular(P) ==
  /\ DOMAIN P = {"owned", "anchors", "rels", "parts"}
  /\ P.owned \in Seq(DOMAIN P.anchors)
  /\ IsFiniteSet(DOMAIN P.anchors) /\ DOMAIN P.anchors \subseteq Nat
  /\ DOMAIN P.rels = DOMAIN P.anchors
  /\ RegularParts(DOMAIN P.parts)
  /\ \A d \in DOMAIN P.rels : RegularRels(P.rels[d], DOMAIN P.parts)
  /\ \A d \in Range(P.owned) : /\ RegularDrawing(P.anchors[d], P.rels[d])
                              /\ ChartsApart(P.anchors, P.rels, d)

ASSUME SourcesAssumption == \A P \in Sources : Regular(P)

-----------------------------------------------------------------------------
(* The object model                                                         *)

Imported(object) == object.source # None

\* Seeded fault: every edit starts a new record and forgets the earlier flags.
EditForgotten(edits, object) == [object |-> object, flags |-> {}]

\* The place of the edit for the object that came from there; 0 if none.
EditFor(edits, source) == SelectInSeq(edits, LAMBDA e : e.object.source = source)

\* ensureImportedImageEdit and ensureImportedChartEdit: the edit there is for
\* this object, or a new one that starts at the anchor the object has now.
EditOf(edits, object) ==
  LET i == EditFor(edits, object.source)
  IN  IF i # 0 THEN edits[i] ELSE [object |-> object, flags |-> {}]

\* The list of edits with this one in the place of the one for its object.
Record(edits, edit) ==
  LET i == EditFor(edits, edit.object.source)
  IN  IF i = 0 THEN Append(edits, edit) ELSE [edits EXCEPT ![i] = edit]

\* The edit with one more of moved, resized, changed and removed set.
Flagged(edit, flag) == [edit EXCEPT !.flags = @ \union {flag}]

\* A selective edit of images[i] or charts[i] makes it `object` and sets one
\* of the edit's flags.
SelectiveImageEdit(i, object, flag) ==
  /\ Imported(images[i])
  /\ images' = [images EXCEPT ![i] = object]
  /\ imageEdits' = Record(imageEdits,
       [Flagged(EditOf(imageEdits, images[i]), flag) EXCEPT !.object = object])
  /\ UNCHANGED <<loadedImages, charts, loadedCharts, chartEdits, shapes, drawingsDirty, package>>

SelectiveChartEdit(i, object, flag) ==
  /\ Imported(charts[i])
  /\ charts' = [charts EXCEPT ![i] = object]
  /\ chartEdits' = Record(chartEdits,
       [Flagged(EditOf(chartEdits, charts[i]), flag) EXCEPT !.object = object])
  /\ UNCHANGED <<images, loadedImages, imageEdits, loadedCharts, shapes, drawingsDirty, package>>

MoveImage(i, place) == SelectiveImageEdit(i, [images[i] EXCEPT !.place = place], "moved")
ResizeImage(i, size) == SelectiveImageEdit(i, [images[i] EXCEPT !.size = size], "resized")
ReplaceImage(i, bytes, ext) ==
  SelectiveImageEdit(i, [images[i] EXCEPT !.bytes = bytes, !.ext = ext], "changed")

RemoveImage(i) ==
  /\ Imported(images[i])
  /\ imageEdits' = Record(imageEdits, Flagged(EditOf(imageEdits, images[i]), "removed"))
  /\ images' = RemoveAt(images, i)
  /\ loadedImages' = IF i <= loadedImages THEN loadedImages - 1 ELSE loadedImages
  /\ UNCHANGED <<charts, loadedCharts, chartEdits, shapes, drawingsDirty, package>>

AddImage(place, size, bytes, ext) ==
  /\ Cardinality({i \in DOMAIN images : ~Imported(images[i])}) < MaxAdded
  /\ images' = Append(images, [source |-> None, place |-> place, size |-> size,
                               bytes |-> bytes, ext |-> ext])
  /\ UNCHANGED <<loadedImages, imageEdits, charts, loadedCharts, chartEdits,
                 shapes, drawingsDirty, package>>

\* The caller takes the mutable vector and, perhaps, erases a picture from it.
\* Nothing adjusts loadedImageCount_.
AccessImages ==
  /\ images' \in {images} \union {RemoveAt(images, i) : i \in DOMAIN images}
  /\ drawingsDirty' = TRUE
  /\ UNCHANGED <<loadedImages, imageEdits, charts, loadedCharts, chartEdits, shapes, package>>

MoveChart(i, place) == SelectiveChartEdit(i, [charts[i] EXCEPT !.place = place], "moved")
ResizeChart(i, size) == SelectiveChartEdit(i, [charts[i] EXCEPT !.size = size], "resized")
SetChartTitle(i, title) == SelectiveChartEdit(i, [charts[i] EXCEPT !.title = title], "changed")

RemoveChart(i) ==
  /\ Imported(charts[i])
  /\ chartEdits' = Record(chartEdits, Flagged(EditOf(chartEdits, charts[i]), "removed"))
  /\ charts' = RemoveAt(charts, i)
  /\ loadedCharts' = IF i <= loadedCharts THEN loadedCharts - 1 ELSE loadedCharts
  /\ UNCHANGED <<images, loadedImages, imageEdits, shapes, drawingsDirty, package>>

\* A chart has no anchor of its own: where it goes is left to save.
AddChart(size, title) ==
  /\ Cardinality({i \in DOMAIN charts : ~Imported(charts[i])}) < MaxAdded
  /\ charts' = Append(charts, [source |-> None, place |-> None, size |-> size, title |-> title])
  /\ UNCHANGED <<images, loadedImages, imageEdits, loadedCharts, chartEdits,
                 shapes, drawingsDirty, package>>

\* Through charts() the caller may erase a chart, through chart(i) change one.
AccessCharts ==
  /\ charts' \in {charts} \union {RemoveAt(charts, i) : i \in DOMAIN charts}
                 \union {[charts EXCEPT ![i].title = t] : i \in DOMAIN charts, t \in Titles}
  /\ drawingsDirty' = TRUE
  /\ UNCHANGED <<images, loadedImages, imageEdits, loadedCharts, chartEdits, shapes, package>>

AddShape(text) ==
  /\ Len(shapes) < MaxAdded
  /\ shapes' = Append(shapes, text)
  /\ UNCHANGED <<images, loadedImages, imageEdits, charts, loadedCharts, chartEdits,
                 drawingsDirty, package>>

AccessShapes ==
  /\ shapes' \in {shapes} \union {RemoveAt(shapes, i) : i \in DOMAIN shapes}
  /\ drawingsDirty' = TRUE
  /\ UNCHANGED <<images, loadedImages, imageEdits, charts, loadedCharts, chartEdits, package>>

-----------------------------------------------------------------------------
(* Save, the selective way.  `out` is the package being written: `written`  *)
(* lists every part given to ZipArchive::add, `parts` their contents,       *)
(* `dropped` the preserved parts left out (suppressedPreservedParts).       *)

Preserve == ~drawingsDirty /\ package.owned # <<>>

Untouched == [anchors |-> package.anchors, rels |-> package.rels, parts |-> <<>>,
              written |-> <<>>, dropped |-> {}]

Write(out, part, content) ==
  [out EXCEPT !.parts = Put(@, part, content), !.written = Append(@, part)]

\* Seeded fault: parts written by this save are forgotten.
FreshInSource(out, kind) == NextNumber(kind, DOMAIN package.parts)

Fresh(out, kind) == NextNumber(kind, DOMAIN package.parts \union DOMAIN out.parts)

\* Seeded fault: only the other drawings are searched.
SharedAcross(origin) ==
  \E d \in DOMAIN package.rels \ {origin.drawing} : origin.part \in Range(package.rels[d])

\* hasOtherRelationshipToPart: judged on the relationships as they were loaded.
Shared(origin) ==
  \E d \in DOMAIN package.rels : \E r \in DOMAIN package.rels[d] :
    <<d, r>> # <<origin.drawing, origin.rel>> /\ package.rels[d][r] = origin.part

\* Where the anchor with this object id is in its drawing; 0 if nowhere.
PlaceOf(anchors, id) == SelectInSeq(anchors, LAMBDA a : a.id = id)

\* patchImportedImageAnchor and patchImportedChartAnchor.
PatchAnchor(anchors, e) ==
  LET i == PlaceOf(anchors, e.object.source.id)
  IN  IF "removed" \in e.flags THEN RemoveAt(anchors, i)
      ELSE [anchors EXCEPT
              ![i].place = IF "moved" \in e.flags THEN e.object.place ELSE @,
              ![i].size = IF "resized" \in e.flags THEN e.object.size ELSE @]

WithAnchor(out, e) ==
  [out EXCEPT !.anchors[e.object.source.drawing] = PatchAnchor(@, e)]

\* Seeded fault: the part goes although another relationship leads there.
UnlinkShared(out, origin, kind) ==
  [out EXCEPT !.rels[origin.drawing] = Without(@, {origin.rel}),
              !.dropped = @ \union {origin.part}]

\* A removed anchor takes its relationship along when no other anchor uses it,
\* and the part behind it unless another relationship leads there.
Unlink(out, origin, kind) ==
  IF \E a \in Range(out.anchors[origin.drawing]) : a.kind = kind /\ a.rel = origin.rel
  THEN out
  ELSE [out EXCEPT !.rels[origin.drawing] = Without(@, {origin.rel}),
                   !.dropped = IF Shared(origin) THEN @ ELSE @ \union {origin.part}]

\* Replaced bytes go into the part of the picture if no other relationship
\* leads there and the extension is the same, else into a new part.
Retarget(out, e) ==
  LET origin == e.object.source
      media == <<"media", Fresh(out, "media"), e.object.ext>>
  IN  IF ~Shared(origin) /\ origin.part[3] = e.object.ext
      THEN Write(out, origin.part, e.object.bytes)
      ELSE [Write(out, media, e.object.bytes) EXCEPT
              !.rels[origin.drawing][origin.rel] = media,
              !.dropped = IF Shared(origin) THEN @ ELSE @ \union {origin.part}]

ApplyImageEdit(out, e) ==
  LET patched == WithAnchor(out, e)
  IN  IF "removed" \in e.flags THEN Unlink(patched, e.object.source, "pic")
      ELSE IF "changed" \in e.flags THEN Retarget(patched, e)
      ELSE patched

\* The working copy of a chart part is written once, after its last edit.
ApplyChartEdit(out, e) ==
  LET patched == WithAnchor(out, e)
  IN  IF "removed" \in e.flags THEN Unlink(patched, e.object.source, "chart")
      ELSE IF "changed" \in e.flags
           THEN Write(patched, e.object.source.part, e.object.title)
      ELSE patched

NextObjectId(anchors) == 1 + Max({0} \union {a.id : a \in Range(anchors)})

\* An object added since the load: an anchor with the next object id, a new
\* relationship and a new part.
AppendObject(out, d, kind, part, object, content) ==
  LET rel == FreeId(DOMAIN out.rels[d])
      anchor == [id |-> NextObjectId(out.anchors[d]), kind |-> kind, rel |-> rel,
                 place |-> object.place, size |-> object.size, text |-> None]
  IN  [Write(out, part, content) EXCEPT !.anchors[d] = Append(@, anchor),
                                        !.rels[d] = Put(@, rel, part)]

AppendedImages == SubSeq(images, loadedImages + 1, Len(images))
AppendedCharts == SubSeq(charts, loadedCharts + 1, Len(charts))

\* The drawing of the first loaded object, else the first the sheet owns.
DrawingFor(objects, loaded, otherwise) ==
  LET i == SelectInSubSeq(objects, 1, Min({loaded, Len(objects)}),
             LAMBDA o : Imported(o) /\ o.source.drawing \in Range(package.owned))
  IN  IF i = 0 THEN otherwise ELSE objects[i].source.drawing

ImageDrawing == DrawingFor(images, loadedImages, Head(package.owned))
ChartDrawing ==
  DrawingFor(charts, loadedCharts,
             IF loadedCharts = 0 THEN ImageDrawing ELSE Head(package.owned))

EditedDrawings(edits) == {e.object.source.drawing : e \in Range(edits)}

ImageDrawings == EditedDrawings(imageEdits) \union
                 IF AppendedImages = <<>> THEN {} ELSE {ImageDrawing}
ChartDrawings == EditedDrawings(chartEdits) \union
                 IF AppendedCharts = <<>> THEN {} ELSE {ChartDrawing}

\* Each pass ends by adding the drawings it changed to the archive.
WriteDrawings(out, drawings) ==
  [out EXCEPT !.written = @ \o SetToSeq({<<"drawing", d, "xml">> : d \in drawings})]

AppendImage(out, image) ==
  AppendObject(out, ImageDrawing, "pic", <<"media", Fresh(out, "media"), image.ext>>,
               image, image.bytes)
AppendChart(out, chart) ==
  AppendObject(out, ChartDrawing, "chart", <<"chart", Fresh(out, "chart"), "xml">>,
               [chart EXCEPT !.place = None], chart.title)

\* The edits in the order they were recorded, then the objects in the order they
\* were added, each on what the one before left.
ReplayImageEdits(out) ==
  LET edited[n \in 0 .. Len(imageEdits)] ==
        IF n = 0 THEN out ELSE ApplyImageEdit(edited[n - 1], imageEdits[n])
  IN  edited[Len(imageEdits)]

ReplayChartEdits(out) ==
  LET edited[n \in 0 .. Len(chartEdits)] ==
        IF n = 0 THEN out ELSE ApplyChartEdit(edited[n - 1], chartEdits[n])
  IN  edited[Len(chartEdits)]

AppendImages(out) ==
  LET appended[n \in 0 .. Len(AppendedImages)] ==
        IF n = 0 THEN out ELSE AppendImage(appended[n - 1], AppendedImages[n])
  IN  appended[Len(AppendedImages)]

AppendCharts(out) ==
  LET appended[n \in 0 .. Len(AppendedCharts)] ==
        IF n = 0 THEN out ELSE AppendChart(appended[n - 1], AppendedCharts[n])
  IN  appended[Len(AppendedCharts)]

\* applyImageChangesToPreservedDrawing.  The loop over the drawings is left
\* out: it only orders the numbers of new parts.
ApplyImageChanges(out) ==
  WriteDrawings(AppendImages(ReplayImageEdits(out)), ImageDrawings)

\* applyChartChangesToPreservedDrawing: it continues from what the pictures
\* left in the archive.
ApplyChartChanges(out) ==
  WriteDrawings(AppendCharts(ReplayChartEdits(out)), ChartDrawings)

Output == ApplyChartChanges(ApplyImageChanges(Untouched))

Patched(out) ==
  [owned   |-> package.owned,
   anchors |-> out.anchors,
   rels    |-> out.rels,
   parts   |-> Over(out.parts, Without(package.parts, out.dropped))]

-----------------------------------------------------------------------------
(* Save, the other way: a drawing of its own from the object model.  The    *)
(* preserved drawings stay in the package, no longer owned.                 *)

\* Seeded fault: shapes alone get no drawing.
NeedsDrawingUnlessShapes == images # <<>> \/ charts # <<>>

NeedsDrawing == images # <<>> \/ charts # <<>> \/ shapes # <<>>

Regenerated ==
  LET m == NextNumber("media", DOMAIN package.parts) - 1
      c == NextNumber("chart", DOMAIN package.parts) - 1
      d == 1 + Max({0} \union DOMAIN package.anchors)
      p == Len(images)
      q == p + Len(charts)
      media(i) == <<"media", m + i, images[i].ext>>
      chart(i) == <<"chart", c + i, "xml">>
      anchor(k) ==
        CASE k <= p -> [id |-> k, kind |-> "pic", rel |-> k, place |-> images[k].place,
                        size |-> images[k].size, text |-> None]
          [] k > p /\ k <= q -> [id |-> k, kind |-> "chart", rel |-> k, place |-> None,
                                 size |-> charts[k - p].size, text |-> None]
          [] OTHER -> [id |-> k, kind |-> "shape", rel |-> 0, place |-> None,
                       size |-> None, text |-> shapes[k - q]]
  IN  IF ~NeedsDrawing THEN [package EXCEPT !.owned = <<>>]
      ELSE [owned   |-> <<d>>,
            anchors |-> Put(package.anchors, d, [k \in 1 .. q + Len(shapes) |-> anchor(k)]),
            rels    |-> Put(package.rels, d,
                            [k \in 1 .. q |-> IF k <= p THEN media(k) ELSE chart(k - p)]),
            parts   |->
              Over([part \in {media(i) : i \in 1 .. p} |-> images[part[2] - m].bytes],
              Over([part \in {chart(i) : i \in 1 .. Len(charts)} |-> charts[part[2] - c].title],
                   package.parts))]

Saved == IF Preserve THEN Patched(Output) ELSE Regenerated

\* ZipArchive::add throws "Duplicate ZIP entry" for a name it already has.
CanSave == Preserve => IsInjective(Output.written)

-----------------------------------------------------------------------------
(* save clears the flags before it writes; it keeps the edits and the source *)

Save ==
  /\ drawingsDirty' = FALSE
  /\ UNCHANGED <<images, loadedImages, imageEdits, charts, loadedCharts, chartEdits,
                 shapes, package>>

\* What a load makes of a package.  Shapes are preserved, never read.
Load(P) ==
  /\ package' = P
  /\ images' = ImagesOf(P)
  /\ loadedImages' = Len(ImagesOf(P))
  /\ charts' = ChartsOf(P)
  /\ loadedCharts' = Len(ChartsOf(P))
  /\ imageEdits' = <<>>
  /\ chartEdits' = <<>>
  /\ shapes' = <<>>
  /\ drawingsDirty' = FALSE

\* Save, then load what was written.
Reload ==
  /\ CanSave
  /\ \E P \in {Saved} :
       /\ Cardinality(DOMAIN P.anchors) <= MaxDrawings
       /\ \A part \in DOMAIN P.parts : part[2] <= MaxNumber
       /\ \A d \in DOMAIN P.anchors : \A a \in Range(P.anchors[d]) : a.id <= MaxId
       /\ Load(P)

NewSheet ==
  /\ package = EmptyPackage
  /\ images = <<>> /\ charts = <<>> /\ shapes = <<>>
  /\ loadedImages = 0 /\ loadedCharts = 0
  /\ imageEdits = <<>> /\ chartEdits = <<>>
  /\ drawingsDirty = TRUE

LoadedSheet(P) ==
  /\ package = P
  /\ images = ImagesOf(P) /\ loadedImages = Len(ImagesOf(P))
  /\ charts = ChartsOf(P) /\ loadedCharts = Len(ChartsOf(P))
  /\ shapes = <<>> /\ imageEdits = <<>> /\ chartEdits = <<>>
  /\ drawingsDirty = FALSE

Init == NewSheet \/ \E P \in Sources : LoadedSheet(P)

EditImages ==
  \/ \E i \in DOMAIN images :
       \/ \E place \in Places : MoveImage(i, place)
       \/ \E size \in Sizes : ResizeImage(i, size)
       \/ \E bytes \in Bytes, ext \in Exts : ReplaceImage(i, bytes, ext)
       \/ RemoveImage(i)
  \/ \E place \in Places, size \in Sizes, bytes \in Bytes, ext \in Exts :
       AddImage(place, size, bytes, ext)

EditCharts ==
  \/ \E i \in DOMAIN charts :
       \/ \E place \in Places : MoveChart(i, place)
       \/ \E size \in Sizes : ResizeChart(i, size)
       \/ \E title \in Titles : SetChartTitle(i, title)
       \/ RemoveChart(i)
  \/ \E size \in Sizes, title \in Titles : AddChart(size, title)

Next ==
  \/ EditImages
  \/ EditCharts
  \/ AccessImages
  \/ AccessCharts
  \/ \E text \in Texts : AddShape(text)
  \/ AccessShapes
  \/ Save
  \/ Reload

Spec == Init /\ [][Next]_vars

\* Of a drawing that is not due for regeneration only the pictures or only the
\* charts are edited between two loads; one of few objects may be marked for
\* regeneration before it is edited, has objects of one look added, and is loaded
\* again once it is saved.
ImagesAsLoaded == imageEdits = <<>> /\ Len(images) = loadedImages
ChartsAsLoaded == chartEdits = <<>> /\ Len(charts) = loadedCharts
NextSelective ==
  \/ ChartsAsLoaded /\ EditImages
  \/ ImagesAsLoaded /\ EditCharts
  \/ Save
OneOf(S) == CHOOSE x \in S : TRUE
EditOneLook ==
  \/ \E i \in DOMAIN images : RemoveImage(i) \/ \E place \in Places : MoveImage(i, place)
  \/ \E i \in DOMAIN charts : RemoveChart(i) \/ \E title \in Titles : SetChartTitle(i, title)
  \/ AddImage(OneOf(Places), OneOf(Sizes), OneOf(Bytes), OneOf(Exts))
  \/ AddChart(OneOf(Sizes), OneOf(Titles))
NextRedrawn ==
  /\ \/ drawingsDirty /\ EditOneLook
     \/ AccessImages \/ AccessCharts \/ (\E text \in Texts : AddShape(text)) \/ AccessShapes
  /\ ~drawingsDirty => ImagesAsLoaded /\ ChartsAsLoaded
  /\ Len(images') + Len(charts') + Len(shapes') <= MaxRedrawn
NextOneKind == (~drawingsDirty /\ NextSelective) \/ NextRedrawn \/ Reload
SpecOneKind == Init /\ [][NextOneKind]_vars
SpecSelective == Init /\ [][EditImages \/ EditCharts \/ Save \/ Reload]_vars
-----------------------------------------------------------------------------
(* Properties *)

\* Every variable has its type: an edit is for an object of the source, the
\* added objects have no source, and the package is closed over its drawings.
TypeOK ==
  /\ \A i \in DOMAIN images :
       /\ images[i].place \in Places /\ images[i].size \in Sizes
       /\ images[i].bytes \in Bytes /\ images[i].ext \in Exts
  /\ \A i \in DOMAIN charts :
       /\ charts[i].place \in Places \union {None} /\ charts[i].size \in Sizes
       /\ charts[i].title \in Titles
  /\ loadedImages \in Nat /\ loadedCharts \in Nat
  /\ \A e \in Range(imageEdits) \union Range(chartEdits) :
       e.object.source.drawing \in Range(package.owned)
  /\ Range(shapes) \subseteq Texts
  /\ drawingsDirty \in BOOLEAN
  /\ Range(package.owned) \subseteq DOMAIN package.anchors
  /\ DOMAIN package.anchors = DOMAIN package.rels

Times(x, s) == Cardinality({i \in DOMAIN s : s[i] = x})
SameItems(s, t) == \A x \in Range(s) \union Range(t) : Times(x, s) = Times(x, t)

\* What a reader of the file, or a user of the model, sees of an object.
PictureOf(image) ==
  [place |-> image.place, size |-> image.size, bytes |-> image.bytes, ext |-> image.ext]
ChartOf(chart) == [place |-> chart.place, size |-> chart.size, title |-> chart.title]
Shown(objects, View(_)) == [i \in DOMAIN objects |-> View(objects[i])]

ShowsPictures(P) == SameItems(Shown(ImagesOf(P), PictureOf), Shown(images, PictureOf))
ShowsCharts(P) == SameItems(Shown(ChartsOf(P), ChartOf), Shown(charts, ChartOf))
ShowsTitles(P) ==
  SameItems(Shown(ChartsOf(P), LAMBDA c : c.title), Shown(charts, LAMBDA c : c.title))

TextsOf(P) ==
  UNION {{a.text : a \in {b \in Range(P.anchors[d]) : b.kind = "shape"}} : d \in Range(P.owned)}

\* A save is not refused, and writes what the model shows, however the setters
\* were interleaved, whatever was saved before, and after a reload: the
\* pictures, each where it is and with its bytes; the charts of a drawing that
\* is kept; the charts and shapes of one that is drawn anew.
SavedShowsObjects ==
  /\ CanSave
  /\ ShowsPictures(Saved)
  /\ IF Preserve THEN ShowsCharts(Saved)
     ELSE ShowsTitles(Saved) /\ TextsOf(Saved) = Range(shapes)

Edited(d, id) ==
  \E e \in Range(imageEdits) \union Range(chartEdits) :
    e.object.source.drawing = d /\ e.object.source.id = id

KeepsUntouched(P) ==
  \A d \in Range(package.owned) : \A a \in Range(package.anchors[d]) :
    ~Edited(d, a.id) =>
      /\ a \in Range(P.anchors[d])
      /\ Resolves(package, d, a) =>
           /\ Resolves(P, d, a)
           /\ P.rels[d][a.rel] = package.rels[d][a.rel]
           /\ P.parts[P.rels[d][a.rel]] = package.parts[package.rels[d][a.rel]]

\* An anchor of the source that no edit is for is in the saved drawing as it
\* was, its relationship leads where it led and the part there holds what it
\* held (Worksheet.h:149: "preserving sibling DrawingML verbatim").
UntouchedVerbatim == Preserve /\ CanSave => KeepsUntouched(Saved)

WellFormed(P) ==
  /\ \A d \in Range(P.owned) :
       /\ \A a, b \in DOMAIN P.anchors[d] : a # b => P.anchors[d][a].id # P.anchors[d][b].id
       /\ \A a \in Range(P.anchors[d]) : a.kind # "shape" => Resolves(P, d, a)
  /\ \A d \in DOMAIN P.rels : Range(P.rels[d]) \subseteq DOMAIN P.parts

Orphans(P) == DOMAIN P.parts \ UNION {Range(P.rels[d]) : d \in DOMAIN P.rels}

LedToOnce(part) ==
  Cardinality({x \in UNION {{d} \X DOMAIN package.rels[d] : d \in DOMAIN package.rels} :
                 package.rels[x[1]][x[2]] = part}) = 1

\* In a drawing the saved sheet owns, object ids are distinct and every
\* picture and chart resolves; no relationship of the package dangles, and a
\* save that patches the drawing leaves no part behind that one relationship
\* led to and none does any more.
PackageWellFormed ==
  CanSave => /\ WellFormed(Saved)
             /\ Preserve => \A part \in Orphans(Saved) \ Orphans(package) : ~LedToOnce(part)

\* Nothing is left behind of parts that several relationships led to (main.cpp:3246:
\* "Shared-media removal keeps graph valid").
NothingOrphaned == Preserve /\ CanSave => Orphans(Saved) \subseteq Orphans(package)

\* A shape that was added is in the file (Worksheet.h:142: "adding one only
\* marks the drawing for regeneration").
AddedShapesSaved == CanSave => Range(shapes) \subseteq TextsOf(Saved)

SamePictures(P, Q) == SameItems(Shown(ImagesOf(P), PictureOf), Shown(ImagesOf(Q), PictureOf))

\* Saving again, with no edit in between, writes a file that shows the same
\* pictures (main.cpp:7616: "Unchanged re-save is byte-identical").
ResaveUnchanged == [][Save /\ CanSave => SamePictures(Saved, Saved')]_vars
=============================================================================

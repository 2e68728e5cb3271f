---------------------------- MODULE PackageGraph ----------------------------
(***************************************************************************)
(* The relationship graph of an OOXML package                              *)
(* (Packaging/RelationshipGraph.cpp): which parts are linked to which, and *)
(* whether every visible object has an element that owns it.               *)
(*                                                                         *)
(* A package is a record of                                                *)
(*   parts  the content of each part, by its name; a content has a root    *)
(*          element and its nodes, the elements the graph reads, in order; *)
(*   rels   the relationships, a sequence of [source, id, type, target,    *)
(*          mode]; the root of the package is the source NoPart;           *)
(*   typed  the names a content type is declared for.                      *)
(* A target is the name it resolves to, missing from parts when it         *)
(* resolves to nothing.                                                    *)
(***************************************************************************)
EXTENDS Naturals, Sequences, FiniteSets

NoPart == <<>>
RelationshipsIn(z) == {z.rels[n] : n \in DOMAIN z.rels}

\* elementsByLocalName and attributeByLocalName.
NodesOf(z, part, tag) == SelectSeq(z.parts[part].nodes, LAMBDA n : n.tag = tag)
NodeSet(z, part, tag) == {n \in {z.parts[part].nodes[k] : k \in DOMAIN z.parts[part].nodes} : n.tag = tag}

\* relationshipReferenceIds: every namespace-qualified id, embed or link.
ReferenceIds(z, part) ==
    UNION {{n[a] : a \in {"id", "link"} \cap DOMAIN n} \ {""} :
              n \in {z.parts[part].nodes[k] : k \in DOMAIN z.parts[part].nodes}}

\* relationshipById: the first of them, <<>> when there is none.
RelationshipById(z, source, id) ==
    LET at == {n \in DOMAIN z.rels : z.rels[n].source = source /\ z.rels[n].id = id}
    IN  IF at = {} THEN <<>> ELSE <<z.rels[CHOOSE n \in at : \A m \in at : n <= m]>>

Error(what, part, of) == [what |-> what, part |-> part, of |-> of]

-----------------------------------------------------------------------------
(* resolveOwnerReference: an element of a part names a relationship of it. *)
Reference(source, id, type) == [source |-> source, id |-> id, type |-> type, external |-> FALSE]

Issue(z, ref) ==
    LET found == RelationshipById(z, ref.source, ref.id)
    IN  IF ref.id = "" THEN "no id"
        ELSE IF found = <<>> THEN "missing relationship"
        ELSE IF found[1].type # ref.type THEN "unexpected type"
        ELSE IF found[1].mode = "External" THEN (IF ref.external THEN "" ELSE "external")
        ELSE IF found[1].target \in DOMAIN z.parts THEN "" ELSE "missing part"
Owned(z, ref) == Issue(z, ref) = ""
Consumed(z, ref) == Issue(z, ref) \notin {"no id", "missing relationship", "unexpected type"}
Target(z, ref) == RelationshipById(z, ref.source, ref.id)[1].target
Targets(z, refs) == {Target(z, ref) : ref \in {r \in refs : Owned(z, r)}}
ReferenceErrors(z, refs) == {Error(Issue(z, ref), ref.source, ref.id) : ref \in {r \in refs : ~Owned(z, r)}}

References(z, part, tag, type) == {Reference(part, n.id, type) : n \in NodeSet(z, part, tag)}
ReferencesIn(z, parts, tag, type) == UNION {References(z, part, tag, type) : part \in parts}

-----------------------------------------------------------------------------
(* The workbook: pivot caches, sheets, external links.                     *)
OfficeDocument(z) ==
    LET at == {n \in DOMAIN z.rels : z.rels[n].source = NoPart /\ z.rels[n].type = "officeDocument"}
    IN  IF at = {} THEN NoPart ELSE z.rels[CHOOSE n \in at : \A m \in at : n <= m].target

CacheReferences(z, book) == References(z, book, "pivotCache", "pivotCacheDefinition")
\* The nodes with a number, each with the part it means.
NumberedCaches(z, book) ==
    LET ref(n) == Reference(book, n.id, "pivotCacheDefinition")
        nodes == SelectSeq(NodesOf(z, book, "pivotCache"), LAMBDA n : n.cacheId # 0 /\ Owned(z, ref(n)))
    IN  [k \in DOMAIN nodes |-> [id |-> nodes[k].id, cacheId |-> nodes[k].cacheId, part |-> Target(z, ref(nodes[k]))]]
\* The cache a number means: of several, the first in the workbook.
CacheNumbered(caches, number) ==
    LET at == {k \in DOMAIN caches : caches[k].cacheId = number}
    IN  IF at = {} THEN NoPart ELSE caches[CHOOSE k \in at : \A m \in at : k <= m].part
CacheNumberErrors(z, book, caches) ==
    {Error("no cacheId", book, n.id) :
        n \in {n \in NodeSet(z, book, "pivotCache") :
                  n.cacheId = 0 /\ Owned(z, Reference(book, n.id, "pivotCacheDefinition"))}}
    \cup {Error("duplicate cacheId", book, c.id) :
            c \in {caches[k] : k \in {k \in DOMAIN caches : CacheNumbered(caches, caches[k].cacheId) # caches[k].part}}}

SheetNodes(z, book, type) ==
    SelectSeq(NodesOf(z, book, "sheet"),
              LAMBDA n : LET found == RelationshipById(z, book, n.id)
                         IN  IF found = <<>> THEN FALSE ELSE found[1].type = type)
SheetReferences(z, book, type) ==
    LET nodes == SheetNodes(z, book, type) IN {Reference(book, nodes[k].id, type) : k \in DOMAIN nodes}
UnsupportedSheets(z, book) ==
    LET known == {ref.id : ref \in SheetReferences(z, book, "worksheet") \cup SheetReferences(z, book, "chartsheet")}
    IN  {Error("unsupported sheet", book, n.id) : n \in {n \in NodeSet(z, book, "sheet") : n.id \notin known}}

LinkReferences(z, book) == References(z, book, "externalReference", "externalLink")
\* Whatever a part refers to, of any type and mode.
GenericReferences(z, parts) == UNION {{<<part, id>> : id \in ReferenceIds(z, part)} : part \in parts}
Missing(z, ref) == RelationshipById(z, ref[1], ref[2]) = <<>>
Dangling(z, ref) == LET found == RelationshipById(z, ref[1], ref[2])
                    IN  found # <<>> /\ found[1].mode # "External" /\ found[1].target \notin DOMAIN z.parts
LinkErrors(z, links) ==
    {Error("missing relationship", ref[1], ref[2]) : ref \in {r \in GenericReferences(z, links) : Missing(z, r)}}
    \cup {Error("missing part", ref[1], ref[2]) : ref \in {r \in GenericReferences(z, links) : Dangling(z, r)}}

-----------------------------------------------------------------------------
(* Pivot tables: owned by an element, or by their relationship when no     *)
(* element names it; linked to the cache the workbook gives their number.  *)
RecordReferences(z, caches) ==
    {ref \in ReferencesIn(z, {p \in caches : z.parts[p].root = "pivotCacheDefinition"},
                          "records", "pivotCacheRecords") : ref.id # ""}

PivotReferences(z, sheets) ==
    LET explicit == ReferencesIn(z, sheets, "pivotTablePart", "pivotTable")
        named == {<<ref.source, ref.id>> : ref \in {r \in explicit : Consumed(z, r)}}
    IN  explicit \cup {Reference(r.source, r.id, "pivotTable") :
                         r \in {r \in RelationshipsIn(z) : /\ r.source \in sheets /\ r.type = "pivotTable"
                                                           /\ <<r.source, r.id>> \notin named}}

CacheLinks(z, table) == {r \in RelationshipsIn(z) : r.source = table /\ r.type = "pivotCacheDefinition"}
CacheLinksOf(z, table, caches) ==
    {r \in CacheLinks(z, table) : r.mode # "External" /\ CacheNumbered(caches, z.parts[table].cacheId) = r.target}
PivotErrors(z, tables, caches) ==
    LET of(what, Holds(_)) == {Error(what, t, "") : t \in {t \in tables : Holds(t)}}
        rooted == {t \in tables : z.parts[t].root = "pivotTableDefinition"}
        known == {t \in rooted : CacheNumbered(caches, z.parts[t].cacheId) # NoPart}
    IN  of("no root", LAMBDA t : t \notin rooted)
        \cup of("unknown cacheId", LAMBDA t : t \in rooted \ known)
        \cup of("not linked to its cache", LAMBDA t : t \in known /\ CacheLinksOf(z, t, caches) = {})
        \cup of("several caches", LAMBDA t : t \in known /\ Cardinality(CacheLinks(z, t)) > 1)

-----------------------------------------------------------------------------
(* Sheets: drawings, comments, tables, printer settings.                   *)
ChartsheetReferences(z, sheets) ==
    ReferencesIn(z, sheets, "drawing", "drawing")
    \cup ReferencesIn(z, sheets, "legacyDrawingHF", "vmlDrawing")
    \cup {ref \in ReferencesIn(z, sheets, "pageSetup", "printerSettings") : ref.id # ""}
BareChartsheets(z, sheets) ==
    {Error("no drawing", s, "") : s \in {s \in sheets : NodesOf(z, s, "drawing") = <<>>}}

WorksheetReferences(z, sheets) ==
    ReferencesIn(z, sheets, "drawing", "drawing")
    \cup ReferencesIn(z, sheets, "legacyDrawing", "vmlDrawing")
    \cup ReferencesIn(z, sheets, "legacyDrawingHF", "vmlDrawing")
    \cup ReferencesIn(z, sheets, "tablePart", "table")

\* Comments have no element in the worksheet: the relationship owns them.
CommentReferences(z, sheets) ==
    {Reference(r.source, r.id, "comments") :
        r \in {r \in RelationshipsIn(z) : r.source \in sheets /\ r.type = "comments"}}
WrongRoots(z, parts, root) == {Error("no root", p, "") : p \in {p \in parts : z.parts[p].root # root}}

(* Drawings: pictures and charts have a relationship of their own type.    *)
PictureReference(d, n) ==
    IF n.id # "" THEN Reference(d, n.id, "image") ELSE [Reference(d, n.link, "image") EXCEPT !.external = TRUE]
DrawingReferences(z, drawings) ==
    UNION {{PictureReference(d, n) : n \in NodeSet(z, d, "pic")} : d \in drawings}
    \cup UNION {{Reference(d, n.id, "chart") : n \in {n \in NodeSet(z, d, "graphicFrame") : n.chart}} : d \in drawings}
DrawingErrors(z, drawings) ==
    {Error("missing relationship", ref[1], ref[2]) : ref \in {r \in GenericReferences(z, drawings) : Missing(z, r)}}

-----------------------------------------------------------------------------
(* What inspectObjectGraph finds, in the order it finds it: the parts by   *)
(* what owns them, and the references of all owners.                       *)
DrawingsOf(z, refs) == Targets(z, {r \in refs : r.type = "drawing"})
InspectedSheets(z, found, refs, comments, pivots, drawings) ==
    [found EXCEPT !.tables = Targets(z, {r \in refs : r.type = "table"}),
                  !.comments = comments, !.pivots = Targets(z, pivots), !.drawings = drawings,
                  !.refs = @ \cup refs \cup comments \cup pivots \cup DrawingReferences(z, drawings)]
InspectedOwners(z, found, chartsheetRefs, worksheetRefs) ==
    InspectedSheets(z, [found EXCEPT !.chartsheetRefs = chartsheetRefs], chartsheetRefs \cup worksheetRefs,
                    CommentReferences(z, found.worksheets), PivotReferences(z, found.worksheets),
                    DrawingsOf(z, chartsheetRefs \cup worksheetRefs))
InspectedParts(z, found) ==
    InspectedOwners(z, [found EXCEPT !.refs = @ \cup RecordReferences(z, found.caches)],
                    ChartsheetReferences(z, found.chartsheets), WorksheetReferences(z, found.worksheets))
InspectedReferences(z, book, worksheets, chartsheets, caches, links) ==
    InspectedParts(z,
      [book |-> book, worksheets |-> Targets(z, worksheets), chartsheets |-> Targets(z, chartsheets),
       caches |-> Targets(z, caches), numbered |-> NumberedCaches(z, book), links |-> Targets(z, links),
       tables |-> {}, comments |-> {}, drawings |-> {}, pivots |-> {}, chartsheetRefs |-> {},
       refs |-> worksheets \cup chartsheets \cup caches \cup links])
InspectedBook(z, book) ==
    InspectedReferences(z, book, SheetReferences(z, book, "worksheet"), SheetReferences(z, book, "chartsheet"),
                        CacheReferences(z, book), LinkReferences(z, book))
Inspected(z) == InspectedBook(z, OfficeDocument(z))

(* Relationships that no element refers to.                                *)
ObjectTypes == {"drawing", "image", "chart", "table", "comments", "vmlDrawing", "printerSettings",
                "externalLink", "externalLinkPath", "pivotTable", "pivotCacheDefinition", "pivotCacheRecords"}

ConsumedKeys(z, g) ==
    {<<ref.source, ref.id>> : ref \in {r \in g.refs : Consumed(z, r)}}
    \cup UNION {{<<r.source, r.id>> : r \in CacheLinksOf(z, t, g.numbered)} :
                   t \in {t \in g.pivots : z.parts[t].root = "pivotTableDefinition"}}
    \cup {ref \in GenericReferences(z, g.links \cup g.drawings) : ~Missing(z, ref)}
\* Mutant: takes an id that another source uses for this one.
UnreferencedById(z, g) ==
    LET consumed == {key[2] : key \in ConsumedKeys(z, g)}
    IN  {Error("not referenced", r.source, r.id) :
            r \in {r \in RelationshipsIn(z) : /\ r.source \in g.drawings \/ r.type \in ObjectTypes
                                              /\ r.id \notin consumed}}
Unreferenced(z, g) ==
    LET consumed == ConsumedKeys(z, g)
    IN  {Error("not referenced", r.source, r.id) :
            r \in {r \in RelationshipsIn(z) : /\ r.source \in g.drawings \/ r.type \in ObjectTypes
                                              /\ <<r.source, r.id>> \notin consumed}}

GraphErrors(z, g) ==
    ReferenceErrors(z, g.refs)
    \cup CacheNumberErrors(z, g.book, g.numbered) \cup UnsupportedSheets(z, g.book)
    \cup LinkErrors(z, g.links) \cup PivotErrors(z, g.pivots, g.numbered)
    \cup WrongRoots(z, g.caches, "pivotCacheDefinition") \cup WrongRoots(z, g.tables, "table")
    \cup WrongRoots(z, Targets(z, g.comments), "comments")
    \cup BareChartsheets(z, g.chartsheets) \cup DrawingErrors(z, g.drawings) \cup Unreferenced(z, g)
\* Nothing is inspected without a workbook.
OwnerReferenceErrors(z) ==
    IF OfficeDocument(z) \notin DOMAIN z.parts THEN {Error("no workbook", NoPart, "")} ELSE GraphErrors(z, Inspected(z))

-----------------------------------------------------------------------------
(* The objects a reader of the package sees, by kind.                      *)
RECURSIVE Total(_, _)
Total(Number(_), S) ==
    IF S = {} THEN 0 ELSE LET x == CHOOSE x \in S : TRUE IN Number(x) + Total(Number, S \ {x})
Shown(z, parts, tag, Holds(_, _)) ==            \* the elements of that tag for which it holds
    Total(LAMBDA p : Cardinality({k \in DOMAIN NodesOf(z, p, tag) : Holds(p, NodesOf(z, p, tag)[k])}), parts)
All(p, n) == TRUE
PictureShown(z, d, n) == Owned(z, PictureReference(d, n))
ChartShown(z, d, n) == n.chart /\ Owned(z, Reference(d, n.id, "chart"))
TableShown(z, s, n) ==
    LET ref == Reference(s, n.id, "table") IN Owned(z, ref) /\ z.parts[Target(z, ref)].root = "table"
SheetCount(z, book, type) ==
    Shown(z, {book}, "sheet", LAMBDA p, n : Owned(z, Reference(p, n.id, type)))
\* Mutant: counts the parts with comments.
CommentPartCount(z, refs) == Cardinality({r \in refs : Owned(z, r)})
CommentCount(z, refs) ==
    Total(LAMBDA r : Len(NodesOf(z, Target(z, r), "comment")), {r \in refs : Owned(z, r)})

Kinds == {"worksheets", "chartsheets", "headerFooterDrawings", "printerSettings", "drawings", "images", "charts",
          "shapes", "textBoxes", "connectors", "groups", "otherDrawingObjects", "tables", "comments",
          "externalLinks", "pivotTables", "pivotCaches"}
OnChartsheets(z, g, type) == Cardinality(Targets(z, {r \in g.chartsheetRefs : r.type = type}))
Counted(z, g) ==
    LET drawn(tag, Holds(_, _)) == Shown(z, g.drawings, tag, Holds)
    IN  [worksheets |-> SheetCount(z, g.book, "worksheet"), chartsheets |-> SheetCount(z, g.book, "chartsheet"),
         headerFooterDrawings |-> OnChartsheets(z, g, "vmlDrawing"), printerSettings |-> OnChartsheets(z, g, "printerSettings"),
         drawings |-> Cardinality(g.drawings),
         images |-> drawn("pic", LAMBDA d, n : PictureShown(z, d, n)),
         charts |-> drawn("graphicFrame", LAMBDA d, n : ChartShown(z, d, n)),
         shapes |-> drawn("sp", All), textBoxes |-> drawn("sp", LAMBDA d, n : n.text),
         connectors |-> drawn("cxnSp", All), groups |-> drawn("grpSp", All),
         otherDrawingObjects |-> drawn("contentPart", All) + drawn("graphicFrame", LAMBDA d, n : ~n.chart),
         tables |-> Shown(z, g.worksheets, "tablePart", LAMBDA s, n : TableShown(z, s, n)),
         comments |-> CommentCount(z, g.comments),
         externalLinks |-> Cardinality(g.links),
         pivotTables |-> Cardinality(g.pivots), pivotCaches |-> Cardinality(g.caches)]
Inventory(z) ==
    IF OfficeDocument(z) \notin DOMAIN z.parts THEN [kind \in Kinds |-> 0] ELSE Counted(z, Inspected(z))

-----------------------------------------------------------------------------
(* validate: the errors of a package, by kind.                             *)
DuplicateIds(z) ==
    {Error("duplicate id", z.rels[n].source, z.rels[n].id) :
        n \in {n \in DOMAIN z.rels : \E m \in 1 .. n - 1 : /\ z.rels[m].source = z.rels[n].source
                                                          /\ z.rels[m].id = z.rels[n].id}}
InternalRelationships(z) == {r \in RelationshipsIn(z) : r.mode # "External"}
DanglingRelationships(z) ==
    {Error("dangling", r.source, r.id) : r \in {r \in InternalRelationships(z) : r.target \notin DOMAIN z.parts}}
SyntaxErrors(z) ==
    {Error("syntax", r.source, r.id) :
        r \in {r \in RelationshipsIn(z) : \/ r.id = "" \/ r.type = "" \/ r.target = NoPart
                                          \/ r.mode \notin {"", "Internal", "External"}}}

\* What the root leads to.
RECURSIVE ReachableFrom(_, _)
ReachableFrom(z, S) ==
    LET more == {r.target : r \in {r \in InternalRelationships(z) : r.source \in S}} \cap DOMAIN z.parts
    IN  IF more \subseteq S THEN S ELSE ReachableFrom(z, S \cup more)
OrphanedParts(z) == {Error("orphan", p, "") : p \in DOMAIN z.parts \ ReachableFrom(z, {NoPart})}
ContentTypeErrors(z) ==
    {Error("no content type", p, "") : p \in DOMAIN z.parts \ z.typed}
    \cup {Error("content type of a missing part", p, "") : p \in z.typed \ DOMAIN z.parts}

Validate(z) ==
    SyntaxErrors(z) \cup DuplicateIds(z) \cup DanglingRelationships(z) \cup OrphanedParts(z)
    \cup ContentTypeErrors(z) \cup OwnerReferenceErrors(z)
Valid(z) == Validate(z) = {}

-----------------------------------------------------------------------------
(* comparePackages: what a rewritten package lost.                         *)
ComparePackages(before, after) ==
    LET had == Inventory(before)
        has == Inventory(after)
    IN  [addedParts |-> DOMAIN after.parts \ DOMAIN before.parts,
         removedParts |-> DOMAIN before.parts \ DOMAIN after.parts,
         changedParts |-> {p \in DOMAIN before.parts \cap DOMAIN after.parts : before.parts[p] # after.parts[p]},
         afterValidation |-> Validate(after),
         regressions |-> {kind \in Kinds : has[kind] < had[kind]}]
=============================================================================

--------------------------- MODULE MCPackageGraph ---------------------------
(***************************************************************************)
(* PackageGraph on a workbook with one of each kind of object, damaged a   *)
(* few times: an element, a relationship, a content type or a part is      *)
(* lost, a relationship gets another target or another one's id.           *)
(***************************************************************************)
EXTENDS PackageGraph, TLC

CONSTANT MaxDamages
VARIABLES package, damages
vars == <<package, damages>>

Part(root, nodes) == [root |-> root, nodes |-> nodes]
Link(source, id, type, target) == [source |-> source, id |-> id, type |-> type, target |-> target, mode |-> "Internal"]
Outside(source, id, type, target) == [Link(source, id, type, target) EXCEPT !.mode = "External"]

Book == <<"workbook">>
Contents ==
    [p \in {Book} |-> Part("workbook", <<[tag |-> "sheet", id |-> "r1"], [tag |-> "sheet", id |-> "r2"],
        [tag |-> "externalReference", id |-> "r4"], [tag |-> "pivotCache", id |-> "r3", cacheId |-> 7]>>)]
    @@ [p \in {<<"sheet", 1>>} |-> Part("worksheet",
          <<[tag |-> "drawing", id |-> "r1"], [tag |-> "tablePart", id |-> "r2"], [tag |-> "pivotTablePart", id |-> "r3"],
            [tag |-> "legacyDrawing", id |-> "r5"]>>)]
    @@ [p \in {<<"sheet", 2>>} |-> Part("chartsheet", 
          <<[tag |-> "drawing", id |-> "r1"], [tag |-> "pageSetup", id |-> "r2"], [tag |-> "legacyDrawingHF", id |-> "r3"]>>)]
    @@ [p \in {<<"drawing", 1>>} |-> Part("wsDr",
          <<[tag |-> "pic", id |-> "r1", link |-> ""], [tag |-> "pic", id |-> "", link |-> "r3"],
            [tag |-> "graphicFrame", chart |-> TRUE, id |-> "r2"],
            [tag |-> "sp", text |-> TRUE], [tag |-> "cxnSp"], [tag |-> "grpSp"], [tag |-> "graphicFrame", chart |-> FALSE],
            [tag |-> "contentPart", id |-> "r5"], [tag |-> "hlinkClick", id |-> "r4"]>>)]
    @@ [p \in {<<"drawing", 2>>} |-> Part("wsDr", <<[tag |-> "graphicFrame", chart |-> TRUE, id |-> "r1"]>>)]
    @@ [p \in {<<"chart", 1>>, <<"chart", 2>>} |-> Part("chartSpace", <<>>)]
    @@ [p \in {<<"image">>, <<"ink">>, <<"vml", 1>>, <<"vml", 2>>, <<"printer">>, <<"chartStyle">>} |-> Part("", <<>>)]
    @@ [p \in {<<"table">>} |-> Part("table", <<>>)]
    @@ [p \in {<<"comments">>} |-> Part("comments", <<[tag |-> "comment"], [tag |-> "comment"]>>)]
    @@ [p \in {<<"link">>} |-> Part("externalLink", <<[tag |-> "externalBook", id |-> "r1"]>>)]
    @@ [p \in {<<"pivot">>} |-> [root |-> "pivotTableDefinition", nodes |-> <<>>, cacheId |-> 7]]
    @@ [p \in {<<"cache">>} |-> Part("pivotCacheDefinition", <<[tag |-> "records", id |-> "r1"]>>)]
    @@ [p \in {<<"records">>} |-> Part("pivotCacheRecords", <<>>)]

Links ==
    <<Link(NoPart, "r1", "officeDocument", Book),
      Link(Book, "r1", "worksheet", <<"sheet", 1>>), Link(Book, "r2", "chartsheet", <<"sheet", 2>>),
      Link(Book, "r3", "pivotCacheDefinition", <<"cache">>), Link(Book, "r4", "externalLink", <<"link">>),
      Link(<<"sheet", 1>>, "r1", "drawing", <<"drawing", 1>>), Link(<<"sheet", 1>>, "r2", "table", <<"table">>),
      Link(<<"sheet", 1>>, "r3", "pivotTable", <<"pivot">>), Link(<<"sheet", 1>>, "r4", "comments", <<"comments">>),
      Link(<<"sheet", 2>>, "r1", "drawing", <<"drawing", 2>>), Link(<<"sheet", 2>>, "r2", "printerSettings", <<"printer">>),
      Link(<<"drawing", 1>>, "r1", "image", <<"image">>), Link(<<"drawing", 1>>, "r2", "chart", <<"chart", 1>>),
      Link(<<"sheet", 1>>, "r5", "vmlDrawing", <<"vml", 1>>), Link(<<"sheet", 2>>, "r3", "vmlDrawing", <<"vml", 2>>),
      Link(<<"drawing", 1>>, "r5", "customXml", <<"ink">>),
      Outside(<<"drawing", 1>>, "r3", "image", <<"picture of another server">>),
      Outside(<<"drawing", 1>>, "r4", "hyperlink", <<"page">>),
      Link(<<"drawing", 2>>, "r1", "chart", <<"chart", 2>>), Link(<<"chart", 2>>, "r1", "chartStyle", <<"chartStyle">>),
      Outside(<<"link">>, "r1", "externalLinkPath", <<"another workbook">>),
      Link(<<"pivot">>, "r1", "pivotCacheDefinition", <<"cache">>), Link(<<"cache">>, "r1", "pivotCacheRecords", <<"records">>)>>

Original == [parts |-> Contents, rels |-> Links, typed |-> DOMAIN Contents]

-----------------------------------------------------------------------------
Damaged(new) == damages < MaxDamages /\ damages' = damages + 1 /\ package' = new
Without(s, n) == SubSeq(s, 1, n - 1) \o SubSeq(s, n + 1, Len(s))

LoseElement ==
    \E p \in DOMAIN package.parts : \E n \in DOMAIN package.parts[p].nodes :
        Damaged([package EXCEPT !.parts[p].nodes = Without(@, n)])
LoseRelationship ==
    \E n \in DOMAIN package.rels : Damaged([package EXCEPT !.rels = Without(@, n)])
LosePart ==
    \E p \in DOMAIN package.parts :
        Damaged([package EXCEPT !.parts = [q \in DOMAIN @ \ {p} |-> @[q]], !.typed = @ \ {p}])
LoseContentType ==
    \E p \in package.typed : Damaged([package EXCEPT !.typed = @ \ {p}])
Retarget ==
    \E n \in {n \in DOMAIN package.rels : package.rels[n].mode = "Internal"} :
        \E t \in {r.target : r \in {r \in RelationshipsIn(package) : r.type = package.rels[n].type}} \cup {<<"nowhere">>} :
            t # package.rels[n].target /\ Damaged([package EXCEPT !.rels[n].target = t])
Renumber ==
    \E n \in DOMAIN package.rels :
        \E id \in {r.id : r \in {r \in RelationshipsIn(package) : r.source = package.rels[n].source}} \cup {"r9"} :
            id # package.rels[n].id /\ Damaged([package EXCEPT !.rels[n].id = id])
\* An object removed with the relationships that lead to it and the elements that name them.
RemoveObject ==
    \E p \in DOMAIN package.parts \ {Book} :
        LET into == {r \in RelationshipsIn(package) : r.target = p}
            names(q, n) == "id" \in DOMAIN n /\ \E r \in into : r.source = q /\ r.id = n.id
        IN  Damaged([parts |-> [q \in DOMAIN package.parts \ {p} |->
                        [package.parts[q] EXCEPT !.nodes = SelectSeq(@, LAMBDA n : ~names(q, n))]],
                     rels |-> SelectSeq(package.rels, LAMBDA r : r.target # p /\ r.source # p),
                     typed |-> package.typed \ {p}])

Init == package = Original /\ damages = 0
Next == LoseElement \/ LoseRelationship \/ LosePart \/ LoseContentType \/ Retarget \/ Renumber \/ RemoveObject
Spec == Init /\ [][Next]_vars

-----------------------------------------------------------------------------
(* What a reader of the package sees: it starts at the workbook and        *)
(* follows the elements of the parts it has opened to what they name; it   *)
(* opens comments because the worksheet has a relationship to them, a      *)
(* pivot table for the same reason, and the cache by the number.           *)
Named(z, p) ==
    {z.rels[n].target : n \in {n \in DOMAIN z.rels :
        /\ z.rels[n].source = p
        /\ \/ z.rels[n].type \in {"comments", "pivotTable", "chartStyle"}
           \/ z.rels[n].id \in ReferenceIds(z, p)}}
    \cup (IF z.parts[p].root = "pivotTableDefinition" THEN {CacheNumbered(NumberedCaches(z, OfficeDocument(z)), z.parts[p].cacheId)} ELSE {})
RECURSIVE OpenedFrom(_, _)
OpenedFrom(z, S) ==
    LET more == UNION {Named(z, p) : p \in S} \cap DOMAIN z.parts
    IN  IF more \subseteq S THEN S ELSE OpenedFrom(z, S \cup more)
Opened(z) == OpenedFrom(z, {OfficeDocument(z)} \cap DOMAIN z.parts)
\* With the pictures outside the package; where a hyperlink or an external link leads is not counted.
Seen(z) ==
    LET shown == Opened(z)
    IN  shown \cup {<<"outside", r.source, r.target>> :
            r \in {r \in RelationshipsIn(z) : /\ r.mode = "External" /\ r.type = "image"
                                             /\ r.source \in shown /\ r.id \in ReferenceIds(z, r.source)}}
\* The elements without a relationship: shapes, comments.
Plain(z) == LET of(p) == SelectSeq(z.parts[p].nodes, LAMBDA n : "id" \notin DOMAIN n)
            IN  Total(LAMBDA p : Len(of(p)), Opened(z))

\* A rewritten package that shows less than the original is reported: as an error of the new
\* package or as a count that fell (comparePackages, the check a preserving save is tested with).
ShownTwice(z) ==                                \* one object in the place of another: the counts stay
    \E r, s \in InternalRelationships(z) :
        r # s /\ r.target = s.target /\ r.type = s.type /\ r.type # "pivotCacheDefinition"
\* Kept records, looks and the legacy drawing of a worksheet are in no count.
Uncounted == {<<"records">>, <<"chartStyle">>, <<"vml", 1>>}
LostIsReported ==
    \/ ShownTwice(package)
    \/ Seen(Original) \ Uncounted \subseteq Seen(package) /\ Plain(package) >= Plain(Original)
    \/ LET report == ComparePackages(Original, package)
       IN  report.afterValidation # {} \/ report.regressions # {}

\* A package without errors has no part that only its relationships lead to: whatever is in it
\* can be seen by following the elements (validate, asked for by validatePackageBeforeWrite).
ValidShowsEverything == Valid(package) => Opened(package) = DOMAIN package.parts
=============================================================================

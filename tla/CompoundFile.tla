---------------------------- MODULE CompoundFile ----------------------------
(***************************************************************************)
(* The compound file (CFB) a VBA project is kept in: buildCfb writes a     *)
(* tree of storages and streams into sectors, CfbReader reads it back      *)
(* (src/src/XLPP/VBA/VbaProjectBinary.cpp).                                *)
(*                                                                         *)
(* A stream holds "units" (what a byte stands for is left to the caller),  *)
(* a sector holds SectorSize units, FatEntries sector numbers or           *)
(* DirEntries directory entries.  The code's geometry is 512, 64, 4096,    *)
(* 128, 4, 109 and 127; the constants scale it down so that small streams  *)
(* need chains in every table, the sectors of the DIFAT included.          *)
(***************************************************************************)
EXTENDS Integers, Sequences, FiniteSets, Outcomes

CONSTANTS
  SectorSize, MiniSize,   \* units of a sector and of a mini sector
  MiniCutoff,             \* streams below this size live in the mini stream
  FatEntries,             \* sector numbers a FAT sector holds
  DirEntries,             \* entries a directory sector holds
  HeaderFat, DifatFat,    \* FAT sectors the header and a DIFAT sector name
  Lower,                  \* name -> the name in lower case (asciiLower)
  Shorter                 \* the lower-case names in the order of cfbNameLess

FreeSect == -1   EndOfChain == -2   FatSect == -3   DifSect == -4
Nil == 0                                      \* no entry of the directory
Pad == <<"pad", 0>>                           \* a unit nobody wrote

CeilDiv(a, b) == (a + b - 1) \div b
IndexIn(seq, x) == CHOOSE i \in DOMAIN seq : seq[i] = x

(***************************************************************************)
(* Directory trees: the children of a storage form a red-black tree.       *)
(***************************************************************************)
NameLess(a, b) == IndexIn(Shorter, Lower[a]) < IndexIn(Shorter, Lower[b])

Opposite(side) == IF side = "left" THEN "right" ELSE "left"

\* rotateLeft (side "right") and rotateRight (side "left"): the child of x
\* on that side takes the place of x.
Rotate(t, x, side) ==
  LET y  == t.kid[side][x]
      b  == t.kid[Opposite(side)][y]
      up == t.up[x]
      k  == [t.kid EXCEPT ![side][x] = b, ![Opposite(side)][y] = x]
      at == IF up # Nil /\ x = t.kid["left"][up] THEN "left" ELSE "right"
  IN  [t EXCEPT !.kid = IF up = Nil THEN k ELSE [k EXCEPT ![at][up] = y],
                !.up = [i \in DOMAIN t.up |-> IF i = y THEN up
                          ELSE IF i = x \/ (i = b /\ b # Nil)
                               THEN (IF i = x THEN y ELSE x) ELSE t.up[i]],
                !.root = IF up = Nil THEN y ELSE @]

RECURSIVE Rebalance(_, _)
Rebalance(t, z) ==
  LET p == t.up[z]
      g == IF p = Nil THEN Nil ELSE t.up[p]
      side == IF p = t.kid["left"][g] THEN "left" ELSE "right"
      uncle == t.kid[Opposite(side)][g]
      inner == z = t.kid[Opposite(side)][p]
      t1 == IF inner THEN Rotate(t, p, Opposite(side)) ELSE t
      z1 == IF inner THEN p ELSE z
      p1 == t1.up[z1]
      g1 == t1.up[p1]
  IN  IF p = Nil \/ p \notin t.red \/ g = Nil THEN t
      ELSE IF uncle # Nil /\ uncle \in t.red
      THEN Rebalance([t EXCEPT !.red = (@ \ {p, uncle}) \cup {g}], g)
      ELSE Rebalance(Rotate([t1 EXCEPT !.red = (@ \ {p1}) \cup {g1}], g1, side), z1)

RECURSIVE Descend(_, _, _, _)     \* the leaf place of a new child
Descend(nodes, t, z, at) ==
  LET side == IF NameLess(nodes[z].name, nodes[at].name) THEN "left" ELSE "right"
  IN  IF t.kid[side][at] = Nil THEN <<at, side>> ELSE Descend(nodes, t, z, t.kid[side][at])

RECURSIVE AddChildren(_, _, _)
AddChildren(nodes, t, children) ==
  IF children = {} THEN t
  ELSE LET z == CHOOSE c \in children : \A d \in children : c <= d
           place == Descend(nodes, t, z, t.root)
           t1 == IF t.root = Nil THEN [t EXCEPT !.root = z, !.red = @ \cup {z}]
                 ELSE [t EXCEPT !.kid[place[2]][place[1]] = z, !.up[z] = place[1],
                                !.red = @ \cup {z}]
           t2 == Rebalance(t1, z)
       IN  AddChildren(nodes, [t2 EXCEPT !.red = @ \ {t2.root}], children \ {z})

\* assignChildTree of one storage: the tree and its root.
ChildTree(nodes, storage) ==
  LET ids == 0..Len(nodes)
      none == [i \in ids |-> Nil]
  IN  AddChildren(nodes, [kid |-> [left |-> none, right |-> none], up |-> none,
                          red |-> {}, root |-> Nil],
                  {i \in 1..Len(nodes) : nodes[i].parent = storage})

(***************************************************************************)
(* The nodes of a new file: the root, the storage VBA, their streams, and  *)
(* the streams of the designers below storages of their own.               *)
(***************************************************************************)
Stream(name, parent, data) == [name |-> name, type |-> "stream", parent |-> parent, data |-> data]
Storage(name, parent) == [name |-> name, type |-> "storage", parent |-> parent, data |-> <<>>]

ChildStorage(nodes, parent, name) ==
  LET same == {i \in 1..Len(nodes) : /\ nodes[i].parent = parent /\ nodes[i].type = "storage"
                                     /\ Lower[nodes[i].name] = Lower[name]}
  IN  IF same = {} THEN [nodes |-> Append(nodes, Storage(name, parent)), id |-> Len(nodes) + 1]
      ELSE [nodes |-> nodes, id |-> CHOOSE i \in same : \A j \in same : i <= j]

\* addHierarchicalStream: path is the sequence of its components.
RECURSIVE AddStream(_, _, _, _)
AddStream(nodes, parent, path, data) ==
  IF path = <<>> \/ Head(path) \in {"", ".", ".."} THEN Fail
  ELSE IF Len(path) > 1
  THEN LET s == ChildStorage(nodes, parent, Head(path)) IN AddStream(s.nodes, s.id, Tail(path), data)
  ELSE IF \E i \in 1..Len(nodes) : nodes[i].parent = parent /\ Lower[nodes[i].name] = Lower[path[1]]
  THEN Fail
  ELSE [ok |-> TRUE, nodes |-> Append(nodes, Stream(path[1], parent, data))]

RECURSIVE AddStreams(_, _, _)
AddStreams(nodes, parent, streams) ==
  IF streams = <<>> THEN [ok |-> TRUE, nodes |-> nodes]
  ELSE Then(AddStream(nodes, parent, Head(streams).path, Head(streams).data), LAMBDA added :
         AddStreams(added.nodes, parent, Tail(streams)))

RECURSIVE AddDesigners(_, _)
AddDesigners(nodes, storages) ==
  IF storages = <<>> THEN [ok |-> TRUE, nodes |-> nodes]
  ELSE IF Head(storages).name = "" \/ Lower[Head(storages).name] = "vba" THEN Fail
  ELSE LET s == ChildStorage(nodes, 1, Head(storages).name)
       IN  Then(AddStreams(s.nodes, s.id, Head(storages).streams), LAMBDA added :
             AddDesigners(added.nodes, Tail(storages)))

\* rootStreams and vbaStreams are sequences of [name, data] in map order.
Nodes(rootStreams, vbaStreams, storages) ==
  AddDesigners(<<[name |-> "Root Entry", type |-> "root", parent |-> Nil, data |-> <<>>],
                 Storage("VBA", 1)>>
               \o [i \in DOMAIN rootStreams |-> Stream(rootStreams[i].name, 1, rootStreams[i].data)]
               \o [i \in DOMAIN vbaStreams |-> Stream(vbaStreams[i].name, 2, vbaStreams[i].data)],
               storages)

(***************************************************************************)
(* Placement.                                                              *)
(***************************************************************************)
Filled(data, size) ==     \* data and the padding of its last sector
  data \o [i \in 1..(CeilDiv(Len(data), size) * size - Len(data)) |-> Pad]

ChainFrom(first, count) ==      \* the table entries of a chain of sectors
  [s \in 1..count |-> IF s = count THEN EndOfChain ELSE first + s]

RECURSIVE MiniStream(_, _)
MiniStream(nodes, i) ==
  IF i > Len(nodes) THEN [units |-> <<>>, table |-> <<>>, first |-> <<>>]
  ELSE LET rest == MiniStream(nodes, i + 1)        \* placed after this stream
           d == nodes[i].data
           small == nodes[i].type = "stream" /\ d # <<>> /\ Len(d) < MiniCutoff
       IN  IF small
           THEN [units |-> Filled(d, MiniSize) \o rest.units,
                 table |-> <<CeilDiv(Len(d), MiniSize)>> \o rest.table,
                 first |-> <<i>> \o rest.first]
           ELSE rest

RECURSIVE SumTo(_, _)
SumTo(sizes, n) == IF n = 0 THEN 0 ELSE sizes[n] + SumTo(sizes, n - 1)

RECURSIVE Chains(_, _, _)         \* consecutive chains of the given lengths
Chains(sizes, n, first) ==
  IF n > Len(sizes) THEN <<>>
  ELSE ChainFrom(first, sizes[n]) \o Chains(sizes, n + 1, first + sizes[n])

\* How many FAT and DIFAT sectors hold the numbers of all the sectors,
\* their own included.
RECURSIVE FatSectors(_, _, _)
FatSectors(others, fat, difat) ==
  LET nextDifat == IF fat > HeaderFat THEN CeilDiv(fat - HeaderFat, DifatFat) ELSE 0
      nextFat == CeilDiv(others + fat + nextDifat, FatEntries)
  IN  IF nextFat = fat /\ nextDifat = difat THEN [fat |-> fat, difat |-> difat]
      ELSE FatSectors(others, nextFat, nextDifat)

Cut(data, size) ==                  \* sectors of a filled sequence
  [s \in 1..(Len(data) \div size) |-> SubSeq(data, (s - 1) * size + 1, s * size)]
Extend(seq, n, x) == seq \o [i \in 1..(n - Len(seq)) |-> x]
Start(count, first) == IF count = 0 THEN EndOfChain ELSE first

RECURSIVE RegularIds(_, _)
RegularIds(nodes, i) ==
  IF i > Len(nodes) THEN <<>>
  ELSE (IF nodes[i].type = "stream" /\ Len(nodes[i].data) >= MiniCutoff THEN <<i>> ELSE <<>>)
       \o RegularIds(nodes, i + 1)

RECURSIVE Together(_, _)
Together(parts, n) == IF n > Len(parts) THEN <<>> ELSE parts[n] \o Together(parts, n + 1)

\* directoryEntry of a node.
Entry(nodes, i, trees, start, size) ==
  LET up == trees[IF nodes[i].parent = Nil THEN 1 ELSE nodes[i].parent]
  IN  [name |-> nodes[i].name, type |-> nodes[i].type,
       left |-> up.kid["left"][i], right |-> up.kid["right"][i],
       child |-> IF nodes[i].type = "stream" THEN Nil ELSE trees[i].root,
       start |-> start, size |-> size]
NoEntry == [name |-> "", type |-> "none", left |-> Nil, right |-> Nil, child |-> Nil,
            start |-> EndOfChain, size |-> 0]

\* The header and the sectors: the long streams, the mini stream, the
\* directory, the mini FAT, the FAT and the DIFAT.
Placed(nodes, trees, mini, regular) ==
  LET ids     == 1..Len(nodes)
      counts  == [k \in DOMAIN regular |-> CeilDiv(Len(nodes[regular[k]].data), SectorSize)]
      rootSectors == CeilDiv(Len(mini.units), SectorSize)
      dirSectors  == CeilDiv(Len(nodes), DirEntries)
      miniFat     == Chains(mini.table, 1, 0)
      miniFatSectors == CeilDiv(Len(miniFat), FatEntries)
      streamSectors  == SumTo(counts, Len(counts))
      sizes   == counts \o <<rootSectors, dirSectors, miniFatSectors>>
      others  == streamSectors + rootSectors + dirSectors + miniFatSectors
      own     == FatSectors(others, 1, 0)
      fat     == Extend(Chains(sizes, 1, 0) \o [i \in 1..own.fat |-> FatSect]
                          \o [i \in 1..own.difat |-> DifSect],
                        own.fat * FatEntries, FreeSect)
      StartOf(i) ==
        IF i = 1 THEN Start(rootSectors, streamSectors)
        ELSE IF nodes[i].type # "stream" \/ nodes[i].data = <<>> THEN EndOfChain
        ELSE IF Len(nodes[i].data) < MiniCutoff
        THEN SumTo(mini.table, IndexIn(mini.first, i) - 1)
        ELSE SumTo(counts, IndexIn(regular, i) - 1)
      entries == [i \in ids |->
        Entry(nodes, i, trees, StartOf(i),
              IF i = 1 THEN Len(mini.units) ELSE Len(nodes[i].data))]
      fatAt(k) == IF k < own.fat THEN others + k ELSE FreeSect
      difatSector(d) ==
        [j \in 1..DifatFat |-> fatAt(HeaderFat + (d - 1) * DifatFat + j - 1)]
        \o <<IF d < own.difat THEN others + own.fat + d ELSE EndOfChain>>
  IN  [header |-> [fatCount |-> own.fat, directory |-> streamSectors + rootSectors,
                   miniFat |-> Start(miniFatSectors, others - miniFatSectors),
                   miniFatCount |-> miniFatSectors,
                   difat |-> Start(own.difat, others + own.fat), difatCount |-> own.difat,
                   fat |-> [k \in 1..HeaderFat |-> fatAt(k - 1)]],
       sectors |-> Together([k \in DOMAIN regular |->
                               Cut(Filled(nodes[regular[k]].data, SectorSize), SectorSize)], 1)
                   \o Cut(Filled(mini.units, SectorSize), SectorSize)
                   \o Cut(Extend(entries, dirSectors * DirEntries, NoEntry), DirEntries)
                   \o Cut(Extend(miniFat, miniFatSectors * FatEntries, FreeSect), FatEntries)
                   \o Cut(fat, FatEntries)
                   \o [d \in 1..own.difat |-> difatSector(d)]]

Layout(nodes) ==
  Placed(nodes, [i \in 1..Len(nodes) |-> ChildTree(nodes, i)], MiniStream(nodes, 2), RegularIds(nodes, 2))

\* buildCfb.
BuildCfb(rootStreams, vbaStreams, storages) ==
  Then(Nodes(rootStreams, vbaStreams, storages), LAMBDA made : [ok |-> TRUE, file |-> Layout(made.nodes)])

(***************************************************************************)
(* Reading.                                                                *)
(***************************************************************************)
RECURSIVE ChainUnits(_, _, _, _)         \* the sectors of a chain, in order
ChainUnits(table, sectors, id, guard) ==
  IF id \in {EndOfChain, FreeSect} THEN [ok |-> TRUE, units |-> <<>>]
  ELSE IF id < 0 \/ id >= Len(table) \/ id >= Len(sectors) \/ guard = 0 THEN Fail
  ELSE Then(ChainUnits(table, sectors, table[id + 1], guard - 1), LAMBDA rest :
         [ok |-> TRUE, units |-> sectors[id + 1] \o rest.units])

\* readRegularChain and readMiniChain of a stream of a known size.
ReadChain(table, sectors, start, size) ==
  Then(ChainUnits(table, sectors, start, Len(table)), LAMBDA all :
    IF size > Len(all.units) THEN Fail ELSE [ok |-> TRUE, units |-> SubSeq(all.units, 1, size)])

RECURSIVE DifatFrom(_, _, _)
DifatFrom(sectors, id, count) ==
  IF count = 0 \/ id = EndOfChain THEN [ok |-> TRUE, ids |-> <<>>]
  ELSE IF id < 0 \/ id >= Len(sectors) THEN Fail
  ELSE LET s == sectors[id + 1]
       IN  Then(DifatFrom(sectors, s[DifatFat + 1], count - 1), LAMBDA rest :
             [ok |-> TRUE, ids |-> SubSeq(s, 1, DifatFat) \o rest.ids])

Present(ids) == SelectSeq(ids, LAMBDA id : id # FreeSect)

\* walkTree: the entries of a tree with their paths, in order; every entry
\* once, every path once whatever its case.
RECURSIVE Walk(_, _, _, _)
Walk(directory, id, prefix, seen) ==
  IF id = Nil THEN [ok |-> TRUE, found |-> <<>>]
  ELSE IF id > Len(directory) \/ id \in seen THEN Fail
  ELSE LET e == directory[id]
           path == Append(prefix, e.name)
       IN  IF e.type \notin {"stream", "storage", "root"} \/ e.name = "" THEN Fail
           ELSE Then(Walk(directory, e.left, prefix, seen \cup {id}), LAMBDA before :
                Then(IF e.type = "stream" THEN [ok |-> TRUE, found |-> <<>>]
                     ELSE Walk(directory, e.child, path, seen \cup {id}), LAMBDA below :
                Then(Walk(directory, e.right, prefix, seen \cup {id}), LAMBDA after :
                  [ok |-> TRUE,
                   found |-> before.found \o <<[path |-> path, id |-> id]>> \o below.found \o after.found])))

LowerPath(path) == [i \in DOMAIN path |-> Lower[path[i]]]

\* The constructor of CfbReader: parse.
FatSectorIds(header, difat) ==
  LET named == Present(header.fat \o difat)
  IN  SubSeq(named, 1, IF Len(named) < header.fatCount THEN Len(named) ELSE header.fatCount)

ReaderOf(file, fat, directory) ==
  LET h == file.header
  IN  IF directory = <<>> \/ directory[1].type # "root" THEN Fail
      ELSE Then(ReadChain(fat, file.sectors, directory[1].start, directory[1].size), LAMBDA mini :
           Then(IF h.miniFatCount = 0 THEN [ok |-> TRUE, units |-> <<>>]
                ELSE ReadChain(fat, file.sectors, h.miniFat, h.miniFatCount * FatEntries), LAMBDA miniFat :
           Then(Walk(directory, directory[1].child, <<>>, {}), LAMBDA tree :
             IF Cardinality({LowerPath(tree.found[k].path) : k \in DOMAIN tree.found} \cup {<<"root entry">>})
                  # Len(tree.found) + 1
             THEN Fail
             ELSE [ok |-> TRUE, fat |-> fat, sectors |-> file.sectors, directory |-> directory,
                   mini |-> Cut(Filled(mini.units, MiniSize), MiniSize), miniFat |-> miniFat.units,
                   found |-> tree.found])))

OpenCfb(file) ==
  Then(DifatFrom(file.sectors, file.header.difat, file.header.difatCount), LAMBDA difat :
  With(FatSectorIds(file.header, difat.ids), LAMBDA ids :
    IF Len(ids) # file.header.fatCount THEN Fail
    ELSE With(Together([k \in DOMAIN ids |-> file.sectors[ids[k] + 1]], 1), LAMBDA fat :
         Then(ChainUnits(fat, file.sectors, file.header.directory, Len(fat)), LAMBDA dir :
           ReaderOf(file, fat, dir.units)))))

\* stream(path).
ReadStream(reader, path) ==
  LET at == {k \in DOMAIN reader.found : LowerPath(reader.found[k].path) = LowerPath(path)}
  IN  IF at = {} THEN Fail
      ELSE With(reader.directory[reader.found[CHOOSE k \in at : TRUE].id], LAMBDA e :
             IF e.type # "stream" THEN Fail
             ELSE IF e.size = 0 THEN [ok |-> TRUE, units |-> <<>>]
             ELSE IF e.size < MiniCutoff THEN ReadChain(reader.miniFat, reader.mini, e.start, e.size)
             ELSE ReadChain(reader.fat, reader.sectors, e.start, e.size))

\* rootStorageNames and streamPathsUnder.
RootStorages(reader) ==
  {reader.found[k].path[1] : k \in {j \in DOMAIN reader.found :
     Len(reader.found[j].path) = 1 /\ reader.directory[reader.found[j].id].type = "storage"}}
StreamsUnder(reader, storage) ==
  {reader.found[k].path : k \in {j \in DOMAIN reader.found :
     /\ reader.found[j].path[1] = storage
     /\ reader.directory[reader.found[j].id].type = "stream"}}
=============================================================================

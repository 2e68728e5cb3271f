------------------------ MODULE StreamingWriterProofs ------------------------
(***************************************************************************)
(* SavedReadsBack for any number of sheets, rows, writers and failures, in *)
(* every mode of the string table and for every capacity of its cache.     *)
(***************************************************************************)
EXTENDS StreamingWriter, WellFoundedInduction, TLAPS

Values == Texts \cup {Date}
Cells  == [t : {"n", "inlineStr", "s"}, v : BOOLEAN \cup Texts \cup Nat]
Sheet  == [name : SheetNames \cup {"Sheet1"}, date1904 : BOOLEAN, spool : Seq(Seq(Cells)),
           open : Seq(Seq(Cells)), bad : BOOLEAN, finished : BOOLEAN, count : Nat,
           appended : Seq(Seq(Values)), torn : BOOLEAN]
Tables == [strings : Seq(Texts), cache : Seq([text : Texts, index : Nat]), used : Seq(Nat)]

\* What the cache remembers of a string is where the table has it.
Faithful(t) ==
  \A k \in DOMAIN t.cache : /\ t.cache[k].index < Len(t.strings)
                            /\ t.strings[t.cache[k].index + 1] = t.cache[k].text

\* The table only grows.
Extends(a, b) == Len(a) <= Len(b) /\ \A i \in 1 .. Len(a) : b[i] = a[i]

\* A cell that the reader turns into the value.
Shows(texts, cell, day, value) ==
  \/ cell.t = "inlineStr" /\ cell.v = value
  \/ cell.t = "n" /\ value = Date /\ cell.v = day
  \/ /\ cell.t = "s" /\ cell.v \in Nat /\ cell.v < Len(texts)
     /\ texts[cell.v + 1] = value

RowShows(texts, cells, day, row) ==
  Len(cells) = Len(row) /\ \A c \in 1 .. Len(row) : Shows(texts, cells[c], day, row[c])

\* The shared indexes of a row are in the table, whatever row they are in.
Known(texts, cells) ==
  \A c \in 1 .. Len(cells) : cells[c].t = "s" => cells[c].v \in Nat /\ cells[c].v < Len(texts)

\* A sheet reads back as what was appended, and ends unless an append threw.
SheetShows(texts, day, s) ==
  /\ s.date1904 = day /\ ~s.bad
  /\ Len(s.appended) <= Len(s.spool)
  /\ \A r \in 1 .. Len(s.appended) : RowShows(texts, s.spool[r], day, s.appended[r])
  /\ \A r \in 1 .. Len(s.spool) : Known(texts, s.spool[r])
  /\ Len(s.open) <= 1 /\ \A r \in 1 .. Len(s.open) : Known(texts, s.open[r])
  /\ ~s.torn => s.open = <<>> /\ Len(s.spool) = Len(s.appended)

NamesDiffer(all) == \A i, j \in DOMAIN all : all[i].name = all[j].name => i = j

IInv ==
  /\ [strings |-> strings, cache |-> cache, used |-> used] \in Tables
  /\ Faithful([strings |-> strings, cache |-> cache, used |-> used])
  /\ date1904 \in BOOLEAN
  /\ sheets \in Seq(Sheet)
  /\ \A i \in DOMAIN sheets : SheetShows(strings, date1904, sheets[i])
  /\ NamesDiffer(sheets)
  /\ phase \in {"saving", "destroying"} => package = Package(sheets)
  /\ SavedReadsBack

-----------------------------------------------------------------------------
(* Induction *)

LEMMA LeastNatural ==
  ASSUME NEW T \in SUBSET Nat, T # {}
  PROVE  \E n \in T : \A m \in T : n <= m
<1> DEFINE R == OpToRel(<, Nat)
<1>1. IsWellFoundedOn(R, Nat)
  BY NatLessThanWellFounded
<1>2. \A x, y \in Nat : x < y => <<x, y>> \in R
  BY DEF OpToRel
<1> HIDE DEF R
<1>3. PICK x \in T : \A y \in T : ~ (<<y, x>> \in R)
  BY <1>1, WFMin
<1>4. ASSUME NEW m \in T PROVE x <= m
  <2>1. m \in Nat /\ x \in Nat
    OBVIOUS
  <2>2. ~ (m < x)
    BY ONLY <1>2, <1>3, <2>1, m \in T
  <2> QED BY ONLY <2>1, <2>2
<1> QED BY <1>4

LEMMA NatInd ==
  ASSUME NEW S, 0 \in S, \A n \in Nat : n \in S => n + 1 \in S
  PROVE  Nat \subseteq S
<1> DEFINE T == Nat \ S
<1>1. SUFFICES ASSUME T # {} PROVE FALSE
  OBVIOUS
<1>2. PICK n \in T : \A m \in T : n <= m
  BY <1>1, LeastNatural
<1>3. n \in Nat /\ n # 0
  BY <1>2
<1>4. n - 1 \in Nat /\ n - 1 \notin T
  BY <1>2, <1>3
<1>5. n - 1 \in S
  BY <1>4
<1>6. n - 1 + 1 \in S
  BY <1>4, <1>5
<1> QED BY <1>3, <1>6, <1>2

-----------------------------------------------------------------------------
(* Rows *)

\* What a row is before its first cell.
Empty == [table |-> [strings |-> strings, cache |-> cache, used |-> used], cells |-> <<>>]

LEMMA RowXmlExists ==
  ASSUME NEW sheet, NEW row \in Seq(Texts \cup {Date})
  PROVE  \E xml : xml = [n \in 0 .. Len(row) |-> IF n = 0 THEN Empty ELSE AddCell(sheet, xml[n - 1], row[n])]
<1> DEFINE Xml(N, g) == g = [n \in 0 .. N |-> IF n = 0 THEN Empty ELSE AddCell(sheet, g[n - 1], row[n])]
           S == {N \in Nat : \E g : Xml(N, g)}
<1> HIDE DEF S
<1>1. 0 \in S
  <2> DEFINE z == [n \in 0 .. 0 |-> Empty]
  <2>1. Xml(0, z)
    OBVIOUS
  <2> QED BY <2>1 DEF S
<1>2. ASSUME NEW N \in Nat, N \in S PROVE N + 1 \in S
  <2>1. PICK g : Xml(N, g)
    BY <1>2 DEF S
  <2> DEFINE h == [n \in 0 .. N + 1 |-> IF n = N + 1 THEN AddCell(sheet, g[N], row[n]) ELSE g[n]]
  <2>2. Xml(N + 1, h)
    <3>1. ASSUME NEW n \in 0 .. N + 1
          PROVE  h[n] = IF n = 0 THEN Empty ELSE AddCell(sheet, h[n - 1], row[n])
      <4>1. CASE n = N + 1
        <5>1. n # 0 /\ n - 1 = N /\ n - 1 \in 0 .. N + 1 /\ n - 1 # N + 1
          BY <4>1
        <5> QED BY <4>1, <5>1
      <4>2. CASE n # N + 1
        <5>1. n \in 0 .. N /\ n - 1 # N + 1 /\ (n # 0 => n - 1 \in 0 .. N + 1)
          BY <4>2
        <5>2. g[n] = IF n = 0 THEN Empty ELSE AddCell(sheet, g[n - 1], row[n])
          BY <2>1, <5>1
        <5> QED BY <4>2, <5>1, <5>2
      <4> QED BY <4>1, <4>2
    <3> QED BY <3>1
  <2> HIDE DEF h, Xml
  <2>3. \E f : Xml(N + 1, f)
    BY <2>2
  <2> QED BY <2>3 DEF S
<1>3. Nat \subseteq S
  BY <1>1, <1>2, NatInd
<1>4. Len(row) \in S
  BY <1>3
<1> QED BY <1>4 DEF S

LEMMA RowXmlIs ==
  ASSUME NEW sheet, NEW row \in Seq(Texts \cup {Date})
  PROVE  \E xml : /\ xml = [n \in 0 .. Len(row) |-> IF n = 0 THEN Empty ELSE AddCell(sheet, xml[n - 1], row[n])]
                  /\ RowXml(sheet, row) = xml[Len(row)]
BY RowXmlExists, ZenonT(60) DEF RowXml, Empty

LEMMA ElementOf == ASSUME NEW S, NEW s \in Seq(S), NEW k \in DOMAIN s PROVE s[k] \in S
OBVIOUS

LEMMA ConcatenationAt ==
  ASSUME NEW S, NEW s \in Seq(S), NEW t \in Seq(S), NEW i \in 1 .. Len(s) + Len(t)
  PROVE  (s \o t)[i] = IF i <= Len(s) THEN s[i] ELSE t[i - Len(s)]
OBVIOUS

LEMMA RemoveAtIs ==
  ASSUME NEW S, NEW s \in Seq(S), NEW k \in DOMAIN s
  PROVE  /\ RemoveAt(s, k) \in Seq(S)
         /\ Len(RemoveAt(s, k)) = Len(s) - 1
         /\ \A i \in 1 .. Len(s) - 1 : RemoveAt(s, k)[i] = IF i < k THEN s[i] ELSE s[i + 1]
<1>1. k \in 1 .. Len(s) /\ Len(s) \in Nat
  OBVIOUS
<1> DEFINE front == SubSeq(s, 1, k - 1)
           back == SubSeq(s, k + 1, Len(s))
<1>2. /\ front \in Seq(S) /\ Len(front) = k - 1
      /\ \A i \in 1 .. k - 1 : front[i] = s[i]
  BY <1>1
<1>3. /\ back \in Seq(S) /\ Len(back) = Len(s) - k
      /\ \A i \in 1 .. Len(s) - k : back[i] = s[k + i]
  BY <1>1
<1>4. RemoveAt(s, k) = front \o back
  BY DEF RemoveAt
<1> HIDE DEF front, back
<1>5. front \o back \in Seq(S) /\ Len(front \o back) = Len(s) - 1
  BY <1>1, <1>2, <1>3
<1>6. ASSUME NEW i \in 1 .. Len(s) - 1
      PROVE  (front \o back)[i] = IF i < k THEN s[i] ELSE s[i + 1]
  <2>1. CASE i < k
    BY <1>1, <1>2, <1>3, <2>1
  <2>2. CASE ~(i < k)
    <3>0. /\ i \in Nat /\ ~(i <= Len(front)) /\ i <= Len(front) + Len(back)
          /\ i - Len(front) = i - (k - 1) /\ i - (k - 1) \in 1 .. Len(s) - k
      BY <1>1, <1>2, <1>3, <2>2
    <3>a. i \in 1 .. Len(front) + Len(back)
      BY <3>0
    <3>b. (front \o back)[i] = back[i - Len(front)]
      BY ONLY <1>2, <1>3, <3>0, <3>a, ConcatenationAt
    <3>1. (front \o back)[i] = back[i - (k - 1)] /\ i - (k - 1) \in 1 .. Len(s) - k
      BY <3>0, <3>b
    <3>c. k + (i - (k - 1)) = i + 1
      BY <1>1
    <3>d. back[i - (k - 1)] = s[k + (i - (k - 1))]
      BY ONLY <1>3, <3>1
    <3>2. back[i - (k - 1)] = s[i + 1]
      BY ONLY <3>c, <3>d
    <3> QED BY <2>2, <3>1, <3>2
  <2> QED BY <2>1, <2>2
<1> QED BY <1>4, <1>5, <1>6

LEMMA ExtendsTransitive ==
  ASSUME NEW a \in Seq(Texts), NEW b \in Seq(Texts), NEW c \in Seq(Texts),
         Extends(a, b), Extends(b, c)
  PROVE  Extends(a, c)
BY DEF Extends

\* An index keeps denoting its string when the table grows.
LEMMA ShowsStill ==
  ASSUME NEW a \in Seq(Texts), NEW b \in Seq(Texts), Extends(a, b),
         NEW cell, NEW day, NEW value, Shows(a, cell, day, value)
  PROVE  Shows(b, cell, day, value)
BY DEF Extends, Shows

\* SharedStringTable::index, in any mode: the index it returns denotes the string, and the
\* cache remembers no index that does not.
LEMMA IndexDenotes ==
  ASSUME NEW t \in Tables, Faithful(t), NEW text \in Texts
  PROVE  LET after == Index(t, text) IN
         /\ after \in Tables /\ Faithful(after)
         /\ Extends(t.strings, after.strings)
         /\ Last(after.used) \in Nat /\ Last(after.used) < Len(after.strings)
         /\ after.strings[Last(after.used) + 1] = text
<1> DEFINE hits == {k \in DOMAIN t.cache : t.cache[k].text = text}
           hit == CHOOSE k \in hits : TRUE
           fresh == [text |-> text, index |-> Len(t.strings)]
           grown == Append(t.cache, fresh)
           after == Index(t, text)
           Entries == [text : Texts, index : Nat]
<1>t. /\ t.strings \in Seq(Texts) /\ t.cache \in Seq(Entries) /\ t.used \in Seq(Nat)
      /\ t = [strings |-> t.strings, cache |-> t.cache, used |-> t.used]
  BY DEF Tables
<1>e. \A k \in DOMAIN t.cache : /\ t.cache[k] \in Entries /\ t.cache[k].index \in Nat
                                /\ t.cache[k].text \in Texts
  <2>1. \A k \in DOMAIN t.cache : t.cache[k] \in Entries
    <3> HIDE DEF Entries
    <3> QED BY <1>t, ElementOf
  <2>2. \A e \in Entries : e.index \in Nat /\ e.text \in Texts
    OBVIOUS
  <2> QED BY <1>t, <2>1, <2>2
<1>1. CASE hits # {}
  <2> DEFINE moved == IF mode = "Hash" THEN t.cache
                      ELSE Append(RemoveAt(t.cache, hit), t.cache[hit])
             index == t.cache[hit].index
  <2>1. hit \in hits
    BY <1>1
  <2>2. hit \in DOMAIN t.cache /\ t.cache[hit].text = text
    BY <2>1
  <2>3. index \in Nat /\ index < Len(t.strings) /\ t.strings[index + 1] = text
    BY <1>e, <2>2 DEF Faithful
  <2>4. after = [strings |-> t.strings, cache |-> moved, used |-> Append(t.used, index)]
    BY <1>1, <1>t DEF Index, Tables
  <2> HIDE DEF hits, hit
  <2>5. moved \in Seq(Entries) /\ \A k \in DOMAIN moved : \E i \in DOMAIN t.cache : moved[k] = t.cache[i]
    <3>1. CASE mode = "Hash"
      BY <1>t, <3>1
    <3>2. CASE mode # "Hash"
      <4> DEFINE less == RemoveAt(t.cache, hit)
                 last == t.cache[hit]
      <4>1. /\ less \in Seq(Entries) /\ Len(less) = Len(t.cache) - 1
            /\ \A i \in 1 .. Len(t.cache) - 1 : less[i] = IF i < hit THEN t.cache[i] ELSE t.cache[i + 1]
        BY <1>t, <2>2, RemoveAtIs
      <4>2. last \in Entries /\ hit \in 1 .. Len(t.cache) /\ Len(t.cache) \in Nat
        BY <1>t, <1>e, <2>2
      <4>3. moved = Append(less, last)
        BY <3>2
      <4>4. \A i \in 1 .. Len(t.cache) - 1 : \E j \in 1 .. Len(t.cache) : less[i] = t.cache[j]
        <5> TAKE i \in 1 .. Len(t.cache) - 1
        <5>1. CASE i < hit
          <6>1. i \in 1 .. Len(t.cache) /\ less[i] = t.cache[i]
            BY <4>1, <4>2, <5>1
          <6> QED BY <6>1
        <5>2. CASE ~(i < hit)
          <6>1. i + 1 \in 1 .. Len(t.cache)
            BY <4>2
          <6>2. less[i] = t.cache[i + 1]
            BY <4>1, <5>2
          <6> QED BY <6>1, <6>2
        <5> QED BY <5>1, <5>2
      <4>5. DOMAIN t.cache = 1 .. Len(t.cache)
        BY <1>t
      <4> HIDE DEF less, moved
      <4>6. Append(less, last) \in Seq(Entries) /\ Len(Append(less, last)) = Len(t.cache)
        BY <4>1, <4>2
      <4>7. ASSUME NEW k \in 1 .. Len(t.cache) PROVE \E i \in 1 .. Len(t.cache) : Append(less, last)[k] = t.cache[i]
        <5>1. CASE k = Len(t.cache)
          <6>1. Append(less, last)[k] = last
            BY <4>1, <4>2, <5>1
          <6> QED BY <6>1, <4>2
        <5>2. CASE k # Len(t.cache)
          <6>1. k \in 1 .. Len(t.cache) - 1 /\ Append(less, last)[k] = less[k]
            BY <4>1, <4>2, <5>2
          <6> QED BY <6>1, <4>4
        <5> QED BY <5>1, <5>2
      <4>8. DOMAIN moved = 1 .. Len(t.cache)
        BY <4>3, <4>6
      <4> QED BY <4>3, <4>5, <4>6, <4>7, <4>8
    <3> QED BY <3>1, <3>2
  <2> HIDE DEF moved, index
  <2>6. after.strings = t.strings /\ after.cache = moved /\ after.used = Append(t.used, index)
    BY <2>4
  <2>7. after \in Tables
    BY <1>t, <2>3, <2>4, <2>5 DEF Tables
  <2>8. Faithful(after)
    <3> SUFFICES ASSUME NEW k \in DOMAIN moved
                 PROVE  moved[k].index < Len(t.strings) /\ t.strings[moved[k].index + 1] = moved[k].text
      BY <2>6 DEF Faithful
    <3>1. PICK i \in DOMAIN t.cache : moved[k] = t.cache[i]
      BY <2>5
    <3> QED BY <3>1 DEF Faithful
  <2>9. Last(after.used) = index
    BY <1>t, <2>3, <2>6 DEF Last
  <2> QED BY <1>t, <2>3, <2>6, <2>7, <2>8, <2>9 DEF Extends
<1>2. CASE hits = {}
  <2> DEFINE kept == IF mode = "BoundedLru" /\ Len(grown) > capacity THEN Tail(grown) ELSE grown
             longer == Append(t.strings, text)
  <2>1. after = [strings |-> longer, cache |-> kept, used |-> Append(t.used, Len(t.strings))]
    BY <1>2 DEF Index
  <2> HIDE DEF hits
  <2>2. /\ longer \in Seq(Texts) /\ Len(longer) = Len(t.strings) + 1 /\ Len(t.strings) \in Nat
        /\ longer[Len(t.strings) + 1] = text
        /\ \A i \in 1 .. Len(t.strings) : longer[i] = t.strings[i]
    BY <1>t
  <2>3. /\ grown \in Seq(Entries) /\ Len(grown) = Len(t.cache) + 1 /\ grown[Len(t.cache) + 1] = fresh
        /\ \A i \in 1 .. Len(t.cache) : grown[i] = t.cache[i]
    BY <1>t, <2>2
  <2> HIDE DEF longer, grown
  <2>4. \A k \in 1 .. Len(grown) : grown[k].index < Len(longer) /\ longer[grown[k].index + 1] = grown[k].text
    <3> TAKE k \in 1 .. Len(grown)
    <3>1. CASE k = Len(t.cache) + 1
      BY <2>2, <2>3, <3>1, SMTT(30)
    <3>2. CASE k # Len(t.cache) + 1
      <4>1. k \in 1 .. Len(t.cache) /\ k \in DOMAIN t.cache
        BY <1>t, <2>3, <3>2
      <4>2. grown[k] = t.cache[k] /\ t.cache[k].index \in Nat
        BY <1>e, <2>3, <4>1
      <4>3. t.cache[k].index < Len(t.strings) /\ t.strings[t.cache[k].index + 1] = t.cache[k].text
        BY <4>1 DEF Faithful
      <4> DEFINE q == t.cache[k].index
      <4>4. q \in Nat /\ q < Len(t.strings) /\ grown[k].index = q
        BY <4>2, <4>3
      <4> HIDE DEF q
      <4>5. q + 1 \in 1 .. Len(t.strings) /\ q < Len(longer)
        BY <2>2, <4>4
      <4>6. longer[q + 1] = t.strings[q + 1]
        BY <2>2, <4>5
      <4>7. t.strings[q + 1] = grown[k].text
        BY <4>2, <4>3 DEF q
      <4> QED BY <4>4, <4>5, <4>6, <4>7
    <3> QED BY <3>1, <3>2
  <2>5. kept \in Seq(Entries) /\ \A k \in DOMAIN kept : \E i \in 1 .. Len(grown) : kept[k] = grown[i]
    <3>1. /\ Len(grown) >= 1 /\ grown # <<>>
          /\ Tail(grown) \in Seq(Entries) /\ Len(Tail(grown)) = Len(grown) - 1
          /\ \A k \in 1 .. Len(grown) - 1 : Tail(grown)[k] = grown[k + 1]
      BY <1>t, <2>3
    <3>2. kept = Tail(grown) \/ kept = grown
      OBVIOUS
    <3> HIDE DEF kept
    <3>3. CASE kept = grown
      BY <2>3, <3>3
    <3>4. CASE kept = Tail(grown)
      <4>1. DOMAIN kept = 1 .. Len(grown) - 1 /\ Len(grown) \in Nat
        BY <3>1, <3>4, <2>3
      <4>2. ASSUME NEW k \in 1 .. Len(grown) - 1 PROVE kept[k] = grown[k + 1] /\ k + 1 \in 1 .. Len(grown)
        BY <3>1, <3>4, <4>1
      <4> QED BY <3>1, <3>4, <4>1, <4>2
    <3> QED BY <3>2, <3>3, <3>4
  <2> HIDE DEF kept
  <2>6. after.strings = longer /\ after.cache = kept /\ after.used = Append(t.used, Len(t.strings))
    BY <2>1
  <2>7. after \in Tables
    BY <1>t, <2>1, <2>2, <2>5 DEF Tables
  <2>8. Faithful(after)
    <3> SUFFICES ASSUME NEW k \in DOMAIN kept
                 PROVE  kept[k].index < Len(longer) /\ longer[kept[k].index + 1] = kept[k].text
      BY <2>6 DEF Faithful
    <3>1. PICK i \in 1 .. Len(grown) : kept[k] = grown[i]
      BY <2>5
    <3> QED BY <3>1, <2>4
  <2>9. Last(after.used) = Len(t.strings)
    BY <1>t, <2>2, <2>6 DEF Last
  <2> QED BY <2>2, <2>6, <2>7, <2>8, <2>9 DEF Extends
<1> QED BY <1>1, <1>2

\* The table and the cells of a row so far.
RowSoFar(start, state, day, row, n) ==
  /\ state.table \in Tables /\ Faithful(state.table)
  /\ Extends(start, state.table.strings)
  /\ state.cells \in Seq(Cells) /\ Len(state.cells) = n
  /\ \A c \in 1 .. n : Shows(state.table.strings, state.cells[c], day, row[c])

LEMMA AppendedCell ==
  ASSUME NEW cells \in Seq(Cells), NEW cell \in Cells
  PROVE  /\ Append(cells, cell) \in Seq(Cells) /\ Len(Append(cells, cell)) = Len(cells) + 1
         /\ Append(cells, cell)[Len(cells) + 1] = cell
         /\ \A c \in 1 .. Len(cells) : Append(cells, cell)[c] = cells[c]
OBVIOUS

\* One more cell, on a table that has grown.
LEMMA MoreOfRow ==
  ASSUME NEW start \in Seq(Texts), NEW state, NEW day, NEW row, NEW n \in Nat,
         RowSoFar(start, state, day, row, n),
         NEW after, NEW cell \in Cells,
         after.cells = Append(state.cells, cell),
         after.table \in Tables, Faithful(after.table),
         Extends(state.table.strings, after.table.strings),
         Shows(after.table.strings, cell, day, row[n + 1])
  PROVE  RowSoFar(start, after, day, row, n + 1)
<1>1. /\ state.table \in Tables /\ Extends(start, state.table.strings)
      /\ state.cells \in Seq(Cells) /\ Len(state.cells) = n
      /\ \A c \in 1 .. n : Shows(state.table.strings, state.cells[c], day, row[c])
  BY DEF RowSoFar
<1>2. state.table.strings \in Seq(Texts) /\ after.table.strings \in Seq(Texts)
  BY <1>1 DEF Tables
<1>3. /\ after.cells \in Seq(Cells) /\ Len(after.cells) = n + 1 /\ after.cells[n + 1] = cell
      /\ \A c \in 1 .. n : after.cells[c] = state.cells[c]
  BY <1>1, AppendedCell
<1>4. ASSUME NEW c \in 1 .. n + 1 PROVE Shows(after.table.strings, after.cells[c], day, row[c])
  <2>1. CASE c = n + 1
    BY <1>3, <2>1
  <2>2. CASE c # n + 1
    <3>1. c \in 1 .. n
      BY <2>2
    <3>2. Shows(state.table.strings, state.cells[c], day, row[c]) /\ after.cells[c] = state.cells[c]
      BY <1>1, <1>3, <3>1
    <3> QED BY <1>2, <3>2, ShowsStill
  <2> QED BY <2>1, <2>2
<1>5. Extends(start, after.table.strings)
  BY <1>1, <1>2, ExtendsTransitive
<1> QED BY <1>3, <1>4, <1>5 DEF RowSoFar

LEMMA ExtendsItself == ASSUME NEW a \in Seq(Texts) PROVE Extends(a, a)
BY DEF Extends

\* cellXml, for a text and for a date.
LEMMA AddCellShows ==
  ASSUME NEW start \in Seq(Texts), NEW state, NEW sheet, NEW row \in Seq(Values), NEW n \in Nat,
         n + 1 \in 1 .. Len(row), sheet.date1904 \in BOOLEAN,
         RowSoFar(start, state, sheet.date1904, row, n),
         state = [table |-> state.table, cells |-> state.cells]
  PROVE  LET after == AddCell(sheet, state, row[n + 1]) IN
         /\ RowSoFar(start, after, sheet.date1904, row, n + 1)
         /\ after = [table |-> after.table, cells |-> after.cells]
<1> DEFINE value == row[n + 1]
           after == AddCell(sheet, state, value)
<1>1. value \in Values
  BY ElementOf
<1>2. state.table \in Tables /\ Faithful(state.table) /\ state.table.strings \in Seq(Texts)
  BY DEF RowSoFar, Tables
<1>3. Extends(state.table.strings, state.table.strings)
  BY <1>2, ExtendsItself
<1> HIDE DEF value
<1>v. value = row[n + 1]
  BY DEF value
<1>4. CASE value = Date
  <2> DEFINE cell == [t |-> "n", v |-> sheet.date1904]
  <2>1. after = [table |-> state.table, cells |-> Append(state.cells, cell)]
    BY <1>4 DEF AddCell
  <2>2. cell \in Cells /\ cell.t = "n" /\ cell.v = sheet.date1904
    BY DEF Cells
  <2> HIDE DEF cell, after
  <2>3. after.table = state.table /\ after.cells = Append(state.cells, cell)
    BY <2>1
  <2>4. Shows(after.table.strings, cell, sheet.date1904, row[n + 1])
    BY <1>4, <1>v, <2>2 DEF Shows
  <2>5. RowSoFar(start, after, sheet.date1904, row, n + 1)
    BY <1>2, <1>3, <2>2, <2>3, <2>4, MoreOfRow
  <2>6. after = [table |-> after.table, cells |-> after.cells]
    BY <2>1, <2>3
  <2> QED BY <1>v, <2>5, <2>6 DEF after
<1>5. CASE value # Date /\ mode = "Disabled"
  <2> DEFINE cell == [t |-> "inlineStr", v |-> value]
  <2>1. after = [table |-> state.table, cells |-> Append(state.cells, cell)]
    BY <1>5 DEF AddCell
  <2>2. cell \in Cells /\ cell.t = "inlineStr" /\ cell.v = value
    BY <1>1, <1>5 DEF Cells, Values
  <2> HIDE DEF cell, after
  <2>3. after.table = state.table /\ after.cells = Append(state.cells, cell)
    BY <2>1
  <2>4. Shows(after.table.strings, cell, sheet.date1904, row[n + 1])
    BY <1>v, <2>2 DEF Shows
  <2>5. RowSoFar(start, after, sheet.date1904, row, n + 1)
    BY <1>2, <1>3, <2>2, <2>3, <2>4, MoreOfRow
  <2>6. after = [table |-> after.table, cells |-> after.cells]
    BY <2>1, <2>3
  <2> QED BY <1>v, <2>5, <2>6 DEF after
<1>6. CASE value # Date /\ mode # "Disabled"
  <2> DEFINE next == Index(state.table, value)
             cell == [t |-> "s", v |-> Last(next.used)]
  <2>0. value \in Texts
    BY <1>1, <1>6 DEF Values
  <2>1. after = [table |-> next, cells |-> Append(state.cells, cell)]
    BY <1>6 DEF AddCell
  <2>2. /\ next \in Tables /\ Faithful(next)
        /\ Extends(state.table.strings, next.strings)
        /\ Last(next.used) \in Nat /\ Last(next.used) < Len(next.strings)
        /\ next.strings[Last(next.used) + 1] = value
    BY <1>2, <2>0, IndexDenotes
  <2> HIDE DEF next
  <2>3. cell \in Cells /\ cell.t = "s" /\ cell.v = Last(next.used)
    BY <2>2 DEF Cells
  <2> HIDE DEF cell, after
  <2>4. after.table = next /\ after.cells = Append(state.cells, cell)
    BY <2>1
  <2>5. Shows(after.table.strings, cell, sheet.date1904, row[n + 1])
    BY <1>v, <2>2, <2>3, <2>4 DEF Shows
  <2>6. RowSoFar(start, after, sheet.date1904, row, n + 1)
    BY <1>2, <2>2, <2>3, <2>4, <2>5, MoreOfRow
  <2>7. after = [table |-> after.table, cells |-> after.cells]
    BY <2>1, <2>4
  <2> QED BY <1>v, <2>6, <2>7 DEF after
<1> QED BY <1>4, <1>5, <1>6

\* append: whatever the strings of a row, its cells read back as the row.
LEMMA RowXmlShows ==
  ASSUME NEW sheet, NEW row \in Seq(Values), sheet.date1904 \in BOOLEAN,
         Empty.table \in Tables, Faithful(Empty.table)
  PROVE  LET xml == RowXml(sheet, row) IN
         /\ xml.table \in Tables /\ Faithful(xml.table)
         /\ Extends(strings, xml.table.strings)
         /\ xml.cells \in Seq(Cells)
         /\ RowShows(xml.table.strings, xml.cells, sheet.date1904, row)
<1>1. PICK xml : /\ xml = [n \in 0 .. Len(row) |->
                             IF n = 0 THEN Empty ELSE AddCell(sheet, xml[n - 1], row[n])]
                 /\ RowXml(sheet, row) = xml[Len(row)]
  BY RowXmlIs DEF Values
<1> DEFINE Good(n) == /\ RowSoFar(strings, xml[n], sheet.date1904, row, n)
                      /\ xml[n] = [table |-> xml[n].table, cells |-> xml[n].cells]
           S == {n \in Nat : n <= Len(row) => Good(n)}
<1>2. Len(row) \in Nat /\ strings = Empty.table.strings /\ strings \in Seq(Texts)
  BY DEF Empty, Tables
<1>3. Good(0)
  <2>1. xml[0] = Empty
    BY <1>1, <1>2
  <2>2. Empty = [table |-> Empty.table, cells |-> Empty.cells] /\ Empty.cells = <<>>
    BY DEF Empty
  <2>3. Extends(strings, Empty.table.strings)
    BY <1>2, ExtendsItself
  <2> QED BY <2>1, <2>2, <2>3 DEF RowSoFar
<1>4. ASSUME NEW n \in Nat, n + 1 <= Len(row), Good(n) PROVE Good(n + 1)
  <2>1. xml[n + 1] = AddCell(sheet, xml[n], row[n + 1])
    <3>1. n + 1 \in 0 .. Len(row) /\ n + 1 # 0 /\ n + 1 - 1 = n
      BY <1>2, <1>4
    <3> QED BY <1>1, <3>1
  <2>2. n + 1 \in 1 .. Len(row)
    BY <1>2, <1>4
  <2> QED BY <1>2, <1>4, <2>1, <2>2, AddCellShows
<1> HIDE DEF Good
<1>5. 0 \in S
  BY <1>3
<1>6. ASSUME NEW n \in Nat, n \in S PROVE n + 1 \in S
  BY <1>2, <1>4, <1>6
<1> HIDE DEF S
<1>7. Nat \subseteq S
  BY <1>5, <1>6, NatInd
<1>8. Good(Len(row))
  BY <1>2, <1>7 DEF S
<1> QED BY <1>1, <1>8 DEF Good, RowSoFar, RowShows


-----------------------------------------------------------------------------
(* The reader *)

LEMMA ReadCellShows ==
  ASSUME NEW p, NEW cell, NEW value, Shows(p.strings, cell, p.date1904, value)
  PROVE  ReadCell(p, cell) = value
<1>1. CASE cell.t = "inlineStr" /\ cell.v = value
  BY <1>1 DEF ReadCell
<1>2. CASE cell.t = "n" /\ value = Date /\ cell.v = p.date1904
  BY <1>2 DEF ReadCell
<1>3. CASE cell.t = "s" /\ p.strings[cell.v + 1] = value
  BY <1>3 DEF ReadCell
<1> QED BY <1>1, <1>2, <1>3 DEF Shows

LEMMA ReadRowShows ==
  ASSUME NEW p, NEW cells \in Seq(Cells), NEW row \in Seq(Values),
         RowShows(p.strings, cells, p.date1904, row)
  PROVE  [c \in DOMAIN cells |-> ReadCell(p, cells[c])] = row
<1>1. DOMAIN cells = 1 .. Len(row) /\ row = [c \in 1 .. Len(row) |-> row[c]]
  BY DEF RowShows
<1>2. ASSUME NEW c \in 1 .. Len(row) PROVE ReadCell(p, cells[c]) = row[c]
  BY ReadCellShows DEF RowShows
<1> QED BY <1>1, <1>2

LEMMA ReadSheetShows ==
  ASSUME NEW p, NEW s \in Sheet, SheetShows(p.strings, p.date1904, s)
  PROVE  \A r \in DOMAIN s.appended :
           /\ r \in DOMAIN s.spool
           /\ [c \in DOMAIN s.spool[r] |-> ReadCell(p, s.spool[r][c])] = s.appended[r]
<1>1. s.spool \in Seq(Seq(Cells)) /\ s.appended \in Seq(Seq(Values))
  BY DEF Sheet
<1>2. Len(s.appended) <= Len(s.spool)
  BY DEF SheetShows
<1> TAKE r \in DOMAIN s.appended
<1>3. r \in 1 .. Len(s.appended) /\ r \in DOMAIN s.spool
  BY <1>1, <1>2
<1>4. s.spool[r] \in Seq(Cells) /\ s.appended[r] \in Seq(Values)
  BY <1>1, <1>3, ElementOf
<1>5. RowShows(p.strings, s.spool[r], p.date1904, s.appended[r])
  BY <1>3 DEF SheetShows
<1> QED BY <1>3, <1>4, <1>5, ReadRowShows

\* A shared index of a row is in range.
LEMMA KnownIndexes ==
  ASSUME NEW p, NEW s \in Sheet, SheetShows(p.strings, p.date1904, s)
  PROVE  \A r \in Range(s.spool) : \A c \in Range(r) : c.t = "s" => c.v < Len(p.strings)
<1> SUFFICES ASSUME NEW k \in DOMAIN s.spool, NEW c \in DOMAIN s.spool[k],
                    s.spool[k][c].t = "s"
             PROVE  s.spool[k][c].v < Len(p.strings)
  BY DEF Range
<1>1. s.spool \in Seq(Seq(Cells))
  BY DEF Sheet
<1>2. k \in 1 .. Len(s.spool) /\ s.spool[k] \in Seq(Cells)
  BY <1>1, ElementOf
<1>3. Known(p.strings, s.spool[k])
  BY <1>2 DEF SheetShows
<1>4. c \in 1 .. Len(s.spool[k])
  BY <1>2
<1> QED BY <1>3, <1>4 DEF Known

\* What close() is about to save reads back as what was appended.
LEMMA PackageReadsBack ==
  ASSUME NEW all \in Seq(Sheet), NamesDiffer(all),
         \A i \in DOMAIN all : SheetShows(strings, date1904, all[i])
  PROVE  LET read == ReadBack(Package(all)) IN
         DOMAIN read = DOMAIN all /\ \A i \in DOMAIN all : ReadsAs(read[i], all[i])
<1> DEFINE p == Package(all)
<1>1. /\ p.sheets = [i \in DOMAIN all |->
                       [name |-> all[i].name, rows |-> all[i].spool, open |-> all[i].open]]
      /\ p.strings = strings /\ p.date1904 = date1904
  BY DEF Package
<1> HIDE DEF p
<1>2. /\ DOMAIN p.sheets = DOMAIN all
      /\ \A i \in DOMAIN all : /\ p.sheets[i].name = all[i].name /\ p.sheets[i].rows = all[i].spool
                               /\ p.sheets[i].open = all[i].open
  BY <1>1
<1>3. \A i, j \in DOMAIN p.sheets : p.sheets[i].name = p.sheets[j].name => i = j
  BY <1>2 DEF NamesDiffer
<1>4. \A i \in DOMAIN all : all[i] \in Sheet /\ SheetShows(p.strings, p.date1904, all[i])
  <2> HIDE DEF Sheet
  <2> QED BY <1>1, ElementOf
<1>5. \A i \in DOMAIN p.sheets : \A r \in Range(p.sheets[i].rows) :
        \A c \in Range(r) : c.t = "s" => c.v < Len(p.strings)
  BY <1>2, <1>4, KnownIndexes
<1>6. ReadBack(p) = [i \in DOMAIN p.sheets |->
                       [name |-> p.sheets[i].name, ended |-> p.sheets[i].open = <<>>,
                        rows |-> [r \in DOMAIN p.sheets[i].rows |->
                                    [c \in DOMAIN p.sheets[i].rows[r] |->
                                       ReadCell(p, p.sheets[i].rows[r][c])]]]]
  BY <1>3, <1>5 DEF ReadBack
<1>7. ASSUME NEW i \in DOMAIN all PROVE ReadsAs(ReadBack(p)[i], all[i])
  <2> DEFINE s == all[i]
             read == ReadBack(p)[i]
  <2>1. /\ read.name = s.name /\ read.ended = (s.open = <<>>)
        /\ read.rows = [r \in DOMAIN s.spool |->
                          [c \in DOMAIN s.spool[r] |-> ReadCell(p, s.spool[r][c])]]
    BY <1>2, <1>6
  <2>2. s \in Sheet /\ SheetShows(p.strings, p.date1904, s)
    BY <1>4
  <2> HIDE DEF s, read
  <2>3. \A r \in DOMAIN s.appended : r \in DOMAIN read.rows /\ read.rows[r] = s.appended[r]
    <3> TAKE r \in DOMAIN s.appended
    <3>1. /\ r \in DOMAIN s.spool
          /\ [c \in DOMAIN s.spool[r] |-> ReadCell(p, s.spool[r][c])] = s.appended[r]
      BY <2>2, ReadSheetShows
    <3> DEFINE shown(k) == [c \in DOMAIN s.spool[k] |-> ReadCell(p, s.spool[k][c])]
    <3>2. read.rows = [k \in DOMAIN s.spool |-> shown(k)] /\ shown(r) = s.appended[r]
      BY <2>1, <3>1
    <3> HIDE DEF shown
    <3> QED BY <3>1, <3>2
  <2>4. ~s.torn => read.ended /\ Len(read.rows) = Len(s.appended)
    <3>1. ~s.torn => s.open = <<>> /\ Len(s.spool) = Len(s.appended)
      BY <2>2 DEF SheetShows
    <3>2. Len(read.rows) = Len(s.spool)
      <4>1. s.spool \in Seq(Seq(Cells))
        BY <2>2 DEF Sheet
      <4>2. DOMAIN read.rows = 1 .. Len(s.spool) /\ Len(s.spool) \in Nat
        BY <2>1, <4>1
      <4> QED BY <4>2
    <3> QED BY <2>1, <3>1, <3>2
  <2> QED BY <2>1, <2>3, <2>4 DEF ReadsAs, s, read
<1>8. DOMAIN ReadBack(p) = DOMAIN all
  BY <1>2, <1>6
<1> QED BY <1>7, <1>8 DEF p

-----------------------------------------------------------------------------
(* The invariant *)

StringTable == [strings |-> strings, cache |-> cache, used |-> used]

LEMMA InitReads == Init => IInv
<1> SUFFICES ASSUME Init PROVE IInv
  OBVIOUS
<1>1. strings = <<>> /\ cache = <<>> /\ used = <<>> /\ sheets = <<>>
  BY DEF Init
<1>2. StringTable \in Tables /\ Faithful(StringTable)
  BY <1>1 DEF StringTable, Tables, Faithful
<1>3. sheets \in Seq(Sheet) /\ DOMAIN sheets = {}
  BY <1>1
<1>4. date1904 \in BOOLEAN /\ phase = "open" /\ closed = FALSE
  BY DEF Init
<1> QED BY <1>2, <1>3, <1>4 DEF IInv, StringTable, NamesDiffer, SavedReadsBack

\* The sheets and the table stay; so does what was saved.
LEMMA SameSheets ==
  ASSUME IInv, UNCHANGED <<table, sheets, date1904, closed, destination, saved>>,
         phase' \in {"saving", "destroying"} => package' = Package(sheets)
  PROVE  IInv'
<1>1. UNCHANGED <<strings, cache, used>>
  BY DEF table
<1>2. Package(sheets)' = Package(sheets)
  BY <1>1 DEF Package
<1>3. SavedReadsBack'
  BY DEF IInv, SavedReadsBack
<1>4. \A i \in DOMAIN sheets' : SheetShows(strings, date1904, sheets[i])'
  BY <1>1 DEF IInv
<1> QED BY <1>1, <1>2, <1>3, <1>4 DEF IInv, NamesDiffer

\* No sheets and no strings.
LEMMA NothingLeft ==
  ASSUME IInv, sheets' = <<>>, strings' = <<>>, cache' = <<>>, used' = <<>>,
         date1904' \in BOOLEAN, phase' \notin {"saving", "destroying"}, SavedReadsBack'
  PROVE  IInv'
<1>1. StringTable' \in Tables /\ Faithful(StringTable')
  BY DEF StringTable, Tables, Faithful
<1>2. sheets' \in Seq(Sheet) /\ DOMAIN sheets' = {}
  OBVIOUS
<1> QED BY <1>1, <1>2 DEF IInv, StringTable, NamesDiffer

LEMMA SavedStays ==
  ASSUME SavedReadsBack, UNCHANGED <<closed, destination, saved>>
  PROVE  SavedReadsBack'
BY DEF SavedReadsBack


LEMMA SetDate1904Reads ==
  ASSUME IInv, ~LateDateSystem, SetDate1904
  PROVE  IInv'
<1>1. sheets = <<>> /\ phase = "open" /\ UNCHANGED <<table, sheets, closed, phase, destination, saved>>
  BY DEF SetDate1904
<1>2. UNCHANGED <<strings, cache, used>> /\ sheets' = <<>> /\ DOMAIN sheets' = {}
  BY <1>1 DEF table
<1>3. SavedReadsBack'
  BY <1>1, SavedStays DEF IInv
<1>4. date1904' \in BOOLEAN
  BY DEF SetDate1904, IInv
<1> QED BY <1>1, <1>2, <1>3, <1>4 DEF IInv, NamesDiffer

LEMMA NewSheetShows ==
  ASSUME NEW name \in SheetNames \cup {"Sheet1"}, date1904 \in BOOLEAN
  PROVE  /\ NewSheet(name) \in Sheet /\ NewSheet(name).name = name
         /\ SheetShows(strings, date1904, NewSheet(name))
<1>1. <<>> \in Seq(Seq(Cells)) /\ <<>> \in Seq(Seq(Values)) /\ Len(<<>>) = 0
  OBVIOUS
<1> QED BY <1>1 DEF NewSheet, Sheet, SheetShows

LEMMA AddWorksheetReads ==
  ASSUME IInv, ~RepeatedNames, NEW name \in SheetNames, AddWorksheet(name)
  PROVE  IInv'
<1> DEFINE new == NewSheet(name)
<1>1. /\ sheets' = Append(sheets, new) /\ \A i \in DOMAIN sheets : sheets[i].name # name
      /\ phase = "open"
      /\ UNCHANGED <<table, date1904, closed, phase, package, destination, saved>>
  BY DEF AddWorksheet
<1>2. UNCHANGED <<strings, cache, used>>
  BY <1>1 DEF table
<1>3. new \in Sheet /\ new.name = name /\ SheetShows(strings, date1904, new)
  BY NewSheetShows DEF IInv
<1>4. sheets \in Seq(Sheet) /\ NamesDiffer(sheets) /\ \A i \in DOMAIN sheets : SheetShows(strings, date1904, sheets[i])
  BY DEF IInv
<1> HIDE DEF new
<1>5. /\ sheets' \in Seq(Sheet) /\ DOMAIN sheets' = 1 .. Len(sheets) + 1 /\ DOMAIN sheets = 1 .. Len(sheets)
      /\ sheets'[Len(sheets) + 1] = new /\ Len(sheets) \in Nat
      /\ \A i \in 1 .. Len(sheets) : sheets'[i] = sheets[i]
  <2> HIDE DEF Sheet
  <2> QED BY <1>1, <1>3, <1>4
<1>6. ASSUME NEW i \in DOMAIN sheets' PROVE SheetShows(strings, date1904, sheets'[i])
  <2>1. CASE i = Len(sheets) + 1
    BY <1>3, <1>5, <2>1
  <2>2. CASE i # Len(sheets) + 1
    BY <1>4, <1>5, <2>2
  <2> QED BY <2>1, <2>2
<1>7. NamesDiffer(sheets')
  <2> SUFFICES ASSUME NEW i \in DOMAIN sheets', NEW j \in DOMAIN sheets',
                      sheets'[i].name = sheets'[j].name
               PROVE  i = j
    BY DEF NamesDiffer
  <2>1. \A k \in DOMAIN sheets' : k = Len(sheets) + 1 \/ k \in 1 .. Len(sheets)
    BY <1>5
  <2>2. CASE i \in 1 .. Len(sheets) /\ j \in 1 .. Len(sheets)
    BY <1>4, <1>5, <2>2 DEF NamesDiffer
  <2>3. CASE i = Len(sheets) + 1 /\ j \in 1 .. Len(sheets)
    BY <1>1, <1>3, <1>5, <2>3
  <2>4. CASE j = Len(sheets) + 1 /\ i \in 1 .. Len(sheets)
    BY <1>1, <1>3, <1>5, <2>4
  <2> QED BY <2>1, <2>2, <2>3, <2>4
<1>8. SavedReadsBack'
  BY <1>1, SavedStays DEF IInv
<1>9. \A i \in DOMAIN sheets' : SheetShows(strings, date1904, sheets[i])'
  BY <1>1, <1>2, <1>6
<1>10. NamesDiffer(sheets)'
  BY <1>7 DEF NamesDiffer
<1> QED BY <1>1, <1>2, <1>5, <1>8, <1>9, <1>10 DEF IInv

\* The sheets another row goes by keep showing what they showed.
LEMMA KnownStill ==
  ASSUME NEW a \in Seq(Texts), NEW b \in Seq(Texts), Extends(a, b),
         NEW cells \in Seq(Cells), Known(a, cells)
  PROVE  Known(b, cells)
<1> SUFFICES ASSUME NEW c \in 1 .. Len(cells), cells[c].t = "s"
             PROVE  cells[c].v \in Nat /\ cells[c].v < Len(b)
  BY DEF Known
<1>1. cells[c].v \in Nat /\ cells[c].v < Len(a)
  BY DEF Known
<1>2. Len(a) \in Nat /\ Len(b) \in Nat /\ Len(a) <= Len(b)
  BY DEF Extends
<1> QED BY ONLY <1>1, <1>2

LEMMA SheetShowsStill ==
  ASSUME NEW a \in Seq(Texts), NEW b \in Seq(Texts), Extends(a, b),
         NEW day, NEW s \in Sheet, SheetShows(a, day, s)
  PROVE  SheetShows(b, day, s)
<1>1. ASSUME NEW r \in 1 .. Len(s.appended) PROVE RowShows(b, s.spool[r], day, s.appended[r])
  <2>1. RowShows(a, s.spool[r], day, s.appended[r])
    BY DEF SheetShows
  <2> QED BY <2>1, ShowsStill DEF RowShows
<1>2. s.spool \in Seq(Seq(Cells)) /\ s.open \in Seq(Seq(Cells))
  BY DEF Sheet
<1>3. ASSUME NEW r \in 1 .. Len(s.spool) PROVE Known(b, s.spool[r])
  BY <1>2, ElementOf, KnownStill DEF SheetShows
<1>4. ASSUME NEW r \in 1 .. Len(s.open) PROVE Known(b, s.open[r])
  BY <1>2, ElementOf, KnownStill DEF SheetShows
<1> QED BY <1>1, <1>3, <1>4 DEF SheetShows

\* The shared indexes of a row that shows its values are known.
LEMMA ShownIsKnown ==
  ASSUME NEW texts, NEW cells, NEW day, NEW row, RowShows(texts, cells, day, row)
  PROVE  Known(texts, cells)
BY DEF RowShows, Known, Shows

LEMMA KnownTogether ==
  ASSUME NEW texts \in Seq(Texts), NEW a \in Seq(Cells), NEW b \in Seq(Cells),
         Known(texts, a), Known(texts, b)
  PROVE  a \o b \in Seq(Cells) /\ Known(texts, a \o b)
<1>1. a \o b \in Seq(Cells) /\ Len(a \o b) = Len(a) + Len(b) /\ Len(a) \in Nat /\ Len(b) \in Nat
  <2> HIDE DEF Cells
  <2> QED OBVIOUS
<1>2. ASSUME NEW c \in 1 .. Len(a) + Len(b), (a \o b)[c].t = "s"
      PROVE  (a \o b)[c].v \in Nat /\ (a \o b)[c].v < Len(texts)
  <2>1. (a \o b)[c] = IF c <= Len(a) THEN a[c] ELSE b[c - Len(a)]
    BY ConcatenationAt
  <2>2. CASE c <= Len(a)
    <3>1. c \in 1 .. Len(a)
      BY <1>1, <2>2
    <3> QED BY <1>2, <2>1, <2>2, <3>1 DEF Known
  <2>3. CASE ~(c <= Len(a))
    <3>1. c - Len(a) \in 1 .. Len(b)
      BY <1>1, <2>3
    <3> QED BY <1>2, <2>1, <2>3, <3>1 DEF Known
  <2> QED BY <2>2, <2>3
<1> QED BY <1>1, <1>2 DEF Known

LEMMA FittingIs ==
  ASSUME NEW s, NEW row \in Seq(Values)
  PROVE  /\ Fitting(s, row) \in Seq(Values)
         /\ Len(Fitting(s, row)) = Len(row) => Fitting(s, row) = row
<1>1. CASE Fitting(s, row) = <<>>
  BY <1>1
<1>2. CASE Fitting(s, row) = row
  BY <1>2
<1>3. CASE Fitting(s, row) = SubSeq(row, 1, Columns) /\ ~(Len(row) <= Columns)
  <2>1. Columns \in Nat /\ Len(row) \in Nat /\ Columns < Len(row)
    BY <1>3, GridAssumption
  <2>2. SubSeq(row, 1, Columns) \in Seq(Values) /\ Len(SubSeq(row, 1, Columns)) = Columns
    BY <2>1
  <2> QED BY <1>3, <2>1, <2>2
<1> QED BY <1>1, <1>2, <1>3 DEF Fitting

LEMMA SheetOf ==
  ASSUME NEW s \in Sheet, NEW spool \in Seq(Seq(Cells)), NEW open \in Seq(Seq(Cells)),
         NEW appended \in Seq(Seq(Values)), NEW torn \in BOOLEAN, NEW after,
         after = [name |-> s.name, date1904 |-> s.date1904, spool |-> spool, open |-> open,
                  bad |-> s.bad, finished |-> s.finished, count |-> s.count + 1,
                  appended |-> appended, torn |-> torn]
  PROVE  after \in Sheet
BY DEF Sheet

\* What an append writes to a sheet: the rows before it still read, and it reads itself if
\* it did not throw and none before it did.
LEMMA AppendedShows ==
  ASSUME NEW texts \in Seq(Texts), NEW s \in Sheet, SheetShows(texts, s.date1904, s),
         NEW row \in Seq(Values), NEW cells \in Seq(Cells), NEW whole \in BOOLEAN,
         Known(texts, cells),
         whole => RowShows(texts, cells, s.date1904, row)
  PROVE  LET after == Remembered(Spooled(s, cells, whole), row, whole) IN
         /\ after \in Sheet /\ after.name = s.name
         /\ SheetShows(texts, s.date1904, after)
<1> DEFINE all == IF s.open = <<>> THEN cells ELSE s.open[1] \o cells
           after == Remembered(Spooled(s, cells, whole), row, whole)
           n == Len(s.appended)
           m == Len(s.spool)
<1>1. /\ s.spool \in Seq(Seq(Cells)) /\ s.open \in Seq(Seq(Cells)) /\ s.appended \in Seq(Seq(Values))
      /\ s.count \in Nat /\ s.torn \in BOOLEAN /\ n \in Nat /\ m \in Nat
  BY DEF Sheet
<1>2. /\ ~s.bad /\ n <= m
      /\ \A r \in 1 .. n : RowShows(texts, s.spool[r], s.date1904, s.appended[r])
      /\ \A r \in 1 .. m : Known(texts, s.spool[r])
      /\ Len(s.open) <= 1 /\ \A r \in 1 .. Len(s.open) : Known(texts, s.open[r])
      /\ ~s.torn => s.open = <<>> /\ m = n
  BY DEF SheetShows
<1>3. all \in Seq(Cells) /\ Known(texts, all)
  <2>1. CASE s.open = <<>>
    BY <2>1
  <2>2. CASE s.open # <<>>
    <3>1. 1 \in 1 .. Len(s.open) /\ 1 \in DOMAIN s.open
      BY <1>1, <2>2
    <3>2. s.open[1] \in Seq(Cells) /\ Known(texts, s.open[1])
      BY <1>1, <1>2, <3>1, ElementOf
    <3> QED BY <2>2, <3>2, KnownTogether
  <2> QED BY <2>1, <2>2
<1>a. s.open = <<>> => all = cells
  OBVIOUS
<1> DEFINE longer == Append(s.spool, all)
           more == Append(s.appended, row)
<1>4. /\ longer \in Seq(Seq(Cells)) /\ Len(longer) = m + 1 /\ longer[m + 1] = all
      /\ \A r \in 1 .. m : longer[r] = s.spool[r]
      /\ more \in Seq(Seq(Values)) /\ Len(more) = n + 1 /\ more[n + 1] = row
      /\ \A r \in 1 .. n : more[r] = s.appended[r]
  BY <1>1, <1>3
<1>n. n = Len(s.appended) /\ m = Len(s.spool)
  OBVIOUS
<1> HIDE DEF n, m
<1>5. CASE whole
  <2> DEFINE shown == IF ~s.torn THEN more ELSE s.appended
  <2>1. after = [name |-> s.name, date1904 |-> s.date1904, spool |-> longer, open |-> <<>>,
                 bad |-> s.bad, finished |-> s.finished, count |-> s.count + 1,
                 appended |-> shown, torn |-> s.torn]
    <3> DEFINE spooled == [s EXCEPT !.spool = longer, !.open = <<>>]
    <3>1. Spooled(s, cells, whole) = spooled
      BY <1>2, <1>5 DEF Spooled
    <3> HIDE DEF longer, more, shown
    <3>2. after = [spooled EXCEPT !.count = s.count + 1, !.torn = s.torn,
                                  !.appended = IF ~s.torn THEN Append(s.appended, row) ELSE s.appended]
      BY <1>1, <1>5, <3>1 DEF Remembered, Sheet
    <3>3. after = [spooled EXCEPT !.count = s.count + 1, !.torn = s.torn, !.appended = shown]
      BY <3>2 DEF shown, more
    <3> HIDE DEF after
    <3> QED BY <3>3 DEF Sheet
  <2> HIDE DEF all, longer, more, after
  <2>a. shown \in Seq(Seq(Values))
    BY <1>1, <1>4
  <2> HIDE DEF shown
  <2>2. /\ after.name = s.name /\ after.date1904 = s.date1904 /\ after.bad = s.bad
        /\ after.spool = longer /\ after.open = <<>> /\ after.torn = s.torn
        /\ after.appended = shown
    BY ONLY <2>1
  <2>3. after \in Sheet
    <3> DEFINE none == <<>>
    <3>1. none \in Seq(Seq(Cells)) /\ longer \in Seq(Seq(Cells)) /\ s.torn \in BOOLEAN
      BY <1>1, <1>4
    <3>2. after = [name |-> s.name, date1904 |-> s.date1904, spool |-> longer, open |-> none,
                   bad |-> s.bad, finished |-> s.finished, count |-> s.count + 1,
                   appended |-> shown, torn |-> s.torn]
      BY ONLY <2>1
    <3> HIDE DEF none
    <3> QED BY <2>a, <3>1, <3>2, SheetOf, Zenon
  <2>4. \A r \in 1 .. m + 1 : Known(texts, longer[r])
    <3> TAKE r \in 1 .. m + 1
    <3>1. CASE r = m + 1
      BY ONLY <1>3, <1>4, <3>1
    <3>2. CASE r # m + 1
      <4>1. r \in 1 .. m
        BY ONLY <1>1, <3>2, r \in 1 .. m + 1
      <4> QED BY ONLY <1>2, <1>4, <4>1
    <3> QED BY <3>1, <3>2
  <2>5. ASSUME NEW r \in 1 .. n PROVE RowShows(texts, longer[r], s.date1904, s.appended[r])
    <3>1. r \in 1 .. m
      BY ONLY <1>1, <1>2, r \in 1 .. n
    <3> QED BY ONLY <1>2, <1>4, <3>1, r \in 1 .. n
  <2>6. /\ Len(shown) <= Len(longer)
        /\ \A r \in 1 .. Len(shown) : RowShows(texts, longer[r], s.date1904, shown[r])
        /\ ~s.torn => Len(longer) = Len(shown)
    <3>1. CASE s.torn
      <4>1. shown = s.appended
        BY <3>1 DEF shown
      <4> QED BY ONLY <1>1, <1>2, <1>4, <1>n, <2>5, <3>1, <4>1
    <3>2. CASE ~s.torn
      <4>1. shown = more /\ m = n /\ all = cells
        BY <1>2, <1>a, <3>2 DEF shown
      <4>2. ASSUME NEW r \in 1 .. n + 1 PROVE RowShows(texts, longer[r], s.date1904, more[r])
        <5>1. CASE r = n + 1
          <6>1. longer[r] = cells /\ more[r] = row
            BY ONLY <1>4, <4>1, <5>1
          <6> QED BY <1>5, <6>1
        <5>2. CASE r # n + 1
          <6>1. r \in 1 .. n
            BY ONLY <1>1, <5>2, r \in 1 .. n + 1
          <6>2. more[r] = s.appended[r]
            BY ONLY <1>4, <6>1
          <6> QED BY <2>5, <6>1, <6>2
        <5> QED BY <5>1, <5>2
      <4>3. Len(shown) = n + 1 /\ Len(longer) = n + 1
        BY ONLY <1>4, <4>1
      <4> QED BY ONLY <1>1, <4>1, <4>2, <4>3
    <3> QED BY <3>1, <3>2
  <2>7. \A r \in 1 .. Len(longer) : Known(texts, longer[r])
    BY ONLY <1>4, <2>4
  <2>8. Len(<<>>) = 0
    OBVIOUS
  <2>9. SheetShows(texts, s.date1904, after)
    BY ONLY <1>2, <2>2, <2>6, <2>7, <2>8 DEF SheetShows
  <2> QED BY <2>2, <2>3, <2>9 DEF after
<1>6. CASE ~whole
  <2>1. after = [name |-> s.name, date1904 |-> s.date1904, spool |-> s.spool, open |-> <<all>>,
                 bad |-> s.bad, finished |-> s.finished, count |-> s.count + 1,
                 appended |-> s.appended, torn |-> TRUE]
    <3> DEFINE spooled == [s EXCEPT !.open = <<all>>]
    <3>1. Spooled(s, cells, whole) = spooled
      BY <1>2, <1>6 DEF Spooled
    <3> HIDE DEF all
    <3>2. after = [spooled EXCEPT !.count = s.count + 1, !.torn = TRUE, !.appended = s.appended]
      BY <1>1, <1>6, <3>1 DEF Remembered, Sheet
    <3> HIDE DEF after
    <3> QED BY <3>2 DEF Sheet
  <2> HIDE DEF all, after
  <2>2. /\ after.name = s.name /\ after.date1904 = s.date1904 /\ after.bad = s.bad
        /\ after.spool = s.spool /\ after.open = <<all>> /\ after.torn = TRUE
        /\ after.appended = s.appended
    BY ONLY <2>1
  <2>3. <<all>> \in Seq(Seq(Cells)) /\ Len(<<all>>) = 1 /\ <<all>>[1] = all
    BY ONLY <1>3
  <2>4. after \in Sheet
    <3> DEFINE torn == TRUE
               open == <<all>>
    <3>1. torn \in BOOLEAN /\ open \in Seq(Seq(Cells))
      BY <2>3
    <3>2. after = [name |-> s.name, date1904 |-> s.date1904, spool |-> s.spool, open |-> open,
                   bad |-> s.bad, finished |-> s.finished, count |-> s.count + 1,
                   appended |-> s.appended, torn |-> torn]
      BY <2>1
    <3> HIDE DEF torn, open
    <3> QED BY <1>1, <3>1, <3>2, SheetOf, Zenon
  <2>5. \A r \in 1 .. Len(<<all>>) : Known(texts, <<all>>[r])
    BY ONLY <1>3, <2>3
  <2>6. SheetShows(texts, s.date1904, after)
    BY ONLY <1>2, <1>n, <2>2, <2>3, <2>5 DEF SheetShows
  <2> QED BY <2>2, <2>4, <2>6 DEF after
<1> QED BY <1>5, <1>6

LEMMA AppendRowReads ==
  ASSUME IInv, ~SpoolFaults, NEW i \in DOMAIN sheets, NEW row \in Rows, AppendRow(i, row)
  PROVE  IInv'
<1> DEFINE s == sheets[i]
           fits == Fitting(s, row)
           whole == Len(fits) = Len(row)
           xml == RowXml(s, fits)
           longer == Remembered(Spooled(s, xml.cells, whole), row, whole)
<1>1. /\ phase = "open"
      /\ strings' = xml.table.strings /\ cache' = xml.table.cache /\ used' = xml.table.used
      /\ UNCHANGED <<date1904, closed, phase, package, destination, saved>>
      /\ sheets' = [sheets EXCEPT ![i] = longer]
  BY DEF AppendRow
<1>2. /\ sheets \in Seq(Sheet) /\ NamesDiffer(sheets) /\ date1904 \in BOOLEAN
      /\ \A j \in DOMAIN sheets : SheetShows(strings, date1904, sheets[j])
      /\ StringTable \in Tables /\ Faithful(StringTable)
  BY DEF IInv, StringTable
<1>3. s \in Sheet /\ SheetShows(strings, date1904, s)
  <2> HIDE DEF Sheet
  <2> QED BY <1>2, ElementOf
<1>4. row \in Seq(Values) /\ s.date1904 = date1904
  BY <1>3, RowsAssumption DEF Values, SheetShows
<1>a. fits \in Seq(Values) /\ (whole => fits = row)
  BY <1>4, FittingIs
<1>5. Empty.table = StringTable
  BY DEF Empty, StringTable
<1> HIDE DEF fits
<1>6. /\ xml.table \in Tables /\ Faithful(xml.table)
      /\ Extends(strings, xml.table.strings)
      /\ xml.cells \in Seq(Cells)
      /\ RowShows(xml.table.strings, xml.cells, date1904, fits)
  BY <1>2, <1>4, <1>a, <1>5, RowXmlShows
<1> HIDE DEF xml
<1>8. StringTable' = xml.table
  BY <1>1, <1>6 DEF StringTable, Tables
<1>9. strings \in Seq(Texts) /\ strings' \in Seq(Texts) /\ Extends(strings, strings')
  BY <1>1, <1>2, <1>6 DEF Tables, StringTable
<1>10. SheetShows(strings', s.date1904, s)
  BY <1>3, <1>4, <1>9, SheetShowsStill
<1>11. Known(strings', xml.cells) /\ (whole => RowShows(strings', xml.cells, s.date1904, row))
  BY <1>1, <1>4, <1>6, <1>a, ShownIsKnown
<1> DEFINE w == whole
<1>b. w \in BOOLEAN
  OBVIOUS
<1>14. longer \in Sheet /\ longer.name = s.name /\ SheetShows(strings', date1904, longer)
  <2>1. longer = Remembered(Spooled(s, xml.cells, w), row, w)
    OBVIOUS
  <2> HIDE DEF w, longer, s, Sheet
  <2>2. w => RowShows(strings', xml.cells, s.date1904, row)
    BY <1>11 DEF w
  <2> QED BY <1>3, <1>4, <1>6, <1>9, <1>10, <1>11, <1>b, <2>1, <2>2, AppendedShows
<1> HIDE DEF longer, s
<1>15. /\ sheets' \in Seq(Sheet) /\ DOMAIN sheets' = DOMAIN sheets
       /\ \A j \in DOMAIN sheets : sheets'[j] = IF j = i THEN longer ELSE sheets[j]
  <2> HIDE DEF Sheet
  <2> QED BY <1>1, <1>2, <1>14
<1>16. ASSUME NEW j \in DOMAIN sheets' PROVE SheetShows(strings', date1904, sheets'[j])
  <2>1. CASE j = i
    BY <1>14, <1>15, <2>1
  <2>2. CASE j # i
    <3>1. sheets[j] \in Sheet /\ sheets'[j] = sheets[j] /\ SheetShows(strings, date1904, sheets[j])
      <4> HIDE DEF Sheet
      <4> QED BY <1>2, <1>15, <2>2, ElementOf
    <3> QED BY <1>9, <3>1, SheetShowsStill
  <2> QED BY <2>1, <2>2
<1>17. NamesDiffer(sheets')
  <2>1. \A j \in DOMAIN sheets : sheets'[j].name = sheets[j].name
    BY <1>14, <1>15 DEF s
  <2> QED BY <1>2, <1>15, <2>1 DEF NamesDiffer
<1>18. SavedReadsBack'
  BY <1>1, SavedStays DEF IInv
<1>19. \A j \in DOMAIN sheets' : SheetShows(strings, date1904, sheets[j])'
  BY <1>1, <1>16
<1>20. NamesDiffer(sheets)'
  BY <1>17 DEF NamesDiffer
<1>21. StringTable' \in Tables /\ Faithful(StringTable')
  BY <1>6, <1>8
<1> QED BY <1>1, <1>2, <1>15, <1>18, <1>19, <1>20, <1>21 DEF IInv, StringTable

\* close() up to the save: finish() changes no row.
LEMMA BeginCloseReads ==
  ASSUME IInv, NEW next, BeginClose(next)
  PROVE  IInv'
<1> DEFINE before == IF sheets = <<>> THEN <<NewSheet("Sheet1")>> ELSE sheets
           all == Finished(before)
<1>1. /\ sheets' = all /\ package' = Package(all)
      /\ UNCHANGED <<table, date1904, closed, destination, saved>>
  BY DEF BeginClose
<1>2. UNCHANGED <<strings, cache, used>>
  BY <1>1 DEF table
<1>3. /\ before \in Seq(Sheet) /\ NamesDiffer(before)
      /\ \A i \in DOMAIN before : SheetShows(strings, date1904, before[i])
  <2>1. CASE sheets = <<>>
    <3>1. NewSheet("Sheet1") \in Sheet /\ SheetShows(strings, date1904, NewSheet("Sheet1"))
      BY NewSheetShows DEF IInv
    <3> DEFINE new == NewSheet("Sheet1")
    <3>2. before = <<new>>
      BY <2>1
    <3> HIDE DEF new, before, Sheet
    <3>3. before \in Seq(Sheet) /\ DOMAIN before = {1} /\ before[1] = new
      BY <3>1, <3>2 DEF new
    <3> QED BY <3>1, <3>3 DEF new, NamesDiffer
  <2>2. CASE sheets # <<>>
    BY <2>2 DEF IInv
  <2> QED BY <2>1, <2>2
<1> HIDE DEF before
<1>4. /\ all = [i \in DOMAIN before |-> [before[i] EXCEPT !.finished = TRUE]]
      /\ \A i \in DOMAIN before : before[i] \in Sheet
  <2> HIDE DEF Sheet
  <2> QED BY <1>3, ElementOf DEF Finished
<1> HIDE DEF all
<1>5. ASSUME NEW i \in DOMAIN before
      PROVE  /\ all[i] \in Sheet /\ SheetShows(strings, date1904, all[i])
             /\ all[i].name = before[i].name
  <2>1. all[i] = [before[i] EXCEPT !.finished = TRUE]
    BY <1>4
  <2>2. /\ all[i] \in Sheet /\ all[i].name = before[i].name /\ all[i].spool = before[i].spool
        /\ all[i].date1904 = before[i].date1904 /\ all[i].bad = before[i].bad
        /\ all[i].appended = before[i].appended /\ all[i].open = before[i].open
        /\ all[i].torn = before[i].torn
    BY <1>4, <2>1 DEF Sheet
  <2>3. SheetShows(strings, date1904, before[i])
    BY <1>3
  <2> QED BY <2>2, <2>3 DEF SheetShows
<1>6. all \in Seq(Sheet) /\ DOMAIN all = DOMAIN before
  <2> HIDE DEF Sheet
  <2>1. DOMAIN before = 1 .. Len(before) /\ Len(before) \in Nat
    BY <1>3
  <2>2. DOMAIN all = 1 .. Len(before) /\ all = [i \in 1 .. Len(before) |-> all[i]]
    BY <1>4, <2>1
  <2>3. \A i \in 1 .. Len(before) : all[i] \in Sheet
    BY <1>5, <2>1
  <2> QED BY <2>1, <2>2, <2>3
<1>7. NamesDiffer(all)
  BY <1>3, <1>5, <1>6 DEF NamesDiffer
<1>8. SavedReadsBack'
  BY <1>1, SavedStays DEF IInv
<1>9. \A i \in DOMAIN sheets' : SheetShows(strings, date1904, sheets[i])'
  BY <1>1, <1>2, <1>5, <1>6
<1>10. NamesDiffer(sheets)'
  BY <1>1, <1>7 DEF NamesDiffer
<1>11. package' = Package(sheets)'
  BY <1>1, <1>2 DEF Package
<1> QED BY <1>1, <1>2, <1>6, <1>8, <1>9, <1>10, <1>11 DEF IInv

LEMMA SavedReads ==
  ASSUME IInv, Saved
  PROVE  IInv'
<1>1. /\ destination' = package /\ closed' = TRUE /\ saved' = sheets
      /\ phase \in {"saving", "destroying"} /\ phase' \notin {"saving", "destroying"}
      /\ UNCHANGED date1904
  BY DEF Saved, Return, Gone
<1>2. LET read == ReadBack(package) IN
      DOMAIN read = DOMAIN sheets /\ \A i \in DOMAIN sheets : ReadsAs(read[i], sheets[i])
  BY <1>1, PackageReadsBack DEF IInv
<1>3. SavedReadsBack'
  <2>1. ReadBack(destination') = ReadBack(package)
    BY <1>1
  <2>2. ReadBack(destination)' = ReadBack(destination')
    BY DEF ReadBack, ReadCell
  <2> QED BY <1>1, <1>2, <2>1, <2>2 DEF SavedReadsBack
<1>4. date1904' \in BOOLEAN
  BY <1>1 DEF IInv
<1>5. CASE UNCHANGED <<table, sheets>>
  <2>1. UNCHANGED <<strings, cache, used>>
    BY <1>5 DEF table
  <2>2. \A i \in DOMAIN sheets' : SheetShows(strings, date1904, sheets[i])'
    BY <1>1, <1>5, <2>1 DEF IInv
  <2> QED BY <1>1, <1>3, <1>5, <2>1, <2>2 DEF IInv, NamesDiffer
<1>6. CASE Gone
  BY <1>1, <1>3, <1>4, <1>6, NothingLeft DEF Gone
<1> QED BY <1>5, <1>6 DEF Saved, Return

LEMMA NextReads ==
  ASSUME IInv, ~SpoolFaults, ~RepeatedNames, ~LateDateSystem, [Next]_vars
  PROVE  IInv'
<1>1. CASE SetDate1904
  BY <1>1, SetDate1904Reads
<1>2. ASSUME NEW name \in SheetNames, AddWorksheet(name) PROVE IInv'
  BY <1>2, AddWorksheetReads
<1>3. ASSUME NEW i \in DOMAIN sheets, NEW row \in Rows, AppendRow(i, row) PROVE IInv'
  BY <1>3, AppendRowReads
<1>4. CASE Close
  BY <1>4, BeginCloseReads DEF Close
<1>5. CASE Destroy
  <2>1. CASE BeginClose("destroying")
    BY <2>1, BeginCloseReads
  <2>2. CASE Gone /\ UNCHANGED <<options, date1904, closed, package, destination, saved, faults, writers, rows>>
    <3>1. SavedReadsBack'
      BY <2>2, SavedStays DEF IInv
    <3>2. date1904' \in BOOLEAN
      BY <2>2 DEF IInv
    <3> QED BY <2>2, <3>1, <3>2, NothingLeft DEF Gone
  <2> QED BY <1>5, <2>1, <2>2 DEF Destroy
<1>6. CASE Saved
  BY <1>6, SavedReads
<1>7. CASE CloseFailed \/ Crash
  <2>1. UNCHANGED <<date1904, closed, destination, saved>> /\ phase' \notin {"saving", "destroying"}
    BY <1>7 DEF CloseFailed, Crash, Return, Gone
  <2>2. SavedReadsBack' /\ date1904' \in BOOLEAN
    BY <2>1, SavedStays DEF IInv
  <2>3. CASE UNCHANGED <<table, sheets>>
    BY <2>1, <2>3, SameSheets
  <2>4. CASE Gone
    BY <2>1, <2>2, <2>4, NothingLeft DEF Gone
  <2> QED BY <1>7, <2>3, <2>4 DEF CloseFailed, Crash, Return
<1>8. CASE NewWriter
  <2>1. SavedReadsBack'
    BY <1>8 DEF NewWriter, SavedReadsBack
  <2> QED BY <1>8, <2>1, NothingLeft DEF NewWriter
<1>9. CASE UNCHANGED vars
  BY <1>9, SameSheets DEF vars, IInv
<1> QED BY <1>1, <1>2, <1>3, <1>4, <1>5, <1>6, <1>7, <1>8, <1>9 DEF Next

(***************************************************************************)
(* What a successful close saved reads back as every row appended, and on  *)
(* a sheet that an append threw for as every row before that one           *)
(* (StreamingWorkbookWriter.cpp, SharedStringTable::index, cellXml, append *)
(* and close), in every mode of the string table and for every capacity,   *)
(* for any sheets, rows, writers, failed closes and crashes, as long as    *)
(* the spools take what is written, sheet names differ and the date system *)
(* is chosen before the sheets.                                            *)
(***************************************************************************)
THEOREM StreamsReadBack ==
  ~SpoolFaults /\ ~RepeatedNames /\ ~LateDateSystem /\ Spec => []SavedReadsBack
<1> SUFFICES ASSUME ~SpoolFaults, ~RepeatedNames, ~LateDateSystem
             PROVE  Spec => []SavedReadsBack
  OBVIOUS
<1>1. Init => IInv
  BY InitReads
<1>2. IInv /\ [Next]_vars => IInv'
  BY NextReads
<1>3. IInv => SavedReadsBack
  BY DEF IInv
<1> QED BY <1>1, <1>2, <1>3, PTL DEF Spec

=============================================================================

-------------------------- MODULE AtomicFileProofs --------------------------
(***************************************************************************)
(* Every save is atomic, whatever fails and whenever the process dies, for *)
(* any number of threads that save to one path, provided that the mixed    *)
(* clock and counter never give two of them the same name; and while the   *)
(* process lives, no temporary outlives its save unless a removal fails.   *)
(***************************************************************************)
EXTENDS AtomicFile, TLAPS

\* Two values of the counter give two names, whatever the clock reads.
NoCollisions == \A i, j \in Nat, c, d \in Instants : Mix(i, c) = Mix(j, d) => i = j

Labels == {"idle", "naming", "opening", "writing", "replacing", "cleaning"}

Named(s) == pc[s] \in {"opening", "writing", "replacing", "cleaning"}

Types ==
  /\ disk = [f \in DOMAIN disk |-> disk[f]]
  /\ names = [n \in DOMAIN names |-> names[n]]
  /\ sequence \in Nat
  /\ pc \in [Savers -> Labels]
  /\ clock \in [Savers -> Instants]
  /\ attempt \in [Savers -> Nat]
  /\ DOMAIN temporary = Savers /\ temporary = [s \in Savers |-> temporary[s]]
  /\ DOMAIN handle = Savers /\ handle = [s \in Savers |-> handle[s]]
  /\ position \in [Savers -> 0 .. Chunks]
  /\ bad \in [Savers -> BOOLEAN]
  /\ saves \in [Savers -> 0 .. MaxSaves]
  /\ outcome \in [Savers -> {"none", "saved", "threw"}]
  /\ \A s \in Savers : pc[s] # "idle" => saves[s] >= 1

\* Threads hold names of their own, made from values the counter has left behind.
OwnNames ==
  /\ \A s \in Savers : Named(s) =>
       \E i \in Nat, c \in Instants : i < sequence /\ temporary[s][1] = Mix(i, c)
  /\ \A s, t \in Savers : s # t /\ Named(s) /\ Named(t) => temporary[s] # temporary[t]

\* The name of a thread that is about to open its file is free, and then it
\* names the file the thread created, which holds what the thread wrote.
OwnFile(s) ==
  /\ pc[s] = "opening" => temporary[s] \notin DOMAIN names
  /\ pc[s] \in {"writing", "replacing"} =>
       /\ temporary[s] \in DOMAIN names /\ names[temporary[s]] = Version(s)
       /\ Version(s) \in DOMAIN disk
  /\ pc[s] = "writing" =>
       /\ handle[s] = Version(s)
       /\ ~bad[s] => disk[Version(s)] = [i \in 1 .. position[s] |-> Version(s)]
  /\ pc[s] = "replacing" => disk[Version(s)] = Whole(Version(s))

OwnFiles == \A s \in Savers : OwnFile(s)

\* The path shows a whole version of a save that is over.
WholeDestination ==
  destination # NoFile =>
    \E t \in Savers, k \in 1 .. MaxSaves :
      /\ destination = <<t, k>>
      /\ k <= saves[t]
      /\ pc[t] # "idle" => k < saves[t]
      /\ destination \in DOMAIN disk
      /\ disk[destination] = Whole(destination)

Inv == Types /\ OwnNames /\ OwnFiles /\ WholeDestination

AtomicAssumptions ==
  /\ Instants # {}
  /\ NoFile \notin Savers \X Nat
  /\ MaxSaves \in Nat
  /\ NoCollisions

LEMMA InitInv == AtomicAssumptions /\ Init => Inv
<1> SUFFICES ASSUME AtomicAssumptions, Init PROVE Inv
  OBVIOUS
<1>1. Types
  <2>1. (CHOOSE c \in Instants : TRUE) \in Instants
    BY DEF AtomicAssumptions
  <2>2. 0 \in 0 .. Chunks /\ 0 \in 0 .. MaxSaves
    BY ChunksAssumption DEF AtomicAssumptions
  <2> QED
    BY <2>1, <2>2 DEF Init, Types, Labels
<1>2. OwnNames /\ OwnFiles /\ WholeDestination
  BY DEF Init, OwnNames, OwnFiles, OwnFile, WholeDestination, Named
<1> QED
  BY <1>1, <1>2 DEF Inv

-----------------------------------------------------------------------------
\* A step that leaves the path and the file it names alone.
LEMMA DestinationStays ==
  ASSUME AtomicAssumptions, Types, WholeDestination, Types',
         destination' = destination,
         \A t \in Savers : saves'[t] >= saves[t],
         \A t \in Savers : pc'[t] # "idle" => pc[t] # "idle" \/ saves'[t] > saves[t],
         destination # NoFile /\ destination \in DOMAIN disk =>
           destination \in DOMAIN disk' /\ disk'[destination] = disk[destination]
  PROVE  WholeDestination'
<1> SUFFICES ASSUME destination # NoFile PROVE WholeDestination'
  BY DEF WholeDestination
<1>1. PICK t \in Savers, k \in 1 .. MaxSaves :
        /\ destination = <<t, k>> /\ k <= saves[t]
        /\ pc[t] # "idle" => k < saves[t]
        /\ destination \in DOMAIN disk /\ disk[destination] = Whole(destination)
  BY DEF WholeDestination
<1>2. saves[t] \in Nat /\ saves'[t] \in Nat /\ k \in Nat
  BY DEF Types, AtomicAssumptions
<1>3. k <= saves'[t] /\ (pc'[t] # "idle" => k < saves'[t])
  BY <1>1, <1>2
<1>4. destination' \in DOMAIN disk' /\ disk'[destination'] = Whole(destination)'
  BY <1>1 DEF Whole
<1> QED
  BY <1>1, <1>3, <1>4 DEF WholeDestination

\* A step that moves one thread, whose name and file are its own affair.
LEMMA OthersKeepNames ==
  ASSUME Types, OwnNames, NEW s \in Savers, sequence \in Nat, sequence' \in Nat,
         sequence' >= sequence,
         \A t \in Savers \ {s} : temporary'[t] = temporary[t] /\ pc'[t] = pc[t],
         temporary'[s] = temporary[s], Named(s)' => Named(s)
  PROVE  OwnNames'
BY DEF OwnNames, Named, Types

\* A step of another thread, which leaves the name and the file of t alone.
LEMMA FileStays ==
  ASSUME NEW t \in Savers, OwnFile(t),
         /\ pc'[t] = pc[t] /\ saves'[t] = saves[t] /\ temporary'[t] = temporary[t]
         /\ handle'[t] = handle[t] /\ position'[t] = position[t] /\ bad'[t] = bad[t],
         pc[t] = "opening" => (temporary[t] \in DOMAIN names' => temporary[t] \in DOMAIN names),
         pc[t] \in {"writing", "replacing"} /\ temporary[t] \in DOMAIN names =>
           temporary[t] \in DOMAIN names' /\ names'[temporary[t]] = names[temporary[t]],
         pc[t] \in {"writing", "replacing"} /\ Version(t) \in DOMAIN disk =>
           Version(t) \in DOMAIN disk' /\ disk'[Version(t)] = disk[Version(t)]
  PROVE  OwnFile(t)'
<1>1. Version(t)' = Version(t)
  BY DEF Version
<1> QED
  BY <1>1 DEF OwnFile, Whole

LEMMA BeginInv == ASSUME AtomicAssumptions, Inv, NEW s \in Savers, Begin(s) PROVE Inv'
<1> USE DEF Inv
<1>1. Types'
  <2>1. saves' \in [Savers -> 0 .. MaxSaves] /\ saves'[s] = saves[s] + 1
    BY DEF Types, Begin, AtomicAssumptions
  <2>2. clock' \in [Savers -> Instants]
    BY DEF Types, Begin
  <2>3. saves'[s] >= 1 /\ \A t \in Savers : saves'[t] >= saves[t]
    BY <2>1 DEF Types, Begin
  <2> QED
    BY <2>1, <2>2, <2>3 DEF Types, Begin, Goto, Labels, files
<1>2. OwnNames'
  BY DEF Begin, Goto, Types, OwnNames, Named, Labels
<1>3. OwnFiles'
  <2> SUFFICES ASSUME NEW t \in Savers PROVE OwnFile(t)'
    BY DEF OwnFiles
  <2>1. CASE t = s
    BY <2>1 DEF Begin, Goto, Types, OwnFile
  <2>2. CASE t # s
    <3>1. pc'[t] = pc[t] /\ saves'[t] = saves[t]
      BY <2>2 DEF Begin, Goto, Types
    <3>2. OwnFile(t)
      BY DEF OwnFiles
    <3> QED
      BY <3>1, <3>2 DEF Begin, OwnFile, Version, Whole, files
  <2> QED
    BY <2>1, <2>2
<1>4. WholeDestination'
  <2>1. saves[s] \in Nat /\ saves'[s] = saves[s] + 1
    BY DEF Begin, Types
  <2>2. \A t \in Savers : saves[t] \in Nat /\ (t # s => saves'[t] = saves[t] /\ pc'[t] = pc[t])
    BY DEF Begin, Goto, Types
  <2> QED
    BY <1>1, <2>1, <2>2, DestinationStays DEF Begin, files
<1> QED
  BY <1>1, <1>2, <1>3, <1>4

LEMMA TryNameInv == ASSUME AtomicAssumptions, Inv, NEW s \in Savers, TryName(s) PROVE Inv'
<1> USE DEF Inv
<1> DEFINE candidate == <<Mix(sequence, clock[s]), attempt[s]>>
<1>0. pc[s] = "naming" /\ sequence \in Nat /\ sequence' = sequence + 1 /\ clock[s] \in Instants
  BY DEF Types, TryName
<1>a. UNCHANGED <<files, clock, handle, position, bad, saves, outcome>>
  BY DEF TryName
<1>1. CASE candidate \in DOMAIN names
  <2>0. UNCHANGED <<pc, temporary>> /\ attempt' = [attempt EXCEPT ![s] = @ + 1]
    BY <1>1 DEF TryName
  <2>1. Types'
    BY <1>0, <1>a, <2>0 DEF Types, files
  <2>2. OwnNames'
    BY <1>0, <2>0, OthersKeepNames DEF Named
  <2>3. OwnFiles'
    BY <1>a, <2>0 DEF OwnFiles, OwnFile, Version, Whole, files
  <2>4. WholeDestination'
    BY <1>a, <2>0 DEF WholeDestination, Whole, files
  <2> QED
    BY <2>1, <2>2, <2>3, <2>4
<1>2. CASE candidate \notin DOMAIN names
  <2>0. /\ temporary' = [temporary EXCEPT ![s] = candidate]
        /\ pc' = [pc EXCEPT ![s] = "opening"] /\ attempt' = attempt
    BY <1>2 DEF TryName, Goto
  <2>1. Types'
    <3>1. pc' \in [Savers -> Labels] /\ \A t \in Savers : pc'[t] # "idle" => pc[t] # "idle"
      BY <1>0, <2>0 DEF Types, Labels
    <3>2. DOMAIN temporary' = Savers /\ temporary' = [t \in Savers |-> temporary'[t]]
      BY <2>0 DEF Types
    <3> QED
      BY <1>0, <1>a, <2>0, <3>1, <3>2 DEF Types, files
  <2>2. /\ temporary'[s] = candidate /\ pc'[s] = "opening"
        /\ \A t \in Savers \ {s} : temporary'[t] = temporary[t] /\ pc'[t] = pc[t]
    BY <2>0 DEF Types
  <2>3. \A t \in Savers \ {s} : Named(t) => temporary[t] # candidate
    <3> SUFFICES ASSUME NEW t \in Savers \ {s}, Named(t), temporary[t] = candidate PROVE FALSE
      OBVIOUS
    <3>1. PICK i \in Nat, c \in Instants : i < sequence /\ temporary[t][1] = Mix(i, c)
      BY DEF OwnNames
    <3>2. Mix(i, c) = Mix(sequence, clock[s])
      BY <3>1
    <3>3. i = sequence
      BY <1>0, <3>2 DEF AtomicAssumptions, NoCollisions
    <3> QED
      BY <3>1, <3>3, <1>0
  <2>4. OwnNames'
    <3>1. ASSUME NEW t \in Savers, Named(t)'
          PROVE  \E i \in Nat, c \in Instants : i < sequence' /\ temporary'[t][1] = Mix(i, c)
      <4>1. CASE t = s
        BY <1>0, <2>2, <4>1
      <4>2. CASE t # s
        <5>1. Named(t) /\ temporary'[t] = temporary[t]
          BY <2>2, <3>1, <4>2 DEF Named
        <5>2. PICK i \in Nat, c \in Instants : i < sequence /\ temporary[t][1] = Mix(i, c)
          BY <5>1 DEF OwnNames
        <5> QED
          BY <1>0, <5>1, <5>2
      <4> QED
        BY <4>1, <4>2
    <3>2. ASSUME NEW t \in Savers, NEW u \in Savers, t # u, Named(t)', Named(u)'
          PROVE  temporary'[t] # temporary'[u]
      BY <2>2, <2>3, <3>2 DEF OwnNames, Named
    <3> QED
      BY <3>1, <3>2 DEF OwnNames
  <2>5. OwnFiles'
    <3> SUFFICES ASSUME NEW t \in Savers PROVE OwnFile(t)'
      BY DEF OwnFiles
    <3>1. OwnFile(t)
      BY DEF OwnFiles
    <3>2. CASE t = s
      BY <1>2, <1>a, <2>2, <3>2 DEF OwnFile, files
    <3>3. CASE t # s
      BY <1>a, <2>2, <3>1, <3>3 DEF OwnFile, Version, Whole, files
    <3> QED
      BY <3>2, <3>3
  <2>6. WholeDestination'
    BY <1>0, <1>a, <2>1, <2>2, DestinationStays DEF files, Types
  <2> QED
    BY <2>1, <2>4, <2>5, <2>6
<1> QED
  BY <1>1, <1>2

LEMMA NamesExhaustedInv ==
  ASSUME AtomicAssumptions, Inv, NEW s \in Savers, NamesExhausted(s) PROVE Inv'
<1> USE DEF Inv
<1>0. /\ pc[s] = "naming" /\ pc' = [pc EXCEPT ![s] = "idle"]
      /\ outcome' = [outcome EXCEPT ![s] = "threw"]
      /\ UNCHANGED <<files, sequence, clock, attempt, temporary, handle, position, bad, saves>>
  BY DEF NamesExhausted, Goto
<1>1. Types'
  BY <1>0 DEF Types, Labels, files
<1>2. pc'[s] = "idle" /\ \A t \in Savers \ {s} : pc'[t] = pc[t]
  BY <1>0 DEF Types
<1>3. OwnNames'
  BY <1>0, <1>2 DEF OwnNames, Named
<1>4. OwnFiles'
  <2> SUFFICES ASSUME NEW t \in Savers PROVE OwnFile(t)'
    BY DEF OwnFiles
  <2>1. CASE t = s
    BY <1>2, <2>1 DEF OwnFile
  <2>2. CASE t # s
    BY <1>0, <1>2, <2>2, FileStays DEF OwnFiles, files
  <2> QED
    BY <2>1, <2>2
<1>5. WholeDestination'
  BY <1>0, <1>1, <1>2, DestinationStays DEF files, Types
<1> QED
  BY <1>1, <1>3, <1>4, <1>5

LEMMA OpenInv == ASSUME AtomicAssumptions, Inv, NEW s \in Savers, Open(s) PROVE Inv'
<1> USE DEF Inv
<1>0. /\ pc[s] = "opening" /\ temporary[s] \notin DOMAIN names
      /\ pc' = [pc EXCEPT ![s] = "writing"]
      /\ handle' = [handle EXCEPT ![s] = Version(s)]
      /\ position' = [position EXCEPT ![s] = 0]
      /\ bad' = [bad EXCEPT ![s] = FALSE]
      /\ disk' = [f \in DOMAIN disk \cup {Version(s)} |->
                   IF f = Version(s) THEN <<>> ELSE disk[f]]
      /\ names' = [n \in DOMAIN names \cup {temporary[s]} |->
                    IF n = temporary[s] THEN Version(s) ELSE names[n]]
      /\ UNCHANGED <<destination, sequence, clock, attempt, temporary, saves, outcome>>
  BY DEF Open, Goto, OwnFiles, OwnFile
<1>1. Types'
  <2>1. /\ pc' \in [Savers -> Labels] /\ position' \in [Savers -> 0 .. Chunks]
        /\ bad' \in [Savers -> BOOLEAN]
        /\ \A t \in Savers : pc'[t] # "idle" => pc[t] # "idle"
    BY <1>0, ChunksAssumption DEF Types, Labels
  <2>2. DOMAIN handle' = Savers /\ handle' = [t \in Savers |-> handle'[t]]
    BY <1>0 DEF Types
  <2>3. /\ disk' = [f \in DOMAIN disk' |-> disk'[f]]
        /\ names' = [n \in DOMAIN names' |-> names'[n]]
    BY <1>0
  <2> QED
    BY <1>0, <2>1, <2>2, <2>3 DEF Types
<1>2. /\ pc'[s] = "writing" /\ handle'[s] = Version(s) /\ position'[s] = 0
      /\ \A t \in Savers \ {s} : /\ pc'[t] = pc[t] /\ handle'[t] = handle[t]
                                 /\ position'[t] = position[t] /\ bad'[t] = bad[t]
  BY <1>0 DEF Types
<1>3. OwnNames'
  BY <1>0, <1>2, OthersKeepNames DEF Named, Types
<1>4. OwnFiles'
  <2> SUFFICES ASSUME NEW t \in Savers PROVE OwnFile(t)'
    BY DEF OwnFiles
  <2>1. CASE t = s
    <3>1. Version(s)' = Version(s) /\ Version(s) \in DOMAIN disk' /\ disk'[Version(s)] = <<>>
      BY <1>0 DEF Version
    <3>2. temporary'[s] \in DOMAIN names' /\ names'[temporary'[s]] = Version(s)
      BY <1>0
    <3>3. [i \in 1 .. position'[s] |-> Version(s)] = <<>>
      BY <1>2
    <3> QED
      BY <1>2, <2>1, <3>1, <3>2, <3>3 DEF OwnFile
  <2>2. CASE t # s
    <3>1. Version(t) # Version(s)
      BY <2>2 DEF Version
    <3>2. Named(t) => temporary[t] # temporary[s]
      BY <1>0, <2>2 DEF OwnNames, Named
    <3> QED
      BY <1>0, <1>2, <2>2, <3>1, <3>2, FileStays DEF OwnFiles, Named
  <2> QED
    BY <2>1, <2>2
<1>5. WholeDestination'
  <2>1. destination # NoFile => destination # Version(s)
    BY <1>0 DEF WholeDestination, Version, Types
  <2> QED
    BY <1>0, <1>1, <1>2, <2>1, DestinationStays DEF Types
<1> QED
  BY <1>1, <1>3, <1>4, <1>5

LEMMA WriteInv == ASSUME AtomicAssumptions, Inv, NEW s \in Savers, Write(s) PROVE Inv'
<1> USE DEF Inv
<1>0. /\ pc[s] = "writing" /\ position[s] < Chunks
      /\ position' = [position EXCEPT ![s] = @ + 1]
      /\ handle[s] = Version(s) /\ Version(s) \in DOMAIN disk
      /\ UNCHANGED <<names, destination, sequence, pc, clock, attempt, temporary, handle,
                     saves, outcome>>
  BY DEF Write, OwnFiles, OwnFile
<1>1. /\ DOMAIN disk' = DOMAIN disk /\ disk' = [f \in DOMAIN disk' |-> disk'[f]]
      /\ \A f \in DOMAIN disk : f # Version(s) => disk'[f] = disk[f]
  BY <1>0 DEF Write, Types
<1>2. /\ bad' \in [Savers -> BOOLEAN] /\ \A t \in Savers \ {s} : bad'[t] = bad[t]
  BY DEF Write, Types
<1>3. /\ position[s] \in Nat /\ position'[s] = position[s] + 1
      /\ position' \in [Savers -> 0 .. Chunks]
      /\ \A t \in Savers \ {s} : position'[t] = position[t]
  BY <1>0, ChunksAssumption DEF Types
<1>4. Types'
  BY <1>0, <1>1, <1>2, <1>3 DEF Types
<1>5. OwnNames'
  BY <1>0, OthersKeepNames DEF Named, Types
<1>6. OwnFiles'
  <2> SUFFICES ASSUME NEW t \in Savers PROVE OwnFile(t)'
    BY DEF OwnFiles
  <2>1. CASE t = s
    <3>1. ASSUME ~bad'[s]
          PROVE  disk'[Version(s)] = [i \in 1 .. position'[s] |-> Version(s)]
      <4>1. ~bad[s] /\ disk'[Version(s)]
              = Overwrite(disk[Version(s)], position[s] + 1, Version(s))
        BY <1>0, <3>1 DEF Write, Types
      <4>2. disk[Version(s)] = [i \in 1 .. position[s] |-> Version(s)]
        BY <1>0, <4>1 DEF OwnFiles, OwnFile
      <4>3. disk[Version(s)] \in Seq({Version(s)}) /\ Len(disk[Version(s)]) = position[s]
        BY <1>3, <4>2
      <4> QED
        BY <1>3, <4>1, <4>2, <4>3 DEF Overwrite
    <3>2. Version(s)' = Version(s)
      BY <1>0 DEF Version
    <3>3. OwnFile(s)
      BY DEF OwnFiles
    <3> QED
      BY <1>0, <1>1, <2>1, <3>1, <3>2, <3>3 DEF OwnFile
  <2>2. CASE t # s
    <3>1. Version(t) # Version(s)
      BY <2>2 DEF Version
    <3> QED
      BY <1>0, <1>1, <1>2, <1>3, <2>2, <3>1, FileStays DEF OwnFiles
  <2> QED
    BY <2>1, <2>2
<1>7. WholeDestination'
  <2>1. destination # NoFile => destination # Version(s)
    BY <1>0 DEF WholeDestination, Version, Types
  <2> QED
    BY <1>0, <1>1, <1>4, <2>1, DestinationStays DEF Types
<1> QED
  BY <1>4, <1>5, <1>6, <1>7

\* A thread that leaves its try block, with or without its name.
LEMMA LeaveInv ==
  ASSUME AtomicAssumptions, Inv, NEW s \in Savers, NEW label \in {"replacing", "cleaning"},
         pc[s] \in {"opening", "writing", "replacing"},
         pc' = [pc EXCEPT ![s] = label],
         handle' = [handle EXCEPT ![s] = NoFile],
         label = "replacing" => pc[s] = "writing" /\ disk[Version(s)] = Whole(Version(s)),
         UNCHANGED <<files, sequence, clock, attempt, temporary, position, bad, saves, outcome>>
  PROVE  Inv'
<1> USE DEF Inv
<1>1. Types'
  <2>1. pc' \in [Savers -> Labels] /\ \A t \in Savers : pc'[t] # "idle" => pc[t] # "idle"
    BY DEF Types, Labels
  <2>2. DOMAIN handle' = Savers /\ handle' = [t \in Savers |-> handle'[t]]
    BY DEF Types
  <2> QED
    BY <2>1, <2>2 DEF Types, files
<1>2. /\ pc'[s] = label
      /\ \A t \in Savers \ {s} : pc'[t] = pc[t] /\ handle'[t] = handle[t]
  BY DEF Types
<1>3. OwnNames'
  BY <1>2, OthersKeepNames DEF Named, Types
<1>4. OwnFiles'
  <2> SUFFICES ASSUME NEW t \in Savers PROVE OwnFile(t)'
    BY DEF OwnFiles
  <2>1. CASE t = s
    <3>1. OwnFile(s)
      BY DEF OwnFiles
    <3> QED
      BY <1>2, <2>1, <3>1 DEF OwnFile, Version, Whole, files
  <2>2. CASE t # s
    BY <1>2, <2>2, FileStays DEF OwnFiles, files
  <2> QED
    BY <2>1, <2>2
<1>5. WholeDestination'
  BY <1>1, <1>2, DestinationStays DEF files, Types
<1> QED
  BY <1>1, <1>3, <1>4, <1>5

LEMMA WriterThrowsInv ==
  ASSUME AtomicAssumptions, Inv, NEW s \in Savers, WriterThrows(s) PROVE Inv'
BY LeaveInv DEF WriterThrows, Throw, Goto

LEMMA FlushAndCloseInv ==
  ASSUME AtomicAssumptions, Inv, NEW s \in Savers, FlushAndClose(s) PROVE Inv'
<1>1. CASE ~bad[s] /\ Goto(s, "replacing")
  <2>1. disk[Version(s)] = Whole(Version(s))
    BY <1>1 DEF FlushAndClose, Inv, OwnFiles, OwnFile, Whole
  <2>2. handle' = [handle EXCEPT ![s] = NoFile]
    BY DEF FlushAndClose, Throw
  <2> QED
    BY <1>1, <2>1, <2>2, LeaveInv DEF FlushAndClose, Goto
<1>2. CASE Throw(s)
  BY <1>2, LeaveInv DEF FlushAndClose, Throw, Goto
<1> QED
  BY <1>1, <1>2 DEF FlushAndClose

\* The rename that succeeds.
LEMMA RenamedInv ==
  ASSUME AtomicAssumptions, Inv, NEW s \in Savers, pc[s] = "replacing",
         destination' = names[temporary[s]], RemoveName(temporary[s]),
         outcome' = [outcome EXCEPT ![s] = "saved"], Goto(s, "idle"),
         UNCHANGED <<disk, sequence, clock, attempt, temporary, handle, position, bad, saves>>
  PROVE  Inv' /\ destination' = Version(s)
<1> USE DEF Inv
<1>0. /\ temporary[s] \in DOMAIN names /\ destination' = Version(s)
      /\ Version(s) \in DOMAIN disk /\ disk[Version(s)] = Whole(Version(s))
  BY DEF OwnFiles, OwnFile
<1>1. Types'
  <2>1. pc' \in [Savers -> Labels] /\ \A t \in Savers : pc'[t] # "idle" => pc[t] # "idle"
    BY DEF Types, Labels, Goto
  <2>2. names' = [n \in DOMAIN names' |-> names'[n]]
    BY DEF RemoveName
  <2> QED
    BY <2>1, <2>2 DEF Types
<1>2. pc'[s] = "idle" /\ \A t \in Savers \ {s} : pc'[t] = pc[t]
  BY DEF Types, Goto
<1>3. OwnNames'
  BY <1>2, OthersKeepNames DEF Named, Types
<1>4. OwnFiles'
  <2> SUFFICES ASSUME NEW t \in Savers PROVE OwnFile(t)'
    BY DEF OwnFiles
  <2>1. CASE t = s
    BY <1>2, <2>1 DEF OwnFile
  <2>2. CASE t # s
    <3>1. Named(t) => temporary[t] # temporary[s]
      BY <2>2 DEF OwnNames, Named
    <3> QED
      BY <1>2, <2>2, <3>1, FileStays DEF OwnFiles, Named, RemoveName
  <2> QED
    BY <2>1, <2>2
<1>5. WholeDestination'
  <2>1. saves[s] \in 1 .. MaxSaves
    BY DEF Types, AtomicAssumptions
  <2>2. Version(s)' = Version(s) /\ Whole(Version(s))' = Whole(Version(s))
    BY DEF Version, Whole
  <2>3. saves'[s] = saves[s] /\ saves[s] <= saves[s]
    BY <2>1 DEF AtomicAssumptions
  <2> QED
    BY <1>0, <1>2, <2>1, <2>2, <2>3 DEF WholeDestination, Version, Whole
<1> QED
  BY <1>0, <1>1, <1>3, <1>4, <1>5

LEMMA RenameInv == ASSUME AtomicAssumptions, Inv, NEW s \in Savers, Rename(s) PROVE Inv'
<1>1. temporary[s] \in DOMAIN names
  BY DEF Rename, Inv, OwnFiles, OwnFile
<1>2. CASE Throw(s) /\ UNCHANGED <<names, destination, outcome>>
  BY <1>2, LeaveInv DEF Rename, Throw, Goto, files
<1>3. CASE destination' = names[temporary[s]] /\ RemoveName(temporary[s])
           /\ outcome' = [outcome EXCEPT ![s] = "saved"] /\ Goto(s, "idle") /\ UNCHANGED handle
  BY <1>3, RenamedInv DEF Rename
<1> QED
  BY <1>1, <1>2, <1>3 DEF Rename

LEMMA CleanupInv == ASSUME AtomicAssumptions, Inv, NEW s \in Savers, Cleanup(s) PROVE Inv'
<1> USE DEF Inv
<1>0. /\ pc[s] = "cleaning" /\ pc' = [pc EXCEPT ![s] = "idle"]
      /\ outcome' = [outcome EXCEPT ![s] = "threw"]
      /\ names' = names \/ RemoveName(temporary[s])
      /\ UNCHANGED <<disk, destination, sequence, clock, attempt, temporary, handle, position,
                     bad, saves>>
  BY DEF Cleanup, Goto
<1>1. Types'
  <2>1. pc' \in [Savers -> Labels] /\ \A t \in Savers : pc'[t] # "idle" => pc[t] # "idle"
    BY <1>0 DEF Types, Labels
  <2>2. names' = [n \in DOMAIN names' |-> names'[n]]
    BY <1>0 DEF RemoveName, Types
  <2> QED
    BY <1>0, <2>1, <2>2 DEF Types
<1>2. pc'[s] = "idle" /\ \A t \in Savers \ {s} : pc'[t] = pc[t]
  BY <1>0 DEF Types
<1>3. OwnNames'
  BY <1>0, <1>2, OthersKeepNames DEF Named, Types
<1>4. OwnFiles'
  <2> SUFFICES ASSUME NEW t \in Savers PROVE OwnFile(t)'
    BY DEF OwnFiles
  <2>1. CASE t = s
    BY <1>2, <2>1 DEF OwnFile
  <2>2. CASE t # s
    <3>1. Named(t) => temporary[t] # temporary[s]
      BY <1>0, <2>2 DEF OwnNames, Named
    <3> QED
      BY <1>0, <1>2, <2>2, <3>1, FileStays DEF OwnFiles, Named, RemoveName
  <2> QED
    BY <2>1, <2>2
<1>5. WholeDestination'
  BY <1>0, <1>1, <1>2, DestinationStays DEF Types
<1> QED
  BY <1>1, <1>3, <1>4, <1>5

LEMMA CrashInv == ASSUME AtomicAssumptions, Inv, Crash PROVE Inv'
<1> USE DEF Inv
<1>1. /\ sequence' = 0 /\ pc' = [t \in Savers |-> "idle"] /\ handle' = [t \in Savers |-> NoFile]
      /\ outcome' = [t \in Savers |-> "none"]
      /\ UNCHANGED <<disk, names, destination, clock, attempt, temporary, position, bad, saves>>
  BY DEF Crash, files
<1>2. Types'
  BY <1>1 DEF Types, Labels
<1>3. OwnNames' /\ OwnFiles'
  BY <1>1 DEF OwnNames, OwnFiles, OwnFile, Named
<1>4. WholeDestination'
  BY <1>1, <1>2, DestinationStays DEF Types
<1> QED
  BY <1>2, <1>3, <1>4

LEMMA StutterInv == ASSUME Inv, UNCHANGED vars PROVE Inv'
<1>1. Types'
  BY DEF vars, files, locals, Inv, Types
<1>2. OwnNames'
  BY DEF vars, files, locals, Inv, OwnNames, Named
<1>3. OwnFiles'
  <2> SUFFICES ASSUME NEW t \in Savers PROVE OwnFile(t)'
    BY DEF OwnFiles
  <2> QED
    BY FileStays DEF vars, files, locals, Inv, OwnFiles
<1>4. WholeDestination'
  BY DEF vars, files, locals, Inv, WholeDestination, Whole
<1> QED
  BY <1>1, <1>2, <1>3, <1>4 DEF Inv

LEMMA NextInv == ASSUME AtomicAssumptions, Inv, [Next]_vars PROVE Inv'
<1>1. ASSUME NEW s \in Savers, Step(s) PROVE Inv'
  BY <1>1, TryNameInv, NamesExhaustedInv, OpenInv, WriteInv, WriterThrowsInv,
     FlushAndCloseInv, RenameInv, CleanupInv DEF Step
<1>2. ASSUME NEW s \in Savers, Begin(s) PROVE Inv'
  BY <1>2, BeginInv
<1>3. CASE Crash
  BY <1>3, CrashInv
<1>4. CASE UNCHANGED vars
  BY <1>4, StutterInv
<1> QED
  BY <1>1, <1>2, <1>3, <1>4 DEF Next

-----------------------------------------------------------------------------
LEMMA ShownIsDestination == ASSUME AtomicAssumptions, Inv PROVE Shown = destination
<1> SUFFICES ASSUME destination # NoFile PROVE Shown = destination
  BY DEF Shown
<1>1. PICK t \in Savers, k \in 1 .. MaxSaves :
        destination = <<t, k>> /\ disk[destination] = Whole(destination)
  BY DEF Inv, WholeDestination
<1>2. destination \in Savers \X (1 .. MaxSaves)
  BY <1>1
<1>3. Whole(destination)[1] = destination
  BY ChunksAssumption DEF Whole
<1> QED
  BY <1>1, <1>2, <1>3 DEF Shown

\* The same after a step.
LEMMA ShownIsDestinationAfter ==
  ASSUME AtomicAssumptions, Inv' PROVE Shown' = destination'
<1> SUFFICES ASSUME destination' # NoFile PROVE Shown' = destination'
  BY DEF Shown
<1>1. PICK t \in Savers, k \in 1 .. MaxSaves :
        destination' = <<t, k>> /\ disk'[destination'] = Whole(destination')
  BY DEF Inv, WholeDestination, Whole
<1>2. destination' \in Savers \X (1 .. MaxSaves)
  BY <1>1
<1>3. Whole(destination')[1] = destination'
  BY ChunksAssumption DEF Whole
<1> QED
  BY <1>1, <1>2, <1>3 DEF Shown, Whole

LEMMA VersionIsNoNoFile ==
  ASSUME AtomicAssumptions, Inv, NEW s \in Savers
  PROVE  Version(s) # NoFile /\ (pc[s] # "idle" => Version(s) \in SavedVersions(s))
<1>1. saves[s] \in 0 .. MaxSaves /\ (pc[s] # "idle" => saves[s] >= 1)
  BY DEF Inv, Types
<1>2. saves[s] \in Nat
  BY <1>1 DEF AtomicAssumptions
<1> QED
  BY <1>1, <1>2 DEF Version, SavedVersions, AtomicAssumptions

\* A step of a thread that stays under way is a stutter of the abstract save.
LEMMA InsideSave ==
  ASSUME AtomicAssumptions, Inv, Inv', NEW s \in Savers,
         pc[s] # "idle", pc'[s] # "idle",
         \A t \in Savers \ {s} : pc'[t] = pc[t],
         destination' = destination, saves' = saves, outcome' = outcome
  PROVE  Shown' = Shown /\ UnderWay' = UnderWay
<1>1. Shown' = Shown
  BY ShownIsDestination, ShownIsDestinationAfter
<1> QED
  BY <1>1 DEF UnderWay, Version

\* Each action against the abstract save.
LEMMA BeginRefines ==
  ASSUME AtomicAssumptions, Inv, Inv', NEW s \in Savers, Begin(s) PROVE Replace!Begin(s)
<1>1. UnderWay[s] = NoFile /\ UnderWay' = [UnderWay EXCEPT ![s] = Version(s)']
  BY DEF Begin, Goto, UnderWay, Version, Inv, Types
<1>2. Version(s)' \in SavedVersions(s)
  <2>1. pc'[s] = "naming" /\ saves'[s] \in 0 .. MaxSaves /\ saves'[s] >= 1
    BY DEF Begin, Goto, Inv, Types
  <2>2. saves'[s] \in 1 .. MaxSaves
    BY <2>1 DEF AtomicAssumptions
  <2> QED
    BY <2>2 DEF Version, SavedVersions
<1>3. Shown' = Shown
  BY ShownIsDestination, ShownIsDestinationAfter DEF Begin, files
<1> QED
  BY <1>1, <1>2, <1>3 DEF Replace!Begin, Begin

\* The thread that ends its save with an exception.
LEMMA FailRefines ==
  ASSUME AtomicAssumptions, Inv, Inv', NEW s \in Savers, pc[s] # "idle",
         pc' = [pc EXCEPT ![s] = "idle"], outcome' = [outcome EXCEPT ![s] = "threw"],
         destination' = destination, saves' = saves
  PROVE  Replace!Fail(s)
<1>1. UnderWay[s] # NoFile /\ UnderWay' = [UnderWay EXCEPT ![s] = NoFile]
  BY VersionIsNoNoFile DEF UnderWay, Version, Inv, Types
<1>2. Shown' = Shown
  BY ShownIsDestination, ShownIsDestinationAfter
<1> QED
  BY <1>1, <1>2 DEF Replace!Fail

LEMMA CommitRefines ==
  ASSUME AtomicAssumptions, Inv, Inv', NEW s \in Savers, pc[s] = "replacing",
         pc' = [pc EXCEPT ![s] = "idle"], outcome' = [outcome EXCEPT ![s] = "saved"],
         destination' = Version(s), saves' = saves
  PROVE  Replace!Commit(s)
<1>1. UnderWay[s] = Version(s) /\ UnderWay' = [UnderWay EXCEPT ![s] = NoFile]
  BY DEF UnderWay, Version, Inv, Types
<1>2. Shown' = Version(s)
  BY ShownIsDestinationAfter
<1> QED
  BY <1>1, <1>2, VersionIsNoNoFile DEF Replace!Commit

LEMMA CrashRefines == ASSUME AtomicAssumptions, Inv, Inv', Crash PROVE Replace!Crash
<1>1. UnderWay' = [s \in Savers |-> NoFile]
  BY DEF Crash, UnderWay
<1>2. Shown' = Shown
  BY ShownIsDestination, ShownIsDestinationAfter DEF Crash, files
<1> QED
  BY <1>1, <1>2 DEF Replace!Crash, Crash

LEMMA StepRefines ==
  ASSUME AtomicAssumptions, Inv, Inv', NEW s \in Savers, Step(s)
  PROVE  [Replace!Next]_(Replace!vars)
<1>1. ASSUME pc[s] # "idle", pc'[s] # "idle", \A t \in Savers \ {s} : pc'[t] = pc[t],
             destination' = destination, saves' = saves, outcome' = outcome
      PROVE  UNCHANGED Replace!vars
  BY <1>1, InsideSave DEF Replace!vars
<1>2. CASE TryName(s)
  BY <1>1, <1>2 DEF TryName, Goto, files, Inv, Types
<1>3. CASE NamesExhausted(s)
  BY <1>3, FailRefines DEF NamesExhausted, Goto, files, Replace!Next
<1>4. CASE Open(s)
  BY <1>1, <1>4 DEF Open, Goto, Inv, Types
<1>5. CASE Write(s)
  BY <1>1, <1>5 DEF Write, Inv, Types
<1>6. CASE WriterThrows(s)
  BY <1>1, <1>6 DEF WriterThrows, Throw, Goto, files, Inv, Types
<1>7. CASE FlushAndClose(s)
  BY <1>1, <1>7 DEF FlushAndClose, Throw, Goto, files, Inv, Types
<1>8. CASE Rename(s)
  <2>1. temporary[s] \in DOMAIN names
    BY <1>8 DEF Rename, Inv, OwnFiles, OwnFile
  <2>2. CASE destination' = names[temporary[s]] /\ outcome' = [outcome EXCEPT ![s] = "saved"]
             /\ Goto(s, "idle")
    <3>1. pc[s] = "replacing" /\ destination' = Version(s) /\ saves' = saves
      BY <1>8, <2>2 DEF Rename, Inv, OwnFiles, OwnFile
    <3> QED
      BY <2>2, <3>1, CommitRefines DEF Goto, Replace!Next
  <2>3. CASE Throw(s) /\ UNCHANGED <<destination, outcome>>
    BY <1>1, <1>8, <2>3 DEF Rename, Throw, Goto, Inv, Types
  <2> QED
    BY <1>8, <2>1, <2>2, <2>3 DEF Rename
<1>9. CASE Cleanup(s)
  BY <1>9, FailRefines DEF Cleanup, Goto, Replace!Next
<1> QED
  BY <1>2, <1>3, <1>4, <1>5, <1>6, <1>7, <1>8, <1>9 DEF Step

LEMMA NextRefines ==
  ASSUME AtomicAssumptions, Inv, Inv', [Next]_vars PROVE [Replace!Next]_(Replace!vars)
<1>1. CASE UNCHANGED vars
  BY <1>1 DEF vars, files, locals, Replace!vars, Shown, UnderWay, Version, Whole
<1>2. CASE Crash
  BY <1>2, CrashRefines DEF Replace!Next
<1>3. ASSUME NEW s \in Savers, Begin(s) PROVE Replace!Next
  BY <1>3, BeginRefines DEF Replace!Next
<1>4. ASSUME NEW s \in Savers, Step(s) PROVE [Replace!Next]_(Replace!vars)
  BY <1>4, StepRefines
<1> QED
  BY <1>1, <1>2, <1>3, <1>4 DEF Next

LEMMA InitRefines == ASSUME AtomicAssumptions, Init PROVE Replace!Init
BY DEF Init, Replace!Init, Shown, UnderWay

\* Saving is atomic for every number of threads, writes and failures.
THEOREM AtomicSaves == AtomicAssumptions /\ Spec => ReplacesAtomically
<1> SUFFICES ASSUME AtomicAssumptions PROVE Spec => ReplacesAtomically
  OBVIOUS
<1>1. Init => Inv /\ Replace!Init
  BY InitInv, InitRefines
<1>2. Inv /\ [Next]_vars => Inv'
  BY NextInv
<1>3. Inv /\ Inv' /\ [Next]_vars => [Replace!Next]_(Replace!vars)
  BY NextRefines
<1> QED
  BY <1>1, <1>2, <1>3, PTL DEF Spec, ReplacesAtomically, Replace!Spec

-----------------------------------------------------------------------------
\* Until a process dies or a removal is refused, every temporary is named by
\* a thread under way; and an exception costs a fault, so that a removal that
\* is refused is never the first.
Counts == faults \in Nat /\ crashes \in Nat

FaultsPaid == \A s \in Savers : pc[s] = "cleaning" \/ (pc[s] = "writing" /\ bad[s]) => faults >= 1

Owned(n) == \E s \in Savers : Named(s) /\ temporary[s] = n

NamesOwned == crashes = 0 /\ faults <= 1 => \A n \in DOMAIN names : Owned(n)

StrayInv == Inv /\ Counts /\ FaultsPaid /\ NamesOwned

\* A step in which no thread but s moves, and s keeps its name if it has one:
\* what was named stays owned, and nothing but the name of s is new.
LEMMA OwnersStay ==
  ASSUME Counts, Counts', NamesOwned, NEW s \in Savers,
         faults' >= faults, crashes' = crashes,
         \A t \in Savers \ {s} : pc'[t] = pc[t] /\ temporary'[t] = temporary[t],
         Named(s) => Named(s)' /\ temporary'[s] = temporary[s],
         \A n \in DOMAIN names' \ DOMAIN names : Named(s)' /\ temporary'[s] = n
  PROVE  NamesOwned'
<1> SUFFICES ASSUME crashes' = 0, faults' <= 1, NEW n \in DOMAIN names' PROVE Owned(n)'
  BY DEF NamesOwned
<1>1. CASE n \notin DOMAIN names
  BY <1>1 DEF Owned
<1>2. CASE n \in DOMAIN names
  <2>1. faults <= 1
    BY DEF Counts
  <2>2. PICK t \in Savers : Named(t) /\ temporary[t] = n
    BY <1>2, <2>1 DEF NamesOwned, Owned
  <2>3. Named(t)' /\ temporary'[t] = n
    BY <2>2 DEF Named
  <2> QED
    BY <2>3 DEF Owned
<1> QED
  BY <1>1, <1>2

\* A step in which s ends with its name gone.
LEMMA OwnerLeaves ==
  ASSUME Counts, Counts', NamesOwned, NEW s \in Savers,
         faults' >= faults, crashes' = crashes,
         \A t \in Savers \ {s} : pc'[t] = pc[t] /\ temporary'[t] = temporary[t],
         RemoveName(temporary[s])
  PROVE  NamesOwned'
<1> SUFFICES ASSUME crashes' = 0, faults' <= 1, NEW n \in DOMAIN names' PROVE Owned(n)'
  BY DEF NamesOwned
<1>1. n \in DOMAIN names /\ n # temporary[s] /\ faults <= 1
  BY DEF RemoveName, Counts
<1>2. PICK t \in Savers : Named(t) /\ temporary[t] = n
  BY <1>1 DEF NamesOwned, Owned
<1>3. t # s /\ Named(t)' /\ temporary'[t] = n
  BY <1>1, <1>2 DEF Named
<1> QED
  BY <1>3 DEF Owned

LEMMA CountsNext == ASSUME Counts, [Next]_vars PROVE Counts' /\ faults' >= faults
<1>1. ASSUME NEW s \in Savers, Begin(s) \/ Step(s)
      PROVE  crashes' = crashes /\ (faults' = faults \/ faults' = faults + 1)
  <2>1. CASE Begin(s) \/ TryName(s) \/ NamesExhausted(s) \/ Open(s)
    BY <2>1 DEF Begin, TryName, NamesExhausted, Open
  <2>2. CASE Write(s) \/ WriterThrows(s)
    BY <2>2 DEF Write, WriterThrows, Fault
  <2>3. CASE FlushAndClose(s) \/ Rename(s) \/ Cleanup(s)
    BY <2>3 DEF FlushAndClose, Rename, Cleanup, Fault
  <2> QED
    BY <1>1, <2>1, <2>2, <2>3 DEF Step
<1>2. CASE Crash
  BY <1>2 DEF Crash, Counts
<1>3. CASE UNCHANGED vars
  BY <1>3 DEF vars, Counts
<1> QED
  BY <1>1, <1>2, <1>3 DEF Next, Counts

LEMMA StepOwned == ASSUME Inv, Counts, Counts', NamesOwned, FaultsPaid,
                          NEW s \in Savers, Begin(s) \/ Step(s), faults' >= faults
                   PROVE  NamesOwned' /\ FaultsPaid'
<1> USE DEF Inv
<1>0. crashes' = crashes
  BY DEF Begin, Step, TryName, NamesExhausted, Open, Write, WriterThrows, FlushAndClose, Rename,
         Cleanup
<1>1. CASE Begin(s)
  <2>1. /\ names' = names /\ temporary' = temporary /\ bad' = bad /\ faults' = faults
        /\ pc[s] = "idle" /\ pc' = [pc EXCEPT ![s] = "naming"]
    BY <1>1 DEF Begin, Goto, files
  <2>2. NamesOwned'
    BY <1>0, <2>1, OwnersStay DEF Types, Named
  <2> QED
    BY <2>1, <2>2 DEF FaultsPaid, Types
<1>2. CASE TryName(s)
  <2>1. names' = names /\ bad' = bad /\ faults' = faults /\ pc[s] = "naming"
    BY <1>2 DEF TryName, files
  <2>2. \A t \in Savers \ {s} : pc'[t] = pc[t] /\ temporary'[t] = temporary[t]
    BY <1>2 DEF TryName, Goto, Types
  <2>3. pc'[s] \in {"naming", "opening"}
    BY <1>2 DEF TryName, Goto, Types
  <2>4. NamesOwned'
    BY <1>0, <2>1, <2>2, OwnersStay DEF Named
  <2> QED
    BY <2>1, <2>2, <2>3, <2>4 DEF FaultsPaid
<1>3. CASE NamesExhausted(s)
  <2>1. /\ names' = names /\ temporary' = temporary /\ bad' = bad /\ faults' = faults
        /\ pc[s] = "naming" /\ pc' = [pc EXCEPT ![s] = "idle"]
    BY <1>3 DEF NamesExhausted, Goto, files
  <2>2. NamesOwned'
    BY <1>0, <2>1, OwnersStay DEF Types, Named
  <2> QED
    BY <2>1, <2>2 DEF FaultsPaid, Types
<1>4. CASE Open(s)
  <2>1. /\ DOMAIN names' = DOMAIN names \cup {temporary[s]} /\ temporary' = temporary
        /\ bad' = [bad EXCEPT ![s] = FALSE] /\ faults' = faults
        /\ pc[s] = "opening" /\ pc' = [pc EXCEPT ![s] = "writing"]
    BY <1>4 DEF Open, Goto
  <2>2. NamesOwned'
    BY <1>0, <2>1, OwnersStay DEF Types, Named
  <2> QED
    BY <2>1, <2>2 DEF FaultsPaid, Types
<1>5. CASE Write(s)
  <2>1. names' = names /\ temporary' = temporary /\ pc' = pc
    BY <1>5 DEF Write
  <2>2. NamesOwned'
    BY <1>0, <2>1, OwnersStay DEF Types, Named
  <2>3. (bad' = bad /\ faults' = faults) \/ (faults' = faults + 1 /\ bad' = [bad EXCEPT ![s] = TRUE])
    BY <1>5 DEF Write, Fault
  <2> QED
    BY <2>1, <2>2, <2>3 DEF FaultsPaid, Types, Counts
<1>6. CASE WriterThrows(s)
  <2>1. /\ names' = names /\ temporary' = temporary /\ bad' = bad /\ faults' = faults + 1
        /\ pc' = [pc EXCEPT ![s] = "cleaning"]
    BY <1>6 DEF WriterThrows, Throw, Goto, Fault, files
  <2>2. NamesOwned'
    BY <1>0, <2>1, OwnersStay DEF Types, Named
  <2> QED
    BY <2>1, <2>2 DEF FaultsPaid, Types, Counts
<1>7. CASE FlushAndClose(s)
  <2>1. /\ names' = names /\ temporary' = temporary /\ bad' = bad /\ pc[s] = "writing"
        /\ \/ pc' = [pc EXCEPT ![s] = "replacing"]
           \/ pc' = [pc EXCEPT ![s] = "cleaning"] /\ (bad[s] \/ faults' = faults + 1)
    BY <1>7 DEF FlushAndClose, Throw, Goto, Fault, files
  <2>2. NamesOwned'
    BY <1>0, <2>1, OwnersStay DEF Types, Named
  <2>3. CASE pc' = [pc EXCEPT ![s] = "replacing"]
    BY <2>1, <2>2, <2>3 DEF FaultsPaid, Types, Counts
  <2>4. CASE pc' = [pc EXCEPT ![s] = "cleaning"] /\ (bad[s] \/ faults' = faults + 1)
    <3>1. faults' >= 1
      BY <2>1, <2>4 DEF FaultsPaid, Counts
    <3> QED
      BY <2>1, <2>2, <2>4, <3>1 DEF FaultsPaid, Types, Counts
  <2> QED
    BY <2>1, <2>3, <2>4
<1>8. CASE Rename(s)
  <2>1. temporary[s] \in DOMAIN names /\ pc[s] = "replacing" /\ temporary' = temporary /\ bad' = bad
    BY <1>8 DEF Rename, OwnFiles, OwnFile
  <2>2. CASE RemoveName(temporary[s]) /\ Goto(s, "idle") /\ UNCHANGED faults
    <3>1. NamesOwned'
      BY <1>0, <2>1, <2>2, OwnerLeaves DEF Goto, Types
    <3> QED
      BY <2>1, <2>2, <3>1 DEF FaultsPaid, Goto, Types
  <2>3. CASE Fault /\ Throw(s) /\ UNCHANGED names
    <3>1. NamesOwned'
      BY <1>0, <2>1, <2>3, OwnersStay DEF Throw, Goto, Types, Named
    <3> QED
      BY <2>1, <2>3, <3>1 DEF FaultsPaid, Fault, Throw, Goto, Types, Counts
  <2> QED
    BY <1>8, <2>1, <2>2, <2>3 DEF Rename
<1>9. CASE Cleanup(s)
  <2>1. pc[s] = "cleaning" /\ faults >= 1 /\ temporary' = temporary /\ bad' = bad /\ Goto(s, "idle")
    BY <1>9 DEF Cleanup, FaultsPaid
  <2>2. ASSUME RemoveName(temporary[s]) PROVE NamesOwned'
    BY <1>0, <2>1, <2>2, OwnerLeaves DEF Goto, Types
  <2>3. ASSUME Fault PROVE NamesOwned'
    <3>1. ~(faults' <= 1)
      BY <2>1, <2>3 DEF Fault, Counts
    <3> QED
      BY <3>1 DEF NamesOwned
  <2>4. FaultsPaid'
    BY <2>1 DEF FaultsPaid, Goto, Types, Counts
  <2> QED
    BY <1>9, <2>2, <2>3, <2>4 DEF Cleanup
<1> QED
  BY <1>1, <1>2, <1>3, <1>4, <1>5, <1>6, <1>7, <1>8, <1>9 DEF Step

LEMMA StrayInvNext == ASSUME AtomicAssumptions, StrayInv, [Next]_vars PROVE StrayInv'
<1>1. Inv' /\ Counts' /\ faults' >= faults
  BY NextInv, CountsNext DEF StrayInv
<1>2. ASSUME NEW s \in Savers, Begin(s) \/ Step(s) PROVE NamesOwned' /\ FaultsPaid'
  BY <1>1, <1>2, StepOwned DEF StrayInv
<1>3. CASE Crash
  <2>1. crashes' # 0
    BY <1>3 DEF Crash, StrayInv, Counts
  <2>2. NamesOwned'
    BY <2>1 DEF NamesOwned
  <2>3. FaultsPaid'
    BY <1>3 DEF Crash, FaultsPaid
  <2> QED
    BY <1>1, <2>2, <2>3 DEF StrayInv
<1>4. CASE UNCHANGED vars
  BY <1>1, <1>4 DEF vars, files, locals, StrayInv, NamesOwned, Owned, Named, FaultsPaid
<1> QED
  BY <1>1, <1>2, <1>3, <1>4 DEF Next, StrayInv

\* No temporary outlives the save that made it, for every number of threads
\* and writes, unless the process died or the system refused to remove one.
THEOREM NoStraysRemain == AtomicAssumptions /\ Spec => []NoStrays
<1> SUFFICES ASSUME AtomicAssumptions PROVE Spec => []NoStrays
  OBVIOUS
<1>1. Init => StrayInv
  <2> SUFFICES ASSUME Init PROVE StrayInv
    OBVIOUS
  <2>1. Inv
    BY InitInv
  <2>2. Counts /\ FaultsPaid /\ NamesOwned
    BY DEF Init, Counts, FaultsPaid, NamesOwned
  <2> QED
    BY <2>1, <2>2 DEF StrayInv
<1>2. StrayInv /\ [Next]_vars => StrayInv'
  BY StrayInvNext
<1>3. StrayInv => NoStrays
  BY DEF StrayInv, NamesOwned, Owned, Named, NoStrays
<1> QED
  BY <1>1, <1>2, <1>3, PTL DEF Spec
=============================================================================

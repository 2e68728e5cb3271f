----------------------------- MODULE AtomicFile -----------------------------
(***************************************************************************)
(* Saving a package to a path: a sibling temporary is named, opened,       *)
(* written, flushed and closed, and renamed over the destination           *)
(* (Packaging/AtomicFile.h with the writer ZipArchive::save passes it).    *)
(* Savers are threads of one process that save to the same path.  A name   *)
(* and the file it names are kept apart, as the file system does: a thread *)
(* that has a file open goes on writing to it after a rename.  Every       *)
(* system call may fail, and the process may die between any two of them.  *)
(***************************************************************************)
EXTENDS Naturals, Sequences, FiniteSets

CONSTANTS
  Savers,       \* threads that save
  Instants,     \* what the steady clock can read when a save begins
  Mix(_, _),    \* sequence ^ clock
  Attempts,     \* names tried before giving up (64)
  Chunks,       \* writes that make a whole package
  NoFile,
  MaxSaves, MaxFaults, MaxCrashes   \* bounds of the instance

ASSUME ChunksAssumption == Chunks \in Nat \ {0}
ASSUME AttemptsAssumption == Attempts \in Nat \ {0}
VARIABLES
  disk,        \* file -> its chunks, each the version that wrote it
  names,       \* temporary name -> the file it names
  destination, \* the file the path names, or NoFile
  sequence,    \* the process-wide counter of siblingTemporaryPath
  pc,          \* saver -> next step
  clock,       \* saver -> the clock reading of its save
  attempt,     \* saver -> names tried
  temporary,   \* saver -> the name it chose
  handle,      \* saver -> the file its stream has open
  position,    \* saver -> chunks written
  bad,         \* saver -> the stream's failure bit
  saves,       \* saver -> saves begun
  outcome,     \* saver -> how its last save ended
  faults, crashes

files == <<disk, names, destination>>
locals == <<pc, clock, attempt, temporary, handle, position, bad, saves, outcome>>
vars == <<files, sequence, locals, faults, crashes>>

\* What saver s saves: its n-th package.  It also stands for the file a save creates.
Version(s) == <<s, saves[s]>>

Hole == <<>>

Whole(v) == [i \in 1 .. Chunks |-> v]

Init ==
  /\ disk = <<>> /\ names = <<>> /\ destination = NoFile
  /\ sequence = 0
  /\ pc = [s \in Savers |-> "idle"]
  /\ clock = [s \in Savers |-> CHOOSE c \in Instants : TRUE]
  /\ attempt = [s \in Savers |-> 0]
  /\ temporary = [s \in Savers |-> NoFile]
  /\ handle = [s \in Savers |-> NoFile]
  /\ position = [s \in Savers |-> 0]
  /\ bad = [s \in Savers |-> FALSE]
  /\ saves = [s \in Savers |-> 0]
  /\ outcome = [s \in Savers |-> "none"]
  /\ faults = 0 /\ crashes = 0

Goto(s, label) == pc' = [pc EXCEPT ![s] = label]

\* A call of the operating system fails.
Fault ==
  /\ faults < MaxFaults
  /\ faults' = faults + 1

Begin(s) ==
  /\ pc[s] = "idle"
  /\ saves[s] < MaxSaves
  /\ saves' = [saves EXCEPT ![s] = @ + 1]
  /\ \E c \in Instants : clock' = [clock EXCEPT ![s] = c]
  /\ attempt' = [attempt EXCEPT ![s] = 0]
  /\ outcome' = [outcome EXCEPT ![s] = "none"]
  /\ Goto(s, "naming")
  /\ UNCHANGED <<files, sequence, temporary, handle, position, bad, faults, crashes>>

\* Mutant: the loop looks at the same name again.
TryNameAgain(s) ==
  LET candidate == <<Mix(sequence, clock[s]), attempt[s]>> IN
  /\ pc[s] = "naming"
  /\ attempt[s] < Attempts
  /\ candidate \notin DOMAIN names
  /\ temporary' = [temporary EXCEPT ![s] = candidate]
  /\ sequence' = sequence + 1
  /\ Goto(s, "opening")
  /\ UNCHANGED <<files, attempt, clock, handle, position, bad, saves, outcome, faults, crashes>>

\* One round of the loop of siblingTemporaryPath: the name is the counter
\* mixed with the clock and the attempt, and it is taken when no file has it.
TryName(s) ==
  LET candidate == <<Mix(sequence, clock[s]), attempt[s]>> IN
  /\ pc[s] = "naming"
  /\ attempt[s] < Attempts
  /\ sequence' = sequence + 1
  /\ IF candidate \in DOMAIN names
       THEN /\ attempt' = [attempt EXCEPT ![s] = @ + 1]
            /\ UNCHANGED <<pc, temporary>>
       ELSE /\ temporary' = [temporary EXCEPT ![s] = candidate]
            /\ Goto(s, "opening")
            /\ UNCHANGED attempt
  /\ UNCHANGED <<files, clock, handle, position, bad, saves, outcome, faults, crashes>>

\* Thrown before the try block: there is nothing to remove.
NamesExhausted(s) ==
  /\ pc[s] = "naming" /\ attempt[s] = Attempts
  /\ outcome' = [outcome EXCEPT ![s] = "threw"]
  /\ Goto(s, "idle")
  /\ UNCHANGED <<files, sequence, clock, attempt, temporary, handle, position, bad, saves,
                 faults, crashes>>

\* The stream is opened with trunc: it creates the file, or empties the one
\* that meanwhile has the name.
Open(s) ==
  LET file == IF temporary[s] \in DOMAIN names THEN names[temporary[s]] ELSE Version(s) IN
  /\ pc[s] = "opening"
  /\ disk' = [f \in DOMAIN disk \cup {file} |-> IF f = file THEN <<>> ELSE disk[f]]
  /\ names' = [n \in DOMAIN names \cup {temporary[s]} |->
                 IF n = temporary[s] THEN file ELSE names[n]]
  /\ handle' = [handle EXCEPT ![s] = file]
  /\ position' = [position EXCEPT ![s] = 0]
  /\ bad' = [bad EXCEPT ![s] = FALSE]
  /\ Goto(s, "writing")
  /\ UNCHANGED <<destination, sequence, clock, attempt, temporary, saves, outcome,
                 faults, crashes>>

\* Chunk k of a file after version v wrote it.
Overwrite(content, k, v) ==
  [i \in 1 .. (IF Len(content) < k THEN k ELSE Len(content)) |->
     IF i = k THEN v ELSE IF i <= Len(content) THEN content[i] ELSE Hole]

\* saveToStream writes without looking at the stream: after a failure the
\* bit stays set and the remaining writes do nothing.
Write(s) ==
  /\ pc[s] = "writing" /\ position[s] < Chunks
  /\ position' = [position EXCEPT ![s] = @ + 1]
  /\ \/ /\ ~bad[s]
        /\ disk' = [disk EXCEPT ![handle[s]] = Overwrite(@, position[s] + 1, Version(s))]
        /\ UNCHANGED <<bad, faults>>
     \/ /\ ~bad[s] /\ Fault
        /\ bad' = [bad EXCEPT ![s] = TRUE]
        /\ UNCHANGED disk
     \/ bad[s] /\ UNCHANGED <<disk, bad, faults>>
  /\ UNCHANGED <<names, destination, sequence, pc, clock, attempt, temporary, handle, saves,
                 outcome, crashes>>

\* An exception inside the try block: cannot create, cancelled, a source that
\* cannot be read, the stream found bad, the rename refused.
Throw(s) == Goto(s, "cleaning") /\ handle' = [handle EXCEPT ![s] = NoFile]

WriterThrows(s) ==
  /\ pc[s] \in {"opening", "writing"}
  /\ Fault
  /\ Throw(s)
  /\ UNCHANGED <<files, sequence, clock, attempt, temporary, position, bad, saves, outcome,
                 crashes>>

\* Mutant: the stream is not tested before the rename.
FlushUntested(s) ==
  /\ pc[s] = "writing" /\ position[s] = Chunks
  /\ Goto(s, "replacing")
  /\ handle' = [handle EXCEPT ![s] = NoFile]
  /\ UNCHANGED <<files, sequence, clock, attempt, temporary, position, bad, saves, outcome,
                 faults, crashes>>

\* flush, the test of the stream, close, the test of the stream.
FlushAndClose(s) ==
  /\ pc[s] = "writing" /\ position[s] = Chunks
  /\ \/ /\ ~bad[s]
        /\ Goto(s, "replacing")
        /\ handle' = [handle EXCEPT ![s] = NoFile]
        /\ UNCHANGED faults
     \/ bad[s] /\ Throw(s) /\ UNCHANGED faults
     \/ ~bad[s] /\ Fault /\ Throw(s)
  /\ UNCHANGED <<files, sequence, clock, attempt, temporary, position, bad, saves, outcome,
                 crashes>>

RemoveName(n) == names' = [m \in DOMAIN names \ {n} |-> names[m]]

\* rename(temporary, destination): refused when the name is gone.
Rename(s) ==
  /\ pc[s] = "replacing"
  /\ \/ /\ temporary[s] \in DOMAIN names
        /\ destination' = names[temporary[s]]
        /\ RemoveName(temporary[s])
        /\ outcome' = [outcome EXCEPT ![s] = "saved"]
        /\ Goto(s, "idle")
        /\ UNCHANGED <<handle, faults>>
     \/ /\ temporary[s] \notin DOMAIN names
        /\ Throw(s)
        /\ UNCHANGED <<names, destination, outcome, faults>>
     \/ /\ Fault
        /\ Throw(s)
        /\ UNCHANGED <<names, destination, outcome>>
  /\ UNCHANGED <<disk, sequence, clock, attempt, temporary, position, bad, saves, crashes>>

\* Mutant: the exception leaves the temporary where it is.
CleanupMissing(s) ==
  /\ pc[s] = "cleaning"
  /\ outcome' = [outcome EXCEPT ![s] = "threw"]
  /\ Goto(s, "idle")
  /\ UNCHANGED <<files, sequence, clock, attempt, temporary, handle, position, bad, saves,
                 faults, crashes>>

\* The catch block removes the temporary, ignores an error of doing so, and rethrows.
Cleanup(s) ==
  /\ pc[s] = "cleaning"
  /\ \/ RemoveName(temporary[s]) /\ UNCHANGED faults
     \/ Fault /\ UNCHANGED names
  /\ outcome' = [outcome EXCEPT ![s] = "threw"]
  /\ Goto(s, "idle")
  /\ UNCHANGED <<disk, destination, sequence, clock, attempt, temporary, handle, position, bad,
                 saves, crashes>>

\* The process dies and is started again: the files stay as they are, the
\* counter starts from zero.
Crash ==
  /\ crashes < MaxCrashes
  /\ crashes' = crashes + 1
  /\ sequence' = 0
  /\ pc' = [s \in Savers |-> "idle"]
  /\ handle' = [s \in Savers |-> NoFile]
  /\ outcome' = [s \in Savers |-> "none"]
  /\ UNCHANGED <<files, clock, attempt, temporary, position, bad, saves, faults>>

Step(s) ==
  \/ TryName(s) \/ NamesExhausted(s) \/ Open(s) \/ Write(s) \/ WriterThrows(s)
  \/ FlushAndClose(s) \/ Rename(s) \/ Cleanup(s)

Next == Crash \/ \E s \in Savers : Begin(s) \/ Step(s)

\* A thread that is saving goes on; nothing obliges it to begin a save.
Spec == Init /\ [][Next]_vars /\ \A s \in Savers : WF_vars(Step(s))

-----------------------------------------------------------------------------
\* The path never shows anything but one complete version, it changes at the
\* moment the save that wrote that version succeeds, and a save that throws or
\* dies leaves it alone (atomicWriteFile and the stream tests of ZipArchive::save).
Torn == Hole

SavedVersions(s) == {s} \X (1 .. MaxSaves)

\* The version the path shows, and the version each thread is saving.
Shown ==
  IF destination = NoFile THEN NoFile
  ELSE IF \E v \in Savers \X (1 .. MaxSaves) : disk[destination] = Whole(v)
    THEN disk[destination][1] ELSE Torn

UnderWay == [s \in Savers |-> IF pc[s] = "idle" THEN NoFile ELSE Version(s)]

Replace == INSTANCE AtomicReplace WITH
  Versions <- SavedVersions,
  destination <- Shown,
  saving <- UnderWay,
  outcome <- outcome

ReplacesAtomically == Replace!Spec

\* A temporary is left behind only by a process that died or by a removal the
\* system refused: otherwise every one belongs to a save under way (the catch
\* block of atomicWriteFile).  One fault is what makes a save throw, so that a
\* refused removal is a second one.
NoStrays ==
  crashes = 0 /\ faults <= 1 =>
    \A n \in DOMAIN names : \E s \in Savers : pc[s] # "idle" /\ temporary[s] = n

\* Every save ends, with a whole file or with an exception, whatever fails:
\* the search for a name gives up after its attempts.
SavesEnd == \A s \in Savers : pc[s] # "idle" ~> pc[s] = "idle"
=============================================================================

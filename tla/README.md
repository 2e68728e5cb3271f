# XLPP: a verification project

XLPP is a C++ library that reads, edits and writes spreadsheet workbooks. It keeps an object model of
the workbook beside the package the workbook was loaded from, and saves by a mixture of writing the
model and copying or patching what was loaded. Most of what can go wrong lies there: in indices that
are kept in step by hand, in flags that say which of two writers a save uses, in edits that are recorded
at one time and applied at another, in references that must follow the lines an edit moves, and in
values that are cached and must be known to be stale. This project models those parts in TLA+, checks
the models with TLC, and proves the invariants of the core with TLAPS.

Paths below are relative to the repository: `Workbook.cpp` is `src/XLPP/Workbook/Workbook.cpp`,
`Worksheet.h` is `include/XLPP/Worksheet/Worksheet.h`, and so on. `PROJECT.json` maps every
definition to the lines it stands for, and lists components, runs, mutants, hazards and theorems.

    tlc -config MCTabsEditing.cfg MCWorkbookTabs.tla      # one run
    tlapm WorkbookTabsProofs.tla                          # the proofs of one module

## 1. The system

| Component | State | Operations | Hard behaviour | Correct when | Modelled in |
|---|---|---|---|---|---|
| Workbook sheet model (`Workbook.cpp`, `WorkbookSheetOperations.cpp`) | `sheets_`, `chartsheets_`, `sheetOrder_`, active and first visible index, `definedNames_`, `slicers_`, source sheet names and parts | add, copy, rename, remove, move, hide, activate, name, slicer, print settings, save, load | four index spaces (worksheet, chartsheet, tab, source) kept in step by hand in every operation; lenient load goes on after an exception | every sheet has one tab; the active tab is visible and follows its sheet; what is keyed by a sheet stays with it; a reload shows what was saved | `WorkbookTabs` |
| Structural edits (`WorkbookStructuralEdit.cpp`, `WorksheetStructuralEdit.cpp`, `PivotStructuralEdit.cpp`) | snapshots of four members, the cancellation token | insert and delete rows and columns, cancel, roll back | an exception or cancellation at any checkpoint; eleven kinds of references rewritten by different code | an edit happens entirely or not at all; every reference follows its lines | `StructuralEdit`, `AtomicEdit` |
| Reference transformer (`ReferenceTransformer.cpp`) | none | shift, shrink and invalidate references | boundaries of ranges against the edited band and the end of the sheet | agrees with moving each line | `ReferenceShift` |
| Drawings and charts of a worksheet (`Worksheet.cpp`, `WorkbookChartEditing.cpp`, `WorkbookDrawingIO.cpp`) | images, charts, shapes, loaded counts, edit records, dirty flags, preserved parts and relationships | selective setters, add, remove, mutable access, save, load | edits recorded per object and replayed on the source; shared parts and relationships; ids and part numbers from different counters; flags cleared by save | a save shows the model; nothing that was not edited changes; the package stays well formed | `DrawingPreservation` |
| Chart parts (`WorkbookChartEditing.cpp`, `WorkbookChartReader.cpp`, `Worksheet.cpp`) | some thirty vectors of edit records beside the chart model; the text of the loaded part | some fifty setters, each changing the model and recording; save patches the text vector by vector | the order of the passes is not the order of the calls; an element is searched by its first tag, at any depth | a part saved and loaded shows what was set, and keeps the rest | `ChartText`, `ChartPatches`, `ChartReading`, `ChartEditing` |
| Calculation engine (`CalculationEngine.cpp`) | memo, stack, depth, error values, change tracking | calculate, write, track | cycles, the depth limit, nested contexts | the memo is what the formulas mean; a report tells the truth | `Calculation` |
| Chart caches (`WorkbookChartCache.cpp`) | cached points, tracked cells, formula dependencies | synchronise in full or incrementally, ask for recalculation | staleness through chains of formulas, several calls | no stale point is lost; recalculation is asked exactly when needed | `ChartCacheSync` |
| Thread pool (`Threading/ThreadPool.h`) | queue, stop flag, workers, futures | construct, enqueue, parallelFor, destroy | interleavings, spurious wakeups, exceptions of tasks, shutdown with tasks left | like the sequential loop; terminates; no task outlives the function it calls | `ThreadPool`, `ParallelFor` |
| Atomic output file (`AtomicFile.h`) | temporary and destination file | save | crash and failure between steps; two savers | the destination is the old file or a new one | `AtomicFile`, `AtomicReplace` |
| Streaming writer and reader (`StreamingWorkbookWriter.cpp`, `StreamingWorkbookReader.cpp`) | spool files, string table with eviction, `finished_`, `closed_` | add worksheet, append, close, destroy, read | failure in close and retry; indices across evictions | every cell reads back as written | `StreamingWriter` |
| Workbook save and load (`Workbook.cpp`, `WorkbookIO.cpp`, `WorkbookPackageReader.cpp`) | the package | write, read, lenient read | partial failure; flags cleared by a save | a reload restores the model | partly: `WorkbookTabs` (tab list, active tab, scoped names), `DrawingPreservation`, `PivotTables` |
| Pivot tables (`WorkbookPivot.cpp`, `WorkbookPivotRead.cpp`, `WorkbookPivotWrite.cpp`) | tables, caches shared by key, loaded count, dirty flags | add, touch, edit, patch an imported part, save, load | one cache in several models; a part patched as text and its mirror in every model | the saved file shows the models; models of one cache agree | `PivotModel`, `PivotXml`, `PivotPatches`, `PivotTables` |
| Relationship graph (`RelationshipGraph.cpp`, `WorkbookPartXml.cpp`) | none | build, validate, take inventory, compare; merge generated and preserved relationships | an object is shown only by a whole chain of elements and relationships | what no longer shows is reported; a valid package leads to all it holds | `PackageGraph`, partly `PivotTables` |
| VBA (`VbaProjectBinary.cpp`, `WorkbookVba.cpp`, `WorkbookUserForm.cpp`) | the project, or the bytes it was loaded from; code names; forms | modules, designers, forms, references, info, patches of form records, attach, save, load | bytes kept until a call rebuilds them; allocation tables that count themselves; splices into aligned records | the saved file read back holds what was asked; what nobody edited is kept | `CompoundFile`, `VbaProjectFile`, `UserForm`, `VbaProject` |
| ZIP archive (`ZipArchive.cpp`, `ZipArchiveReader.cpp`) | entries | add, save, open | a repeated part name is refused; the ZIP64 thresholds | offsets and sizes fit their fields | partly: `ZipArchive::add` in `DrawingPreservation` |
| Chartsheets, slicers | in the workbook | add, remove | as the sheets | as the sheets | partly: `WorkbookTabs` |
| Model validation (`WorkbookModelValidation.cpp`) | none | report errors | told apart by text | a structural edit adds no error | partly: `StructuralEdit` |
| Styles, worksheet serialisation, cells and rules, protection | values | setters, one-pass conversion | little control | - | not modelled: data, not behaviour |
| XML scanning, XLS and XLSB, encryption | bytes | parse, print | formats | - | not modelled: tests and fuzzing say more than a model of this size |
| Bindings, zlib | - | - | - | - | not modelled: thin wrappers; third party |

The parts call each other synchronously and share the `Workbook`. The only threads are those of the
thread pool, used while a save serialises worksheets and compresses entries, the bare threads of the row
writer, and whatever threads of a program save to one path. The only failures the code survives are
exceptions, and for files a crash; a failed save leaves the object model in use, which is why every model
lets work go on after one.

## 2. What is modelled

A module has one variable per piece of state and one action per public operation, or, where other
threads, a crash or a cancellation can come between, one per step. Indices count from 1. `Outcomes` is a
helper: the result of a call that may throw.

**WorkbookTabs.** Each variable is a member of `xlpp::Workbook`; one past the end stands for the code's
"no such tab". Names are a word and a spelling, so that "equivalent up to case" and "equal" differ.
`Reload` is a save followed by a load of what was written, which is sound because a load starts from an
empty workbook. `ReloadLenient` lets any set of tabs be unreadable: a worksheet loses its tab or, when only
its state is bad, everything but its tab; a chartsheet fails before or after it was added. Where the code
reads `sheetOrder_` past its end (in a removal, after another removal took the last visible tab) either
outcome may follow. Worksheets carry an identity (`id`) that the code does not have; it exists to say which
worksheet something belonged to. Cells, styles, formulas and the rewriting of references by a rename are
left out.

**StructuralEdit, ReferenceShift, AtomicEdit.** An edit is the sequence `Begin`, `ShiftStructure`,
`RewriteFormulas`, `RewriteNames`, `RewriteCharts`, `RewritePivots`, `SynchronizeCaches`,
`RequestRecalculation`, `Commit`, with a cancellation or an exception (`Abort`) possible between any two;
the snapshot is the four members the code copies. Every behaviour picks one axis; a sheet is the sequence
of its lines, each with an identity; a reference is the interval of lines it spans, and there is one of
every kind the code rewrites (formulas on both sheets, names, charts on both sheets, rules, merges, tables
with their columns, filters, pivot sources with fields and records, hyperlinks, anchors, dimensions). A chart
has one reference for categories, values and title, and none for error bars (section 5); each owner of a
pivot source has a cache of its own. That an edit changes nothing outside the four members of the snapshot
is read from the code: the models' state is inside them.
`ReferenceShift` is the transformer's interval arithmetic. `AtomicEdit` is the promise: `Insert`, `Delete`
or nothing, every reference covering what is left of its lines and the new lines between them
(`Follow`, stated by identities and without arithmetic). `AllOrNothing` is the refinement.

**Calculation.** `Calculate`, then one `Step` per reference the recursive evaluator reads: `calling` and
`operands` are its activations, `memo` is shared by the call. A worksheet is found whatever the case of its
name, but stack and memo compare the names as the formulas spell them: they hold keys, a spelling and a place,
and a cell has as many keys as its worksheet has spellings (`Names`). Formulas are a few shapes (a reference, a
sum, one that hides errors) that stand for the function library. `Meaning` is what a formula means, by
recursion over the depth, with no memo and no stack.

**ChartCacheSync.** `Write`, `SetFormula`, `Fetch`, `Calculate`, `ClearTracking` (a save) and
`Synchronize`, in full or incrementally, on one sheet and one series. `forgotten` is a history variable:
the changes that were cleared from the tracking without a synchronisation.

**ThreadPool, ParallelFor.** A caller and `NumWorkers` workers; the steps are those between which another
thread can run: test of the predicate under the lock, sleep, wakeup (also spurious), one call of the
function, completing a future, enqueue, notify, waiting for one future, leaving `parallelFor`, and the
three steps of the destructor. A task that throws stores its exception in its future and does not go on.
`ParallelFor` is the promise: a call applies the function to every index once, in any order, and then
returns, or throws what the sequential loop would have thrown. `LikeSequential` is the refinement.

**AtomicFile, AtomicReplace.** Savers are threads; names and the files they name are kept apart, as the
file system does, so that a thread goes on writing to a file another one renamed. Every call may fail and
the process may die between any two. The temporary's name mixes a clock with a process-wide counter by
`Mix`. `AtomicReplace` (`Begin`, `Commit`, `Fail`, `Crash`) is the promise; `ReplacesAtomically` is the
refinement.

**StreamingWriter.** Constructor, `AddWorksheet`, `AppendRow`, `Close`, `Saved`, `CloseFailed`, `Destroy`,
`Crash`, `NewWriter`, over spools and a string table in its three modes; `ReadBack` is what the reader
makes of the package. An append that meets a cell beyond the grid throws part-way: its strings are in the
table, its row is in the spool without an end tag, and the sheet goes on (`Spooled`). Saving is the step
`AtomicReplace` promises.

**DrawingPreservation.** One worksheet with its pictures, charts and shapes, between a load and the saves
after it. A package maps parts to contents and each drawing to its anchors and relationships. `Saved` is
what a save in the present state would write: `Patched` if the drawing is preserved (the edit records
replayed in the code's order, then the appended objects, with the code's choices of ids and part numbers),
otherwise `Regenerated`. `Save` only clears flags, exactly as `clearDirty` does: the package that was
written does not become the source. `Reload` makes it the source. XML, the arithmetic of anchors and
everything in a chart part but its title are left out.

**ChartText, ChartPatches, ChartReading, ChartEditing.** The text of a chart part as a sequence of tags
and texts; one operator per patch of `WorkbookChartEditing.cpp`, searching for tags as the code does; the
reader; and the calls, each changing the model and appending to its vector. A save runs the patches vector
after vector. `SavedShowsCalls` compares the reader's view of the patched text with the model.

**CompoundFile, VbaProjectFile, UserForm, VbaProject.** Sectors, allocation tables and directory of the
compound file; the streams of a project; the records of a form with their alignment; and the calls on a
workbook's project, with worksheets added and removed beside it.

**PackageGraph.** Parts, relationships and elements by resolved names; `Inventory`, `Validate` and
`ComparePackages`. `MCPackageGraph` damages a package with one object of each kind.

**PivotModel, PivotXml, PivotPatches, PivotTables.** The model's setters; the parts written from it and
read back; the patches of imported parts; and the workbook: `AddPivotTable`, `TouchPivotTables`,
`EditPivotTable`, `UpdateImportedPivot`, `AddWorksheet`, `Save`, `Load`. The package a save assembles is
handed to `PackageGraph`'s validation.

## 3. What is checked

Constants named `Max...` bound the counts and appear only in guards, but for `MaxKeyed`, the bound of the
action constraint `KeyedInOrder` of `tabs_editing`. Deadlock is checked in `tabs_editing` and
`thread_pool`; in the others the bounded calls run out, the behaviour ends or nobody has to call.

| Run | Bounds | What it shows |
|---|---|---|
| `tabs_editing` | `SpecLenient`; 3 tabs of which 1 chartsheet, 3 interchangeable words in 2 spellings, one hidden state; at most one scoped name, slicer, print setting or chartsheet without a tab, or a second spelling, at a time (slicers, print titles and spellings with two tabs); 27,846 states | `OrderComplete`: the tab order lists every worksheet once and every chartsheet at most once, and only a chartsheet that fails late in a lenient load is without a tab. `ActiveNeverHidden`, `FirstVisibleFresh`: the two cached indices that nine operations repair by hand are right. `ActiveFollowsTab`: the active tab is the same sheet after edits of the others. `SourceTracksSheet`: the source part save finds by a sheet's name is that sheet's. `ScopesFollowOwners`: a scoped name follows its worksheet. `ReloadRestoresTabs`: names, kinds, order, visibility, active tab and print areas survive saving and loading |
| `structural_edit` | sheets of 4 lines, edits of 1 or 2, 2 edits in a row, every interval for every reference, rollback on, sheet names spelled exactly; 99,212 states | `AllOrNothing`: the refinement of `AtomicEdit`. `ItemsFollowLines`: after any edits, table columns, pivot fields, criteria and dimensions are those of their lines. `UsesAndAnchorsFollow`: one edit takes uses of pivot fields, pivot records, panes and anchors with their lines and loses only deleted ones. `CachesFresh`, `StaleIsRecalculated`: no stale chart point and no stale result that is not recalculated |
| `calculation` | 3 cells on 2 sheets, one of which has two spellings; 7 formulas or none, depth limits 1, 2 and 6 | `RecursionBounded`: no key is twice on the stack, which stays within the limit. `MemoCorrect`: memo and cycle detection agree with what the formulas mean. `ReportTruthful`: a report without errors is of a consistent workbook. `Terminates` |
| `chart_caches` | 3 cells, 4 sets of references for each, 3 calls, depth limits 0 and 3 | `StalePointsAreTracked`, `RequestsExactlyForStale` |
| `thread_pool` | `FairSpec`; 3 workers, 2 calls, 4 ranges, 3 failing indices; 9,998 states | `LikeSequential`, `FnOutlivesTasks` (after a call that returns, nothing refers to the function), `Terminates` |
| `atomic_save` | 2 savers, 2 saves each, 2 names tried, 1 chunk, 2 faults, 2 crashes | `ReplacesAtomically`, `NoStrays`, `SavesEnd` |
| `streaming` | 2 sheets, 3 rows on a grid of 2 by 2, 4 rows to choose from of which one is too long, 2 writers, 1 fault, three modes, capacities 0 and 2; 4,901,592 states | `SavedReadsBack`: what a successful close saved reads back as appended; of a sheet that an append threw for, the rows before |
| `drawings` | `SpecOneKind` (edits of one kind of object between two loads); 1 added object, four loaded drawings, second generation of edits of a patched package with small numbers; 242,618 states | `SavedShowsObjects`, `UntouchedVerbatim` (an anchor no edit is for comes out unchanged), `PackageWellFormed` |
| `chart_editing` | every pair of calls about elements two passes share, on a combined chart, and all pairs on a bare one; 19,589 states | `SavedShowsCalls`, `UntouchedKept`, `SavedWellFormed` |
| `vba` | 2 calls, 2 sheets, a compound file with sectors of 4, so that tables fill up; 2,544 states | `SavedShowsCalls`, `AttachedKept` (bytes nobody edited, signature included), `EditsKeepTheRest` |
| `package_graph` | 1 or 2 damages to one object of each kind; 21,952 states | `LostIsReported`, `ValidShowsEverything` |
| `pivot_tables` | 3 workbooks, 2 of 59 edits and 35 patches, additions, a save and a load; 37,272 states | `SavedShowsModels`, `SharedCachesSave`, `SavedPackageIsClosed` |

**Why the bounds are enough.** Three tabs give a tab before, at and after the one an operation is about,
and two kinds in three places every interleaving of the two index spaces; words and spellings are
symmetric, no operation orders names. Four lines hold a reference with lines before, inside and after a
band of two. Three cells make a chain, a cycle and a diamond, and depth limits below, at and above their
length; three workers a worker that finds the queue taken, one that never gets a task, and one asleep at
the stop. Two savers and one chunk let a rename come between any two steps of the other. Two calls are
what an order of two passes needs. What the bounds leave out is said in section 6.

**Limits of single runs.** In `tabs_editing` scoped names live only while the tabs are the worksheets in
order, and lenient loads are of packages without defined names; section 5 says what happens outside. In
`structural_edit` every reference starts on one interval. In `drawings` a drawing that is redrawn has at most two
objects and is loaded again after its save. In `streaming` spools do not fail silently, sheet names differ
and the date system is chosen first (`SpoolFaults`, `RepeatedNames`, `LateDateSystem`). In `vba` code names
are not issued twice (`Reissue`). In
`chart_editing` two calls about one element are made in the order of their vectors (`InOrder`), and captions
in `vba` keep their padded length. In `pivot_tables` only a load follows a save, and edits of a shared cache
set captions and number formats aside (`OwnNames`).

**Fairness.** `ThreadPool` assumes weak fairness of the caller and of each worker: the operating system
runs every thread that can run, and no mutex is held for ever; nothing is assumed of spurious wakeups, nor
of which sleeper a notification wakes. `Calculation` assumes it of `Step` and `AtomicFile` of each saver's
`Step`: a call that has begun goes on. Nobody is assumed to call anything, and no fault or crash to happen
or not to happen. The other modules assume nothing.

**Mutants.** Operators marked "Seeded fault" are wrong on purpose: put in the place of the
definition they precede, each makes TLC refute the property it is listed with. They show that the
properties look at the code's decisions and are not part of the specifications.

## 4. What is proved

`tlapm` proves these for every value of the constants, from the assumptions named in the modules; the
runs above check the same formulas on small instances.

| Module | Theorem | Statement |
|---|---|---|
| `WorkbookTabsProofs` | `TypesHold`, `ActiveTabIsVisible`, `FirstVisibleIsFresh` | `SpecLenient => []TypeOK`, `[]ActiveNeverHidden`, `[]FirstVisibleFresh` |
| | `TabOrderIsComplete`, `EverySheetIsATab` | `SpecLenient => OrderComplete`, `Spec => []EverySheetHasTab` |
| | `SourcePartsFollowSheets` | `SpecLenient => []SourceTracksSheet` |
| | `ActiveTabFollows`, `SavedTabsReload` | `SpecLenient => ActiveFollowsTab`, `SpecLenient => ReloadRestoresTabs` |
| | `ScopesStayWithOwners` | `SpecLenient /\ []ScopedInOrder => ScopesFollowOwners` |
| `StructuralEditProofs` | `ReferencesStayOnSheet` | `Spec => []TypeOK` |
| | `EditsAreAtomic` | `RollbackOnFailure /\ Spec => AllOrNothing`, the refinement of `AtomicEdit` |
| | `ItemsStayOnTheirLines`, `UsesFollowTheirLines` | `RollbackOnFailure /\ Spellings = {"exact"} /\ Spec => []ItemsFollowLines`, `=> UsesAndAnchorsFollow` |
| | `ChartPointsStayFresh`, `StaleResultsAreRecalculated` | `RollbackOnFailure /\ Spec => []CachesFresh`, `=> StaleIsRecalculated` |
| | seven theorems on the interval arithmetic | a rewritten reference is on the sheet or gone, covers exactly the surviving lines it covered, breaks only when none is left; lines and the ends of anchors keep their order; a deletion undoes an insertion |
| `ThreadPoolProofs` | `FunctionOutlivesTasks` | `Spec => []FnOutlivesTasks` |
| | `ImplementsParallelFor` | `Spec => LikeSequential`, the refinement of `ParallelFor` |
| `AtomicFileProofs` | `AtomicSaves` | `AtomicAssumptions /\ Spec => ReplacesAtomically`, the refinement of `AtomicReplace` |
| | `NoStraysRemain` | `AtomicAssumptions /\ Spec => []NoStrays` |
| `StreamingWriterProofs` | `StreamsReadBack` | `~SpoolFaults /\ ~RepeatedNames /\ ~LateDateSystem /\ Spec => []SavedReadsBack` |
| `CalculationProofs` | `RecursionIsBounded` | `Spec => []RecursionBounded` |
| | `MemoIsCorrect`, `ReportsAreTruthful` | `Qualified /\ Spec => []MemoCorrect`, `Qualified /\ Spec => []ReportTruthful` |
| `ChartCacheSyncProofs` | `ChartCachesFollow` | `Spec => []StalePointsAreTracked` |
| | `RequestsAreExact` | `Spec => RequestsExactlyForStale` |
| `DrawingPreservationProofs` | `UntouchedStaysVerbatim` | `Spec => []UntouchedVerbatim` |
| | `SavedPackageIsWellFormed` | `Spec => []PackageWellFormed` |

**Tabs** (assumptions `BoundsAssumption`, `VisibleAssumption`: visible is not a hidden state,
`NoneAssumption`). The invariant `IInv(K)` is the types, a tab order complete for the kinds `K` of sheets
(`Ordered`), a visible active tab and a fresh first visible index. It is inductive for both kinds without
lenient loads (`EverySheetIsATab`), and for worksheets alone with any of them; a lenient load preserves it
for both kinds unless a chartsheet fails late in it, which is `TabOrderIsComplete`. The parts need each other: a
removal finds the tab of a sheet only in a complete order; where the active index goes after a removal or
a hiding is read from the first visible index; and the additions, which do not touch the first visible
index, keep it right only because a fresh index is one past the end exactly when no tab is visible, so
that the new tab is where it points. `SourceTracksSheet` needs beside `IInv` that no two source parts have
one name (`NamesInv`): a rename finds the part by name. `ScopesFollowOwners` needs that a scoped name's
number is its owner's, and that identities are not shared (`ScopesInv`); both are inductive only in steps
that leave the worksheets the tabs in order while there are names, which is the hypothesis
`[]ScopedInOrder`. That hypothesis is about the behaviour and not about the constants: outside it the
property does not hold of the code (section 5). A save and a load renumber worksheets and chartsheets by
the order of the tabs; that the reader gives back the tabs rests on `AscendingInterval`, that the
only ascending enumeration of `1 .. N` is the identity, which is proved from injectivity and
not by induction. The layers of the argument are facts on sequences, facts on tab orders that do not
mention the workbook (`AppendLists`, `DroppedLists`, `MovedLists`, `ReadLists`), and one lemma per action.
The theorems but `EverySheetIsATab` are about `SpecLenient`, with loads that skip what they cannot read,
chartsheets that fail late included; `Spec` implies it (`SpecIsLenient`).

**Structural edits** (`LimitAssumption`, `BoundsAssumption`, and `RollbackOnFailure` where stated: with
the option off a failed edit stays half done, as its name says). `EditInv`: between edits the snapshot is
the workbook; during one the workbook is the snapshot with the passes so far done to it (`Halfway`), on a
grid whose lines have distinct identities below `fresh`. Under the refinement mapping a caller sees the
snapshot until `Commit`, so every other step stutters; that `Commit` is `Insert` or `Delete` of
`AtomicEdit` connects the arithmetic of `ReferenceShift` with the identities of `Follow`: the new grid is
the old one with new lines put in or without the deleted ones (`InsertedGrid`, `DeletedGrid`), and a
rewritten interval is the hull of the lines left of the old one. `ReportInv` adds what the passes have
counted: a reference whose lines changed is in a counted kind, chart points are rebuilt if charts are
counted, and otherwise the points were right already.

The items need an invariant of their own, `ItemsInv`. Between edits (`ItemsRight`) the columns of the table
are the lines of its range, criteria and dimensions hang on their line, and the fields of each pivot cache
are the columns of its source, with every use inside the list; during an edit (`ItemsHalfway`) each of them
is that of the snapshot moved by the pass that has been over it, or untouched. The ingredient that is easily
missed is that the filter's range is the table's, as it is from the start in this model, where all references
begin on one interval: an insertion that pushes the last column of both off the sheet is rejected because the
table then has too many columns (`WrongWidth`), and a filter by itself would not be. The argument has three layers: what `Put`
and `Cut` make of a sequence (`PutInto`, `CutOut`, `TailOfCut`; that the columns the model counts out of the
survivors are a cut, `EnumeratedIsCut`, is an argument on cardinalities); that these agree with what the grid
makes of the same lines (`TableFollows`, `RecordsFollow`, `PivotFollows`, `CriteriaMove`); and one lemma
per pass (`ShiftKeepsItems`, `PassKeepsItems`). `Spellings = {"exact"}` is needed: the code repairs a pivot cache
only where the source names the sheet in the workbook's own spelling (section 5). Of records the theorem
speaks per edit and not as an invariant, because an insertion may push empty rows off the sheet and their
records stay.

**Thread pool** (`PoolAssumption`). `IInv` says that a chunk has one task and an unfinished future of its
own (`TasksApart`), how often the function was called on each index of each chunk (`CallsCounted`), that
the chunks queued so far cover the range up to the next one (`Covered`), and what the caller knows of the
futures it has passed (`CallerWaits`). The chunk arithmetic (ceiling division, clipping to the end) is in
`Chunks`. The abstract loop is where the counts are; the step that matters is the caller's exit, which
must find every index called once, or throw for the least failing index.

**Atomic files** (`AtomicAssumptions`; `NoCollisions`: two values of the counter never give one name,
whatever the clock reads. The code mixes the two by exclusive or and does not ensure it, section 5).
`Inv`: threads hold different names, the file a thread writes has what it wrote, and the destination is a
whole version of an earlier save. `StrayInv` adds that every name on the disk is owned by a save under way
unless a removal was refused, and counts the faults.

**Streaming** (`RowsAssumption`, `GridAssumption`). `IInv`: every cached entry of the string table has the
index where the table has its text (`Faithful`); every row of a spool, up to the first append that threw,
shows the row appended, in the table as it is now; and no row, torn ones included, has an index that the
table has not (`SheetShows`). A row stays right because the table only grows (`Extends`), although the cache
forgets and a text then gets a second index. The induction along the cells of a row is over the natural
numbers. The three provisos are the cases of section 5 in which the package does not read back.

**Calculation** (`GridAssumption`, `NamesAssumption`: a worksheet's number is its own name and every
other name is a spelling of one of them; `FormulaAssumption`, `DepthAssumption`). The evaluator's bound needs
only that the stack is empty between calls. It speaks of keys: a cell may be on the stack once for every
spelling of its worksheet. The other two theorems are for `Qualified` formulas (or one
sheet): without it the memo depends on who asks first (section 5), so the properties do not hold. `CInv`
adds to the bound that each activation waits for the next one and has read no more than its
references (`Stack`); that, where the limit is deep enough, what an acyclic cell has read and what is
memoised of it is what its formula means (`MemoInv`); and that, until a circular reference is counted, a
memoised key not cut off and not stopped at an error is its formula over the memo (`PlainFull`), and no
set of such keys is a cycle (`Grounded`), so that a report without errors is of a consistent workbook
(`ReportInv`). The arguments on the way: a call that comes back to the stack closes a loop
(`LoopFound`), so a reported cycle is one, under whatever spellings it closes; cells off the cycles have a
longest chain, and a limit no lower than the number of keys of formula cells cuts none of them
(`LimitUnreached`, by counting); `Cyclic`, which the
model computes by iterating as often as there are cells, is a fixed point.

**Chart caches.** A cached point is fresh, tracked or forgotten whatever the search through the formulas
finds, because a cache it leaves alone has no tracked cell in its own range. `RequestsAreExact` is about the search
itself, for every sheet, its cycles included, where the depth limit is at least the number of cells. The
search is a recursive function over the depth left and the cells still to visit; the induction is on a
weight that falls in every call, the depth times one more than the number of cells, plus the cells of the
list. A hit gives a chain of formulas to a tracked cell, no longer than the cells not seen before; a miss
leaves a set of seen cells that contains the precedents of its members and no tracked cell. With the limit
below the number of cells the search misses chains a visit in another order would find (section 5).

**Drawings** (`SourcesAssumption`: in a loaded package a picture or chart of an owned drawing has an object
id and a relationship no other anchor of that drawing has, and a chart part one relationship; section 5 says
what happens to others. `LooksAssumption`: the sets of places, sizes and contents are not empty, which only
`OneKindIsSpec` needs, that the specification of the run takes steps of `Spec`). The theorems are about
edits of both kinds together. A save that patches is a fold over edits and added objects; what it keeps
is an invariant of the package under way, `Kept(out, done)`, when the edits of the objects in `done` have
been replayed: anchors and relationships of the other objects are as they were, a part of the source is
dropped or written again only for the object that has it for itself, every other relationship leads to a
new part, and a part is dropped with the one relationship that led to it. Each operation keeps it
(`MoveKeeps`, `RemovalKeeps`, `RetargetKeeps`, `WriteKeeps`, `AppendKeeps`); ids and part numbers are new
because the code takes them above every number in use. Over the steps of the worksheet `IInv` says that the
package is `Regular`, that the objects come from its anchors and that no two edits are for one object. That
a saved package is `Regular` again (`SavedIsRegular`) takes it across any number of saves and loads.

**Only model-checked**, and why. Liveness (`Terminates`, `SavesEnd`): fairness is beyond this prover.
Chart editing, VBA, packages and pivot tables rest on recursive operators over texts, trees and graphs, whose
induction theorems this prover cannot use; where a definition is a function over the natural numbers
(`Meaning`, the table after a row, the replay of edits) or on a well-founded order (the search through
formulas), the induction is done by hand, from the least element where a claim fails. `SavedShowsObjects` of
drawings compares multisets of what is shown, and needs of the fold not only what it leaves alone but all
that it does; it is not proved.

## 5. What the models show of the code

Where something the code or its documents say does not hold, the property is kept in its module, or a
constant lets the case in, and TLC shows the counterexample; no run is listed for these.

| Area | What happens |
|---|---|
| Tabs | `SomeTabVisible`: removing the only visible tab while hidden ones remain leaves a workbook that cannot be saved (`WorkbookSheetOperations.cpp:325`, errors `Workbook.cpp:1503`, `1800`), with an active index that the next removal reads through |
| | `ScopesShiftWithWorksheet`: removal drops and shifts scoped names by tab index, `addDefinedName` numbers them by worksheet (`WorkbookSheetOperations.cpp:306`, comment 301-302); after a lenient load they keep the file's number (`Workbook.cpp:2334`) |
| | `ReloadRestoresPrintTitles`: print titles are written by worksheet index and read by tab index (`Workbook.cpp:2063`) |
| | `SlicerPartsSaved`: a renamed or removed worksheet leaves its slicer a relationship to a part that is not written (`Workbook.cpp:1974`) |
| | `EverySheetHasTab`: a lenient load keeps a chartsheet that failed late without a tab (`Workbook.cpp:2399`); not modelled: a worksheet part that the archive cannot read puts the source parts of later worksheets out of step with their texts (`Workbook.cpp:2385-2387`) |
| Drawings | `AddedShapesSaved`: a shape added to a worksheet with a preserved drawing is never written (`Workbook.cpp:1851`, `Worksheet.h:143-144`) |
| | a worksheet with picture edits and chart edits cannot be saved, both passes add the drawing part (`WorkbookChartEditing.cpp:2981`) |
| | `ResaveUnchanged`: a picture erased through `images()` is gone from the first save and back in the second (`Workbook.cpp:1742`) |
| | replacing one of two pictures on one relationship replaces both (`WorkbookChartEditing.cpp:3084`); `NothingOrphaned`: removing both pictures on one part leaves the part (`:3076`) |
| Thread pool | when the function throws, `parallelFor` leaves while other workers still call it; the closure is a temporary of that call (`Workbook.cpp:505`, `ZipArchive.cpp:674`), destroyed before the pool's destructor waits. `FnOutlivesTasks` speaks of calls that return |
| Structural edits | formulas of other sheets are rewritten by `setFormula`, which resets their metadata (`Cell.h:152-154`); a moved error counts as new and rejects the edit (`StructuralEdit.h:55-57`); formulas on whole rows or columns do not ask for recalculation; pivot repair compares the sheet's spelling exactly (`Spellings`); charts of chartsheets are not rewritten; error bars of a series on another worksheet are passed over when its categories, values and title do not change (`WorkbookStructuralEdit.cpp:290`, 313-331; on the edited worksheet they are not, `WorksheetStructuralEdit.cpp:524`); a column inserted inside the source of a pivot table without cache fields always throws; repeated insertions generate equal column names; empty rows of a pivot source that an insertion pushes off the sheet leave their records in the cache (`PushedOff`; three edits in a row show it), and so do the criteria of a filter without a table on empty columns pushed off (`WorksheetStructuralEdit.cpp:268`) |
| Calculation | an unqualified reference is resolved on the sheet of the cell that asked, so a result depends on who asks first (`CalculationEngine.cpp:1191`, `MCUnqualified`); a cell reached under two spellings of its worksheet is evaluated, stacked and memoised once for each, and a cycle through both is found a turn later, after deeper recursion (`CalculationEngine.cpp:488`, `1180`; `Workbook.cpp:1388`): "no cell is twice on the stack" does not hold of the run's instance; `DiagnosticLeavesWorkbook`: a run that updates nothing tracks cells (`Calculation.h:22-23`); `CutIsReported`: IFERROR hides a depth cut; `iterativeCalculation`, `changedCells`, `recursiveDependencies` and `spillDynamicArrays` are not read by `calculate` (`docs/python/formulas.md:37`, `69-78`) |
| Chart caches | `EveryStaleFormulaIsRequested` (`Workbook.h:125-130`); `NearChangesFound`: the search marks cells visited at one depth and does not visit them again at a smaller one; a save clears the tracking without a synchronisation (`Workbook.h:117-119`) |
| Files | clock and counter of two processes can mix to one name, and two savers write one file (`docs/architecture.md:111`); a refused write to a spool is not noticed (`StreamingWorkbookWriter.cpp:148`, `SpoolFaults`); an append that throws part-way leaves its `<row>` open (`:83`, `:149`): the next row appended is read as part of it, and without a next one the reader throws; a crash leaves the temporary file (`AtomicFile.h:62`), so `NoStrays` ends with the process; two sheets of one name are accepted (`RepeatedNames`); the date system may change after a sheet was added (`LateDateSystem`); the reference `addWorksheet` returns dangles after the next (`docs/quickstart-cpp.md:167`); destroying an open writer publishes its file |
| Chart editing | two calls about one element made against the order of the vectors are applied in the order of the vectors, and the file then does not show the last of them (`WorkbookChartEditing.cpp:2834`, `InOrder`); a reference set after its cache leaves the old cache; a plain title after a rich one leaves the rich one; a series title and then its cache, error-bar lines and then their removal, a legend layout without a legend make the save throw; equal elements (two trendlines, two points) are told apart by their text, and the first is edited; blank axis settings are not removed; a missing element is put at the end of its owner, whatever the schema puts last there (`patchOrInsertValChild`, `WorkbookChartEditing.cpp:928-946`; `SavedWellFormed` looks at nesting and uniqueness and not at the schema's order); non-custom error bars hide the series' own values from the reader |
| VBA | a worksheet added after a removal inherits the removed one's source with its code name (`VbaProjectBinary.cpp:1107-1110`, `Workbook.cpp:2107`, `Reissue`); a user module with the next code name makes every save throw; modules or designers named as the project's own streams overwrite them; a caption edit does not realign the strings after it (`WorkbookVba.cpp:299-318`, comment `380-385`) |
| Packages | the comparison counts, so an object in the place of another is not seen; the validation rejects relationships that nothing reads, among them the printer settings of a worksheet (`RelationshipGraph.cpp:436-443`) |
| Pivot tables | editing a cache through one of two models that share it makes the save throw; if only captions differ, the first model's are written for both; after a save the flags are clear and the source is old, and a second save writes the original parts; databaseField and formula patches do not show in the model; a sheet name with `!` is split wrongly |

## 6. What is left

Not modelled of the modelled parts: error bars of charts in structural edits, and owners that share one
pivot cache there; the schema's order of the elements of a chart part; cell contents and styles of a reload;
group and text edits of drawings; chart style parts; a chartsheet's own flags; the closure of parts that a removal retires; the rendering
of a pivot report; the ZIP64 thresholds; the reader's threads.

The proof that would come next is `SavedShowsObjects`: the invariant of the pass, `Kept`, would have to say
also what the objects with edits and the added ones show in the package under way.

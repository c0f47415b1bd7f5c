# A model of lcfg-core

lcfg-core is a C library for the LCFG configuration system.  A host has a
*profile*: a set of *components*, each with *resources* (name, value, context,
priority), and two sets of *packages*.  Profiles come from XML, status files,
the environment or package lists; they are merged by *merge rules*, evaluated
against *contexts* that give every package and resource a priority, and written
to status files and a Berkeley DB.

The library is single threaded and has no messages.  What is hard in it is state
that is shared by reference counts, hash tables written by hand, loops that
merge one structure into another, and results that several steps have to agree
on.  One part is concurrent: the files of a context directory are changed by
several processes, under a lock that is itself a file, and every file the library
writes may be written by two processes at once, one of which stops half way.

## Inventory

| Component | State | Operations | What makes it correct |
| --- | --- | --- | --- |
| Package lists, `packages/list.c` | a linked list, merge rules | merge a package or a list, set rules, sort, print | one package for a key unless all are kept; pins and priorities hold in any order of arrival; derivations are not lost |
| Packages, `packages/package.c` | a record of strings, with derivation, prefix and priority | set, copy, add flags and contexts, write and read as a spec, an RPM file name, XML or lines for cpp, compare | a text is read back as what it says; one order of packages |
| Package sets, `packages/set.c` | hash table of lists, count of entries | the same by name, merge of sets, growth | it is a map: nothing is lost to a collision, a removal or growth; errors are reported |
| Component sets, `resources/components/set.c` | fixed hash table of shared components | insert, find or create, merge, transplant, load | a map; exact reference counts; loops leave nothing out |
| Components, `resources/components/component.c`, `reslist.c` | hash table of shared resource lists | merge a resource or component, clone, select, set rules, clear | copies are independent, exact reference counts, room in the table, results that say what happened |
| Resources, `resources/resource.c`, `mutate.c`, `templates.c` | a record of strings, with types and templates | set, validate, mutate, copy, format, parse | a value its type allows after any sequence of calls; text forms that are read back as they were; rooms of the right size |
| Tags, `resources/tags` | a doubly linked list of counted tags, an iterator | append, remove, replace, sort, combine, iterate | links both ways, exact reference counts, the order and uniqueness callers expect |
| Differences, `resources/diff.c`, `resources/components/diff.c`, `profile/diff.c` | lists of differences | compare two of each, quickly or fully, write a hold file | the differences turn one profile into the other; the quick look misses none; the hold file does not depend on hash order |
| Profiles, `profile/profile.c` | the sets and metadata | merge, transplant, load, store | composition of the above |
| Context files, `common/context/tools.c`, `list.c` | `.context`, `.active`, `.lockfile` in a directory that processes share | update the pending contexts under the lock, make them active | no update is lost; the lock is exclusive, yet a dead process does not stop the others; the answer says whether the file changed |
| Context expressions, `common/context/context.c`, `list.c`, `scanner.l`, `parser.y` | list of contexts | parse, evaluate | the priority of an expression |
| Derivations, `common/derivation` | counted lists of counted files with line numbers, a map of lists by hash | merge with copy on write, parse, format, look up | a union that no other holder sees; every structure is freed once; kept lengths are right |
| File updates, `utils/utils.c`, `bdb/write.c` | temporary and target file | print, compare, rename, set the time, clean up | readers see the old or the new contents, also after a crash |
| Containers and loaders, `packages/container.c`, `rpm.c`, `xml` | parser state, a child process | write and load files for updaterpms, lists of RPM files, Debian indexes; read profiles | a file loads as the packages it was written for, each with its own context and place |

They interact by calls.  A loader creates packages or resources and merges them
one by one; a profile merge calls `lcfgcompset_merge_components` and
`lcfgpkgset_merge_set`; a component set calls `lcfgcomponent_merge_component`
for a component it already has and shares the structure otherwise; both tables
hold lists to which the merge rules are copied when a list is created.
Structures are shared through `acquire` and `relinquish` only.  Processes
interact through the context directory: `lcfgcontext_update_pending` reads
`.context` and replaces it under the lock, `lcfgcontext_pending_to_active` copies
it to `.active` under no lock.

## The modules

### Packages

`PackageMerge` has the algorithm of `lcfgpkglist_merge_package` as operators: a
package is a record, `PlanFor` is the decision (prefix rules, identical packages,
keep all, replace, priority, in the order of the code), `Merged` the list after
it, `ChangeOf` the result, `Sorted` the stable sort.  Names, architectures,
versions and contexts are numbers in the order the comparisons of `package.c`
give; two records that differ only in `struct` are two C structures with the
same contents.

`PackageList` is one list: `MergePackage`, the loop of `lcfgpkglist_merge_list`
one package a step (`MergeList`, `MergeListStep`), `SetMergeRules`, and `Sort`,
which printing does on the way.

`PackageSet` is `packages/set.c`: `table` is the array of lists, with the linear
probe that stops at an empty bucket or at a list whose first package has the
name (`ProbeEnd`), `Place` what a merge stores or empties, `Resized` the growth,
which merges every stored package again under the rules of the moment: `WithTable`
is the loop over the old buckets and `WithList` that over the packages of one, so a
package may be ignored or refused the second time.  `exited` says that the growth called
`exit` because one was refused.  The merges of lists and sets are loops; `call` holds
the running one.  `holes` is history: the buckets that a removal has emptied since the
table was allocated, which a probe takes for its end.  `AllFindable` says that nothing
else hides a list.  `PackageMap` is what a caller may think of it: a function from
names to lists, of which all may be merged again when a new name comes in
(`MapRemerge`), and `ended`, if that was refused.  `ImplementsMap` is the refinement,
with the list that a lookup finds as the value of the map, for the steps before and
after which all lists are found.

`PackageText` has one package, in the manner of `ResourceText`: a text is a sequence
of pieces, a piece a character that the code looks for (`"-"`, `":"`, `"~"`) or a
word that it never looks into.  `ToSpec` and `FromSpec` are the three styles of a
spec, with `WalkForward` and `WalkBack` for the helpers that cut a field off an end;
`ToRpm` and `FromRpm` the names of RPM files, `ToXml` and `FromXml` the node of a
profile, `CppLines`, `Pragma` and `ParsePragma` the lines for cpp.  `Compare`
follows the order of the code, down to `DebVerCmp`, the comparison of versions that
is built without librpm.

`PackageFiles` reads packages from specs, copies and edits them (`pkgs`, of which
the last one is edited) and has the files as operators from lists to lines and back:
`RpmcfgLines` and `FromRpmcfg`, with `FromCpp` for the state the loader carries from
line to line, `RpmlistLines` and `FromRpmlist`, and `FromIndex`.  A package of a file
gets its derivation from the last pragma that had one, else from the line it is on
(`Completed`); one that cannot be read ends the load.  `AtMarker` is the line of `cpp`
that says where the next line comes from: a file name that is the beginning of the
last one is not taken.  So a package without a derivation comes back with that of its
neighbour or with a place in the wrong file: `Inherited` is what is expected of the
derivations, `PlacesRight` of the places.  `Cpp`, an index,
and what libxml accepts are external.  What a text cannot say is left out of the
properties by name: `SpecCanSay`, `RpmCanSay`, `IndexCanSay`, and `AsSaid` is what is
left of a package in a spec of a style.  `VersionKey` is the reference for the order: a version as
a sequence of numbers, compared place by place.

### Components

`ComponentSet` is `resources/components/set.c`: `slot` is the table of each set,
`refs` and `setRefs` the reference counts, `owned` the references callers have.
`MergeComponents`, `Transplant` and the loads of a directory or of the
environment run bucket by bucket (`MergeInto`, `ShareComponent`, `SkipBucket`,
`LoadComponent`, `FailLoad`).  The table never grows: `lcfgcompset_resize` is
called for a new set only, so `NoSpace` is a result that does occur.
`ComponentMap` is the abstract specification: each set is a map from names to
components that an insertion, a replacement or the end of the set changes.

`Component` is one level below: the lists of resources that components hold
under each name, and their reference counts.  `Select` is
`lcfgcomponent_select` and, for all names, `lcfgcomponent_clone`: the lists
become shared.  `MergeResource` writes in place or to a new list
(`MergeInPlace`, `MergeCopying`).  `lcfgcomponent_merge_component` is a loop over
the names of the second component and, for each, over a list: `StartList` takes
the list or a copy of it, `MergeNext` merges one resource, `EndList` stores or
discards the copy, `Return` ends it.  The order of names is that of their
hashes, so any order.  A resource list never becomes empty in a merge: the
branch that would remove such a list cannot be taken and has no counterpart.
`MCComponentHistory` adds what every component held when a call began.

`ComponentTable` has the numbers `Component` leaves out: entries, buckets, and
the length of the array that was really allocated.  `wanted` is history: how many
names `lcfgcomponent_clone` or `lcfgcomponent_select` counted the buckets for.

### Context files

`ContextList` has the list of contexts as it appears in a file: reading a file
(`FromFile`; comments disappear, a later line replaces an earlier one), applying
updates (`NewList`), comparing (`Diff`) and printing (`Printed`).  A line is a
name with a value, a comment, or malformed; a context with no value is a removal.

`ListPlaces` has the two things the code does to a whole list, for contexts and for
differences: a loop that keeps some of the entries in their order (`AtPlaces`), and
a stable sort (`SortedByKey`).  Both say which entry comes at place `k` by counting
those before it, so that a proof can count them too.

`ContextFiles` has the processes.  A member of `Updater` is one call of
`lcfgcontext_update_pending`, a member of `Activator` one of
`lcfgcontext_pending_to_active`, and every system call that another process can
see is a step:

* `Begin` returns at once when there are no updates; `Link` is `symlink` and, on
  later attempts, `link`; `Sleep` is the second between attempts and `BreakLock`
  the `unlink` when `patience`, the `timeout` of `lcfgcontext_lock`, is used up;
  `Load`, `Replace` and `Unlock` read the file, rename the new one over it and
  remove the lock.
* `OpenPending`, `StatPending`, `Compare`, `WriteActive` and `StampActive` are
  the activation.
* `Abandon`, `EndInError` and `ActivateFails` are the error paths: any system call
  may fail.  `CrashUpdater` and `CrashActivator` stop a process between two steps.  The
`stat` of `StatPending` and the `utime` of `StampActive` may also fail without
anybody noticing: the call goes on and answers as before.

`lock` is the call whose temporary file `.lockfile` links to.  Anybody may remove
it: the cleanup does so whether or not the call ever had the lock, and so does
a waiter.  The temporary files have unique names and are not modelled.  A
modification time is the number of a version, so finer than the seconds of the
code: two versions always differ.  The variables `outslept`, `serial`, `wrote`,
`seen` and `unstamped` are history that no step reads; a process that stops loses its local
variables, so they are reset.

### Resources

`ResourceText` has the values.  A text is a sequence of pieces: `"a"`, `"LF"`, a
quote, an entity, whatever the functions that read it tell apart, so that encoding
and parsing are what they do to the pieces and not the identity.  A resource is the
record of `include/resources.h`; every setter is an operator that gives the record
after it and whether it was accepted (`Granted`, `Refused`).  `ResourceMutate` is
`mutate.c`: append, prepend, add, replace and remove, on text and on the words in
it.  `ResourceFormat` has each text form twice, as the code has it: what is written
(`ToStatus`, `ToSummary`, `ToExport`, ...) and the room that was counted for it
(`StatusLength`, ...), as well as the readers.  `ResourceStore` has the keys and
values of the database, which is a function from keys to values here, and
`FromBdb`, which reads them in the order of `lcfgbdb_process_component`.

`Resource` is the state machine: `comp` is a component of a few resources, `env` the
variables it was exported to, `sent` what was exported last, `file` a status file.
The actions are the setters, the mutations, copies, and the ways out of and into a
component (`SaveStatus`, `LoadStatus`, `ToEnv`, `LoadEnv`).  What each text form
and the database give back is also checked in every state, by `RoundTrips`.

### Tags

`TagHeap` is the memory: nodes with `prev` and `next`, tags with reference counts,
lists with `head`, `tail` and `size`, and every function of `resources/tags/list.c`
as an operator from one memory to the next.  An address freed may be the next one
given out.  `TagList` makes actions of them, with `iter`, the iterator of
`iterator.c`, and `owned`, the references callers have.  A call is made only where
the model has memory for it (`Room`), and `Spare` nodes are kept for the results of
the set functions, so that two lists of several tags can be combined.  `asked` is
history, the label of the last call: its name and what it was given.  `TagSequences`
is what a caller may think of it: for each list a sequence of names, and a place in one
of them.  `After(h, c)` is what may be held after the call with label `c`, call by
call, so that an append which prepends is no step of it.  `ImplementsSequences` is the
refinement: `Walk` follows the links, and `PlaceOf` says where along them a node is.

### Derivations

`DerivationHeap` is the memory again: `drv` with a file, lines, a kept length and a
count, `list` with derivations, an identity and a count.  `MergeDerivation` has the
copy on write of `lcfgderivlist_merge_derivation`, `DrvListFromString` the parser
with its words that are half good, `PrintDrvList` sorts lines of what it prints
although it is passed as const.  `Derivation` has the holders, which are packages
or resources (`of`), with the copy on write one level up (`KeepIfChanged`), and the
map of a loader (`slots`, `entries`), which grows and is relinquished while packages
hold its lists.  `DerivationUnions` is the abstract specification: each holder says
a set of pairs of file and line, a merge unites two sets and a step changes one
holder only.

### Differences

`Differences` is a pure algorithm on two profiles, run in steps: `QuickDiff`,
`TakeDiff` with the bucket orders of either profile chosen freely, `WriteHold`
with its sort, and `Adopt`, after which the new profile is the old one.  A profile
is a function from names to components, a component a function from names to the
resources of a name, of which the code compares the first.

### File updates

`FileUpdate` has processes that each run one call at a time: a status directory
(one file after another), a list (with a modification time) or the database
(renamed without comparison).  A step is a system call that another process can
see, or a failure of it: `Open`, `WriteOut`, `Compare`, `Rename`, `Utime`,
`Cleanup`.  Every one may fail, the ones whose result the code drops included:
`fdopen` after `mkstemp` (the file stays), the close of the database, `utime` and
`unlink`.  `Crash` stops a process anywhere.  A temporary file that nobody will remove is
`litter`.  `held`, `torn` and, of a call, `passed` (the files for which it has
passed over a failure to write or to read), `unset` (to set the time) and `alone`
are history that no step reads.  The
lists, sets and diffs that are printed are opaque contents; what they say is the
business of the other modules.

### Properties

A run checks as few formulas as have something to say.  Where an invariant has
parts, the parts are named definitions above it: `WellFormed`, `LockSound`,
`ResourcesSound`, `ListsSound`, `HeapSound`, `FilesSound`, `SizesSound` and `DiffExact` include the
type invariant of the module, `RoundTrips` is one property for each way out of a component.

### Runs

| Run | Question | Bounds |
| --- | --- | --- |
| `PackageListRules` | do uniqueness, pins, derivations and priorities survive all merges, rule changes and sorts? | 8 packages: all prefixes, 2 versions, 2 priorities, 2 architectures; 6 sets of rules |
| `PackageSetMap` | is the table a map through collisions, removals and growth, what hides a list, and when does growing end the process? | 4 names and 6 packages, of which one removes another with colliding neighbours and two have one key; prefixes that count, or all kept; tables of 2, 5 and 9 buckets with collisions in the first two; at most 5 packages |
| `PackageFiles` | is a package that is written read back, is a file loaded as its packages, and is their order that of their versions? | 2 packages, 2 edits, 3 specs to start from; versions with an epoch, a tilde, hyphens, zeros in front; 3 contexts and their combinations; a derivation that cannot be read; a file that includes another before or behind its packages, under names of which one may be the beginning of the other |
| `ComponentSetShared` | are counts, lookups and loops right for two sets that share components? | 2 sets of 2 buckets, 4 components of 3 names: a set can be full; symmetric in the sets and in two components |
| `ComponentSharing` | does copy on write isolate components and free every list once? | 2 components, 2 names, 5 lists (one more than buckets), 3 resources, lists of at most 2 |
| `ComponentTableRoom` | is there always a free bucket, and when is the array too short for them? | default size 5 instead of 113, 25 entries, copies of up to 4 names, for which the default is too small |
| `ContextCalls` | do updates and an activation that overlap, fail or stop lose nothing, answer truly and return? | 3 updates and 1 activation; timeout 2 instead of 5; 1 crash or failure; 2 sets of updates, each in 3 directories: a pending file of one comment and no active file, one written by hand that says what the active file says, and an active file alone |
| `ResourceLife` | do values fit their types after every sequence of calls, is a component that is written read back, and are the rooms right? | 2 resources, 3 edits; 8 values: empty, of each type, words one of which begins another, entities, line ends, quotes; types with and without comment and template; names alone and followed by a value or by a key that is cut short |
| `FileWrites` | are files whole and answers true, whoever else writes, fails or stops, and what is left of those for which they are not? | 2 processes, 3 calls of any kind, 1 failure or crash; 2 status files, a list and a database; 3 contents, two of one length |
| `TagLists` | does every call on linked lists that share tags, with an iterator at work, do to them what its name says of sequences? | 3 lists of up to 3 tags, 7 nodes of which 3 are left for results, 3 tags, 2 names, words with blanks and a word that is none |
| `Derivations` | does copy on write on two levels hide every change from the other holders and the map, and free each structure once? | 2 holders, 3 texts (two words for one file; a bad word behind a good one), 6 lists and 6 derivations, a map of 2 buckets that grows to 5, hashes that collide in both |
| `ProfileDifferences` | is a difference exact, the quick look complete and the hold file canonical? | every pair of 183 profiles: 2 components, 3 resource names, values unset, empty, encoded, the same number spelled two ways, several contexts; 2 bucket orders |

The bounds are small because the mistakes are: a collision needs two names and a
third to fall behind them, sharing needs two holders and one writer, growth has
to happen twice to merge what growth has placed, a file is torn by one failure and
lost to one rival.  The lengths of texts are linear in the pieces, so a text of
two or three pieces of each kind shows what a longer one would.  Two packages are
enough for the state a loader carries from one to the next, and for an order.  For the lock it takes three
calls: one that has it, one that waits and a third that gets it first.  The
timeout of 2 is the smallest that three calls cannot use up (`FewCalls`: at most
one call more than the timeout); with a timeout of 1 TLC finds two of the three
calls at work on the file although nothing went wrong.  Deadlock is checked
except where the system may stop: in the runs of `ContextFiles`, `FileUpdate`,
`PackageFiles`, `Resource` and `TagList` the calls, edits or nodes are used up, and in
that of `PackageSet` the process may end.  The views of `TagLists` and `Derivations` leave
out addresses: structures are numbered as they are met.

Five sentences of the documentation are not kept by the code where a model can show it.  Each is checked by
hand, as `tlc -config X.cfg M` with the module given, after a change of one of the
configurations, and ends in a counterexample.

| Configuration and module, with | What it shows |
| --- | --- |
| `PackageSetMap`, `MCPackageSet`, with the invariant `AllFound` only | `lcfgpkgset_merge_package` empties the bucket of a list that became empty (`packages/set.c:481-485`), and the search loops take an empty bucket for the end (`packages/set.c:641`: "Hitting an empty bucket is an immediate \"failure\""): names that collided cannot be found any more |
| `ComponentSharing`, `MCComponent`, with `Resources <- TwoContexts`, `RuleSets <- KeepDifferent`, only the property `DifferentContextsKept` | `lcfgresource_compare` uses the "@e priority, @e value and @e context attributes (in that order)" (`resources/resource.c:3952`), but compares the values twice and never the contexts, so `SQUASH_IDENTICAL` replaces a resource meant for another context |
| `ComponentSharing`, `MCComponentHistory`, with `SPECIFICATION MCSpec`, `Resources <- OnePerName`, `RuleSets <- NoRules`, no `VIEW`, only the invariant `NoneMeansUnchanged` | `LCFG_CHANGE_NONE` means "the component is unchanged" (`resources/components/component.c:1636`); `lcfgcomponent_merge_component` returns the result of the last list: "no change" after a change |
| `ContextCalls`, `MCContextFiles`, with `Activator = {}`, `Workloads <- Conflicting`, only the invariant `ExclusiveDespiteCrash` | "Take an exclusive lock" (`common/context/tools.c:255`): two calls that wait for the lock of a dead process run out of patience together; the second removes the lock that the first has just taken, and both work on the file |
| `FileWrites`, `MCFileUpdate`, with the invariant `StoreWhole` only | "If the temporary DB is successfully written it will then be renamed to the target file name" (`bdb/write.c:471`); `lcfgbdb_close_db` drops the result of the close, which writes what Berkeley DB still has in memory, and a torn database is renamed (`FilesWhole` and `AnswerHonest` say so) |

These were seen on the way.  Where a property names one, it says what the code does:

* When a package set grows, `lcfgpkgset_resize` merges again with the prefixes and
  rules of the moment (`packages/set.c:75`).  What the old rules stored the new ones may
  ignore: a package with the prefix `?` has nothing to replace in an empty list
  (`packages/list.c:637-642`) and is dropped without an error, and so is one with `-`.
  What they refuse ends the process, which takes two packages of one key
  (`ExitsForConflict`).  `PackageMap` has both, as `MapRemerge`.
* A removal that hides a list lets the next merge of that name start a second one
  (`AllFindable` knows both cases by `holes`).
* "Version is pinned, cannot override" (`packages/list.c:506`; also
  `packages/package.c:82`) is not kept where identical packages are squashed: the same
  spec without the prefix `!` takes the place of the pinned one, and a later `+`
  replaces its version.  `PinnedVersionStays` therefore speaks of rules that look at
  prefixes, and of the one way out if `SQUASH_IDENTICAL` is set as well.
* "increasing the size of the set of buckets in the clone before starting to merge
  resources" (`resources/components/component.c:694`; the same in
  `lcfgcomponent_select`, 2202-2206) raises the number and not the array: for 57 names
  or more, a clone or selection has more buckets than its array has places.
  `ArrayShortOnlyWhenPresized` says when, and that nothing else does it.
* Inactive resources "will also be ignored" when a component is printed, says
  `resources/components/component.c:787-789` (and 862-864); `lcfgreslist_print` prints
  the first of each list whatever its priority.  `StatusRoundTrip` has them written.
* `lcfgpkgset_merge_set` reports success although a list could not be merged;
  `packages/set.c:502` says "If an error occurs then the LCFG_CHANGE_ERROR value
  will be returned".
* `tools.c` says of the activation "If the list of pending contexts is empty then
  an empty active file will be created" (459-461) and that the time "will always be
  updated".  When there is no active file either, the lists do not differ and none is
  created.  A `stat` that fails (`common/context/list.c:525`) leaves no time to set, and a
  `utime` that fails (`tools.c:570`) is ignored.  `ActivationFresh` has these cases
  (`unstamped`).
* Removing a context that is not there rewrites the pending file and answers
  `LCFG_CHANGE_MODIFIED`, because a context without a value stays in the list
  that is compared.
* The activation opens the pending file and then asks for the time of the name:
  if the file is replaced in between, the active file has the old contexts and
  the new time, so that nobody sees from the time that it is out of date.
  `ActivationFresh` says which file the contexts are from and which the time, that the
  second is never older, and speaks of one activation at a time.
* A resource with a context is written as `name[ctx]=`, which the reader of status
  files refuses, and the whole file with it; an integer without a value cannot be read
  back with its type; a comment is cut at its first `)`, and one with a line end breaks
  the file.  `Unreadable`, `LacksNumber` and `ShownComment` say what becomes of them.
* Values are stored in the database as they are but decoded when they are read, so
  `&amp;` changes on the way; a priority that is not above zero is not stored, and a
  status file has none at all.  `BdbRoundTrip` and `StatusRoundTrip` say so.
* `lcfgcomponent_to_env` never unsets the type variable of an earlier export, so an
  import may see a stale type (`clean` in `Resource`), and a later success hides
  an earlier error.
* `lcfgresource_value_remove` and `_remove_tag` pass NULL to `strcmp`.  The actions
  leave out the call.
* A change of type to one that is not a list keeps the template.
* `lcfgutils_file_needs_update` answers no when the new file cannot be opened
  (`utils/utils.c:648`): the call reports no change and the file keeps its old
  contents (`passed` in `FileUpdate`).  A `utime` that fails changes no answer
  (`utils/utils.c:704`, `bdb/write.c:551`; `unset`), and `lcfgutils_safe_tmpfile`
  forgets a file it made when `fdopen` fails (`utils/utils.c:156-165`; `litter`).
* `lcfgtaglist_mutate_add` looks its word up with the blanks around it, so that
  `" a"` is appended again; `lcfgtaglist_remove_tag` frees a node that an iterator
  may be at (no caller does both).
* `lcfgpackage_add_derivation_string` returns true when the text cannot be parsed
  (`packages/package.c:1647`); the setters of a derivation relinquish the old list
  before they acquire the new one.
* `lcfgcomponent_quickdiff` says "modified" when only resources for other contexts
  came or went, where the full comparison shows nothing; a component without
  resources is added for the one and no difference for the other.
* `lcfgpackage_add_flags` compares the number of different flags with the length of
  the old ones (`packages/package.c:1232`), so a flag given twice hides one that is
  added: `FlagsComplete` is for packages with no flag twice.
* In a file for updaterpms that is loaded with its metadata, a package without a
  derivation has that of the package before it, and so have those of the file that is
  included: an empty `derive` is skipped and nothing else clears the last one
  (`Inherited`).
* A hyphen in an architecture, which `packages/package.c:2147` permits, cannot be read
  back from a spec; one in a version only from the new style and with a release
  (`SpecCanSay`).  The same comment lists `=` as a prefix, which is refused, and not
  `!`, which is the mark that pins a version.  That a release is a wildcard where there is
  none, and that the secondary architecture is never written
  (`packages/package.c:2435-2440`), is true of one style of the three.
* A version that is an epoch and nothing else gives the name of an RPM file that is
  passed over when the list is loaded, with success, as is any line that cannot
  be parsed.  A bad version in a Debian index is accepted if a release follows
  (`SetField`).
* `lcfgutils_parse_cpp_derivation` keeps the old file name if the new one is the
  beginning of it (`utils/utils.c:926`), so a package behind an include may get a place
  in the included file (`AtMarker`, `PlacesRight`).
* `lcfgpackages_from_cpp` enlarges its list of dependencies through the wrong pointer
  (`packages/container.c:298`), and `lcfgpkglist_from_rpmcfg` walks a list that is not
  there if the file cannot be read (`packages/list.c:1076`).  Neither is modelled.
* Packages that compare as equal but differ, in flags or context, stay in the order
  they came in, so that a file may differ for equal lists; `OrderSound` is for lists
  without such a pair.
* `lcfgpackage_to_xml` does not escape the `&` of a context that was combined, so the
  profile is not well formed (`WellFormedXml`).

### Fairness

Only `ContextFiles` has a liveness property, `EveryCallReturns`.  It assumes weak
fairness of `Work`, the disjunction of all steps of the processes: as long as a
process that has not stopped can take a step, some process takes one.  The code
justifies it, as processes are scheduled and `sleep(1)` ends, and nothing
stronger is needed: no call goes round for ever, since each takes the lock at
most once and has a timeout to use up.  Stopping is not fair, and neither is any
single process.

In `FileUpdate` a process may stop anywhere and nothing waits for it, so that
nothing is promised to happen.

Elsewhere every property is a safety property.  A call of a single threaded
library runs to its end by itself; that the loops end follows from their
counters, and deadlock checking shows that a call that has begun always has a
next step.

## What is proved

`ComponentSet_proofs` proves, for every number of sets, components and buckets,
every hash and every bound, the type invariant and the safety properties of
`ComponentSet`, and that it implements `ComponentMap`.

* `AllFindable` is the invariant the rest stands on: every component sits where
  the probe for its name ends.  It needs the fact that no bucket is emptied while
  its set is alive, and that an insertion only fills the bucket a probe ends at,
  so a probe that passed it goes on passing it.  The map and the uniqueness of
  names follow.
* `EntriesExact` and `RefsExact` are cardinalities.  `RefsExact` needs
  `AllFindable`, because it counts sets, not buckets: a set holds a component at
  most once.  It also needs that a set that is not allocated is empty.
* `NothingLeftBehind` adds the position of the running loop.
* `ImplementsMap` maps a set to the components its lookups find, and shows that
  every step is a step or a stutter of `ComponentMap`.

`HashTables_proofs` proves of `ComponentTable` that a component always has a free bucket
(`AlwaysRoom`), for every default size: the inductive invariant is that no table
is overloaded between two calls, since "one bucket is free" alone could be used
up by the next entry.  `ArraysShortOnlyWhenPresized` says of every number of names that
is copied when the array has a place for each bucket and when it has not, and
`PresizedSuffices` proves the comment in `lcfgcomponent_select` that the resize after each insertion
"should not be strictly necessary".

Of `PackageSet` it proves, for any packages, hashes, initial size, rules and
sources:

* `SetsTyped` and `EntriesCounted`, without a condition: the state is typed and
  `entries` is the number of buckets in use, through insertions, removals and
  growth.  The invariant `Counts` says both of the table; the loops of a growth
  are followed with `UpTo` (`ListRun` and `TableRun` are their states), and
  `ResizedSound` gives the store they end with.
* `LookupsFind` and `GrowthAccepts`, without a condition either: what hides a list is
  always a bucket that a removal has emptied; a bucket is always free; and growing ends
  the process only if two packages of one key are stored.  The
  invariant is `Sound`: a bucket has packages of one name (`Filed`); every list is
  reached by the probe for its name but for a hole on the way, and there is a second
  list of a name only behind one (`Reached`); and while the process lives the load is
  below seven tenths, since "one bucket is free" could be used up by the next
  insertion.  The stores on the way through a growth are `Refilling`: they have packages
  of the old table only and use no more buckets than the old table did up to
  there, so that all of them have room, and nothing has been refused if no two packages
  have one key (`AcceptedAgain`).
* `AddingIsSound`: where no package can ask for a removal (`NothingRemoved`) and no
  caller sets `KEEP_ALL` (`OneOfAKind`), all lists are always found and growing never
  ends the process.  The invariant `WholeTable` is that no key is there twice, that
  there is no hole and that the process lives.  These two hypotheses name the
  two things the code does not cope with.
* `MapImplemented`, the refinement of `PackageMap`, without a condition.  A merge changes the list
  found under one name (`PlacedFound`, `MapMergesAlike`).  A growth is that every list is
  merged again by itself, although the code goes bucket by bucket and the names of
  a bucket come in whatever order the hashes give: after the buckets before `i` their
  names have their lists merged again, the others have none yet (`Regrown`,
  `GrowthRemerges`), and within a bucket it is the loop of the map (`ListRemerged`).

`ContextFiles_proofs` proves, for every number of calls, every timeout and every
bound on crashes and failures, the types (`TypeCorrect`), that `MODIFIED` and
`NONE` are true answers (`HonestAnswers`), and that the lock is exclusive and no
update is lost (`Exclusive`, `NothingLost`), as long as nothing has stopped, failed
or slept while a call was at work on the file, and there are at most `Timeout + 1`
calls.  "A waiter breaks the lock after `Timeout` seconds" makes this an argument by
counting.  While all is calm a call sleeps only if another has released the lock
after it failed to link and before it slept, so each second a waiter gives up is
paid for by another call that has finished with the lock: `Timeout - patience` is at
most the number of these.  To
break a lock it takes `Timeout` finished calls, one more that has the lock or has
finished since, and the waiter: one call too many.  So nobody breaks a lock in use.  The invariant `IInv` says
this, that the lock names its holder, and that a call about to rename has the
text made from the file that is still there; the last is what turns exclusion
into "no update is lost".  The bound is exact (see the runs).

`Profiles_proofs` proves `FilesSound` and `AnswersTrue` for any number of
processes, files, contents, calls, failures and crashes: a reader finds a file
absent or whole, but for a database whose close failed unnoticed, and each temporary
file that is left stands for a failure; an answer without an error is true of the
contents and the time of every file of the call except those for which the code passes
over a failure, and of these it is said what they hold.
None of these is inductive, since they speak of what is on the disk or of a call
that has ended.  The invariant `IInv` follows each call through its files:
`Shape` says that the temporary file is there from `Open` to `Cleanup` and is
complete when it is compared or renamed (unless the failure to write the database
was passed over), `Written` that the files the call has done have had its
contents unless it passed over a failure, and `Stamped` that they have its time as long
as the call was alone and `utime` did not fail.
The one leaf with substance in the code is the comparison: a file is left as it
is only if it equals the new one (`NoUpdateOfEqual`), so "no update needed" also
means that the contents are there.  Another process never disturbs what is known
of a call, because what a call has written is recorded when it is seen and the
temporary file is its own (`OthersKeep`).

`ContextFiles_proofs` also proves `ActivationFresh`: when an activation, the only one of its
directory, ends well, the active file has the contexts of the pending file it opened
and the time of the one that had the name when it asked, which may be later if an update
came in between; where `stat` or `utime` has failed unnoticed, or there was no file to
ask, a file that was written has the time of the writing instead.  Its invariant
`FreshInv` follows the call from step to step (`ActInv`): the text it has read and
the time it has asked for are each those of a file in `seen`, in this order.  Two facts about lists carry it.
`EqualContexts`: lists that `lcfgctxlist_diff` finds equal have the same contexts,
although it compares the first list by whole contexts and the second by names only;
it takes that a name is in a list once (`UpdateSound`).  `PrintedContexts`: a list
that is printed and read again has the same contexts, as each printed line is one
of the lines it was read from, so no comment, and gets a place of its own
(`ReadBack`).

`Component_proofs` proves `WellFormed`, `RefsExact`, `WritesApart` and
`NoActionAtADistance`, for every number of components, names and lists.  They are
proved together, since none is inductive alone: a merge writes in place where the
count of a list is one, and that no other bucket has the list then follows only from
exact counts (`OneBucket` and its neighbours count buckets); the counts stay exact
only if the list a merge works on is its own.  `Inv` adds that a component
that does not exist holds nothing (`DeadEmpty`), that the working list has one
reference (`WorkAlone`) and resources of its own name (`WorkFiled`), and that what
is still to be merged fits the bound (`WorkFits`).

It also proves `ResourcesSound` of `Resource`: whatever setters, mutators, copies,
exports and loads are called, and whatever an earlier save left in the file or the
environment, each resource is filed under its name, its templates are valid and its
type allows its value.  The invariant, `ResourcesKept`, adds what the loads need: the
file and the variables are texts.  For that every field of a resource has
to stay one (`Fits`), since each may be written to a file that is split into lines,
and a line into a key and a value, before a setter sees it; `FlatList` and its
neighbours say that what is joined and cut stays a text.  A setter keeps
`Fits` because it either refuses or has checked (`SettersFit`).  The mutators
compute a text and hand it to `lcfgresource_set_value` (`MutatorsFit`).  Loading keeps it line by line
(`LoadLinesFit`): a resource is the one its line names.  The assumptions are that names are
valid and finitely many, and that what callers pass in is text.

`Lists_proofs` proves `WellFormed` of `PackageList` for every set of packages and primary key:
a key is in the list once as long as no caller asked to keep all.
It is inductive as it stands: whatever is appended replaces the entry of its
key (`AppendReplaces`), and sorting moves entries only.  Properties
of a step are `PinnedVersionStays`, for every package and without a hypothesis,
`PriorityNeverFalls` and `DerivationGrows`, the
last two together being `NothingLost`.  Two hypotheses are the properties' own
and are stated in the theorems that need them: `ContextsDecide`, that packages whose contexts are
equal have equal priorities, as they have after one evaluation (otherwise
an identical package that is squashed into its place may have a lower one), and
`OneOfAKind`, that no caller uses `KEEP_ALL`, under which nothing is replaced.

It also proves `ListsSound` of `TagList`, for any number of lists, tags and nodes and any
texts: the links of a list lead both ways along the same nodes, a tag has
a reference for every node that has it and is freed with the last, no node is left
behind, and an iterator is at a node of a list that lives.  The invariant,
`TagsKept`, says that there is a path for each list, a sequence of different nodes,
along which it is laid (`Laid`), that no two paths meet (`Apart`), that a node has a
tag exactly if it is on one, that a list has one reference for its maker and
one for the iterator, and none only if it has no nodes.  `Sound` is the part
about the heap, and holds inside the compound functions as well: a mutator, which
makes a tag, hands it over and relinquishes it, holds one reference that no node has,
and `Sound` and `Counted` take that tag as an argument.  `InsertSound` and
`UnlinkSound` are the two functions that write links, and say what they do to a path;
`RetagSound` and `SwapSound` are those that move tags about, and write none.  A
loop over a list (`LoopExists`) is followed with what is true after each node: `Taking`
for `lcfgtaglist_destroy`, `Wording` for the words of an array, `Handing`
for copies and sets.  `Handing` counts the room that is left: one node for each
entry that is copied, or for each name not there yet (`Roomy`), which is what
callers of the set functions are asked for.

Of `Differences`, `Profiles_proofs` proves `DiffExact`, `QuickHonest` and `ProdsARunningComponent`,
for every pair of profiles and every order of the buckets.  `Inv` says that the
differences are `Exact` for the two profiles, in an order that is not said, since the hold
file sorts them in place, and that the quick answer is the one of the names that
changed; applying the differences, counting them and asking for a prod are then
consequences.  `Exact` is kept by the sort because it is a permutation (`SortSound`).

`ListLemmas` has what these have in common: the least position a search finds,
removal from a list, and ranks.  `RanksEnumerate` says that in a finite total order
the entry with `k` entries up to it exists for every `k` and is met once, from which it
follows that `AtPlaces` and `SortedByKey` neither lose nor double an entry
(`AtPlacesSound`, `SortSound`).  `UpTo` is induction over the numbers up to `n`,
with a set in the place of the formula; it is how `UpdateAll`, a recursive function,
is followed line by line (`UpdateAllRuns`, `UpdateAllSound`, `ReadBack`), and how
the growth of a package set is followed package by package.

`PackageMerge_proofs` is the layer below package lists and sets: what one merge and
one sort do to a list (`MergedShape`, `MergedUnique`, `SortedContents`), which
plan removes and which appends (`Plans`), and when priorities decide.

The assumptions are the named ASSUMEs of the modules: finite sets of structures,
names and of calls, natural hashes, at least one bucket, calls that are either updates
or activations, texts that are not the start of one another, a database that
is not one of the other files, packages, resources and profiles of the types the
code declares, resource names that are valid and ranked by `strcmp`, callers' texts that are texts (of tags: sequences of
names, blanks and pieces of which no name is made), bucket orders that name each component once, and files of a
directory that are lines, with no lines and time 0 only where there is no file.

Only model-checked: the texts and files of packages, `EditsFaithful`, `RoundTrips`
and `LengthsAgree` of `Resource`, `MadeExact` and `ImplementsSequences` of `TagList`, `Derivation`, `HoldSound` of `Differences`, and `EveryCallReturns`.
Liveness under fairness is not in reach of the prover.  The theorems of the library
on induction take an operator, which no prover can instantiate; `UpTo` gets
round it for one formula at a time, but not for the folds, `SelectSeq`
and `SortSeq` of the library, which cannot be unfolded, and on which the words
and lengths of `Resource`, the texts of `PackageText` and `Derivation` and the lengths in
`HoldSound` are built: that a text is one can be proved, what it says cannot.

## What is not modelled

Texts below the pieces a function tells apart, and hashing.  Memory exhaustion, which
ends the process.  Misuse that an assertion stops.  Templates that are substituted,
and context expressions that are evaluated: both compute a value and change no state.
`lcfgprofile_merge` and `lcfgprofile_transplant`, which call the operations of the two
sets in turn.  Directories of RPM files and the RPM database, which are read with other
libraries; the reading of components from XML; summaries of packages; logging; the
hash function.  The parts listed as
`not_modelled` in PROJECT.json.

## What is left

1. Components from XML profiles (`xml/components.c`, `xml/resource.c`), and the
   loaders of package sets.
2. Expressions and the priorities they give, as recursive functions checked against
   a reference definition.
3. Composition of the package and component sets in a profile.
4. That the rules a merge uses are those of the component, also after a clone
   (`SetMergeRules` writes to lists that are shared).
5. Proofs: the refinements of `TagLists` and `DerivationUnions`.

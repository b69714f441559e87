# A verification project for proclimits

`proclimits` tells a Python process what it may use: the memory budget of its cgroup or Windows job, the
cores it is allowed, the CPU time consumed against them, and the ratio of the two over a window. The package
is small and every answer is one call, but no answer is one step. A budget is put together from up to three
files on each level of a chain of directories; a CPU limit from quotas on one chain, a set on another and a
counter on a third; a load from two such answers and the clock. The kernel, the container runtime and the
other threads of the process go on between any two of those steps. The modules here model the readings step
by step against that environment and say what a reading still promises. TLC checks it on small instances, and
all of it but liveness is proved for every one.

All source lines below are lines of `src/src/proclimits/`.

## The system

### Components

| Component | State it keeps | Operations | Module |
|---|---|---|---|
| CPU rate (`_sensor.py` 248-309, 399-500) | `CpuLoad._previous`, `CpuLoad._lock`; a one-shot measurement keeps its first reading on the stack | `CpuLoad.sample()`, `get_cpu_used_ratio()`, `get_cpu_used_ratio_async()` | `CpuRate`, `AtomicSampler` |
| cgroup memory reader (`_cgroup.py` 249-375, 758-805, `_sensor.py` 207-219, 556-637) | none between calls | `read_memory()`, `_evaluate_memory()`, `get_memory_budget()` | `CgroupMemory` |
| Controller cache (`_cgroup.py` 527-548, 686-694) | the `lru_cache` of `locate_controllers()` | a lookup, `clear_cache()`, the hook after a fork | `ControllerCache` |
| cgroup CPU reader (`_cgroup.py` 387-525, 697-755, 833-848, 1010-1110, `_sensor.py` 221-246, 640-752) | none between calls | `read_cpu()`, `read_cpu_usage()`, `_evaluate_cpu_limit()` | `CgroupCpu` |
| cgroup discovery (`_cgroup.py` 535-620, 697-730, 807-1001) | none: its result is what the cache keeps | `locate_controllers()`, `sources()`, `mechanism_notices()` | `Discovery` |
| Windows job backend (`_windows.py`) | none between calls | `read_memory()`, `read_cpu()`, `read_cpu_usage()`, `sources()`, the sizes of the machine | `WindowsJob` |
| `describe()`, `snapshot()` (`_sensor.py` 312-348) | none | several readings in one answer | `WindowsJob`, over the job backend |
| CPU list parser (`_cpu_list.py`) | none | `count_cpu_list()` | `CpuList` |
| backend selection, macOS memory, tests and packaging | none | | not modelled |

### How they interact

The calls go one way: `_sensor.py` calls the backend the platform selected, the cgroup backend calls
`locate_controllers()`, and that runs a discovery where the cache is empty. There are no callbacks but the
fork hook. What is shared is the cache (by all threads, without a lock of the package's own), each `CpuLoad`
(by the threads that were given it, under its lock), and the file system, which everybody else writes.

    CpuLoad / get_cpu_used_ratio  --(limit, level)-->  CPU reader  --(five lookups)-->  controller cache
           |                                              |                                   |
           | lock, _previous                              | files of three hierarchies        | discovery
           v                                              v                                   v
      other threads                          kernel, container runtime          cgroup.procs, mounts, forks

On Windows the CPU reader, the memory reader and the cache are replaced by queries of one job object, which
keep nothing and are asked again by every call.

In the modules an arrow becomes an assumption about the component below it. `CpuRate` takes one evaluation of
the limit as one step that yields the limit of that moment. What such a step is made of is `CgroupCpu`, where
a lookup is one step whose answer may change between any two. What a lookup may answer is `ControllerCache`,
and what a discovery makes of the machine is `Discovery`. A list of cores is a number for all of them, and `CpuList` is how it becomes one.

### What is hard here

* **Torn readings.** No lock stops the kernel. A charge and its statistics, two levels of a chain, a quota
  and its period, a limit and its counter come from different moments.
* **Shared samplers.** A reading is taken outside the lock and exchanged inside it.
* **A cache that cannot know it is stale.** `lru_cache` holds no lock while a discovery runs, and a process
  can be moved at any time.
* **Locks and caches that survive a fork.** A child gets a copy of both, in whatever state they are.
* **Hierarchies that share the work.** A controller is in one of them, handed down part of the way, mounted
  twice or from some group down, and the mount of another group looks like one's own.
* **Names that mean two things.** A level found in one hierarchy is looked up in another by its path below
  the mount point.
* **Files that are there and say nothing.** On any level, and neither "no limit" nor an error to raise.
* **Edges of numbers.** Charges above their limit, counters that restart, differences below zero, limits
  equal to the machine.

`PROJECT.json` lists each hazard at its line with the properties that cover it. Those with none are listed
with the reason.

## Modules

| Module | What it is |
|---|---|
| `AtomicSampler` | The abstract specification of a shared `CpuLoad`: a slot whose reading is exchanged in one step |
| `CpuRate` | The three calls, step by step, for any number of threads; refines `AtomicSampler` |
| `CpuRate_proofs` | Eight theorems about `CpuRate` |
| `CgroupMemory` | One memory reading, file by file, against the kernel |
| `CgroupMemory_proofs` | Five theorems about `CgroupMemory` |
| `ControllerCache` | Lookups, discoveries, clears and forks of several threads |
| `ControllerCache_proofs` | Four theorems about `ControllerCache` |
| `CgroupCpu` | One CPU reading, file by file, with the process moved and the files written meanwhile |
| `CgroupCpu_proofs` | Five theorems about `CgroupCpu` |
| `Discovery` | Paths, mounts and files of a machine of several hierarchies, made into the levels of each metric |
| `Discovery_proofs` | Six theorems about `Discovery` |
| `WindowsJob` | Every call over a job object, query by query, with the job reconfigured meanwhile |
| `WindowsJob_proofs` | Seven theorems about `WindowsJob` |
| `CpuList` | One list of cores, part by part |
| `CpuList_proofs` | Four theorems about `CpuList` |
| `PathLemmas` | Lemmas about paths, and about the least and the longest of a set, that the proofs of both readers and of `Discovery` share |
| `MC...` | The values TLC gives the constants of each, and the initial states of the larger runs |

A definition that is put in front of another with almost the same name (`AcquireWithoutWaiting` before
`Acquire`) is the way that definition could plausibly be wrong. The specification does not use it.
`PROJECT.json` pairs each with the property that notices when the one is put in the place of the other.

Variables marked *history* in their comment are not in the code. They record what the properties compare
with, and no action of the code reads them.

### CpuRate

`kept` and `lock` are `CpuLoad._previous` and `CpuLoad._lock`; `reading` and `baseline` are the local
variables of a call (`reading`, `previous`, `start`, `end`); `pc` is where it stands. A call is

    CallSample | CallMeasure     the call, _check_interval() included (399)
    Evaluate                     _evaluate_cpu_limit(), the limit and its level (412)
    ReadUsage                    read_cpu_usage() at that level (418)
    Stamp                        time.monotonic()
    Wake                         time.sleep(), asyncio.sleep() over, or about to be: back to Evaluate for the second reading
    Acquire, Load, Store, Release   `with self._lock:` and the two lines in it (474)
    Return                       _used_ratio() and the answer (430)

Outside it, `ChangeLimit`, `Tick` and `RestartCounter` move the limit, the clock with the counters, and a
counter back to zero. CPU time is counted up the chain, so a tick charges a level and every one above.
`Fork` leaves the forking thread alone in the child, with the slot and the lock as they were: the other
threads are `gone`. The module follows the child; what the parent goes on to do is what it does without a fork.

One evaluation is one step, since no other thread of the process can see what it has read half of, and what
goes wrong inside it is a question for `CgroupCpu`. The asyncio twin is the same call: it differs in what it
sleeps with. An event loop runs a timer that falls due within one resolution of its clock, so a sleep may end
that much early on the clock the readings are stamped with. `Wake` allows for it with `Resolution`.

The load and the store inside the lock are two steps. That makes the lock something the model needs rather
than something it has: `Acquire` without waiting breaks both properties the lock is for.

### CgroupMemory

The kernel holds `limit` and `pages`: at each level how many pages of each of four kinds are charged there or
below. `Charge`, `Uncharge`, `Turn` and `WriteLimit` are its moves and the administrator's. The reader begins
with the ceiling, then at each level reads the limit (`ReadLimit`), the charge (`ReadCharge`) and the
statistics (`ReadStat`), in the order of `_memory_level()`, and `Judge` is all the arithmetic after the last
read: `_evaluate_memory()` over `RawMemory`, with `_memory_rejection()` and `_reconcile()`.

Four kinds of page are what the arithmetic can tell apart: not cache on the inactive list (`held`), clean and
dirty cache on it, and dirty cache that is not on it (`hot`). Hot pages are why the credit can go below zero.
`counts` says how much of the dirty kinds this kernel counts. Where it is only one of the two keys, a page that is
dirty and one that is being written cannot be told apart by the model, so any part of them may be counted.

The levels `1..shut` lie in a directory that may not be traversed. `_exists()` takes the files of one for absent
(838), and so does `_read_control_file()` (1075): a limit there gives neither a level nor a notice.

### ControllerCache

A lookup is answered from the cache in one step, or runs `ReadPaths` (the process asks where it is), `Probe`
(is the group there?) and `Insert` (into the cache, unless somebody else was faster: that is what
`functools.lru_cache` does). `ClearCache` and `Fork` are the two ways to forget; after a fork the child has one
thread, the others being `lost`, and the cache the hook has emptied. `Move` and `Remove` are the
administrator's. A group stands for everything a discovery makes of it, so its number and whether it is still
there are all the module needs of a discovery.

`lru_cache` is C code outside this repository: `Insert` is modelled on what it documents, that the wrapped
function may run more than once and that the dictionary stays coherent.

### CgroupCpu

`quota`, `period` and `cpus` are the files of the levels, `counting` says which levels count their time, and
`located` is what a lookup answers for the three metrics. A group is its path, so that two hierarchies, each
mounted with a root of its own, can hold groups of the same name: that is what `_cpu_usage_level()` has to
sort out. A reading is `Begin`, `ReadQuota` (and `ReadPeriod`, where they are two files) on each level,
`PickQuota`, `FindSet`, `ReadSet`, `PairSet`, `Judge` and `ReadTime`. Each of `Begin`, `PickQuota`, `FindSet`,
`PairSet` and `ReadTime` looks the controllers up again, as the code does, and `Relocate` may have come
between any two.

`mechanism` is whether a hierarchy was found at all, with or without the CPU controllers: only without one does a
reading say `METRICS_UNAVAILABLE` (`_sensor.py` 754, `_cgroup.py` 583). A level that is `shut` may not be
traversed, and its files say what absent ones do (`QuotaSaid`, `PeriodSaid`, `HasSet`).

`interface` chooses the files: cgroup v2 has one quota file and one set file, v1 two of each. Under v1 the period
file can be absent beside a quota, which is no quota to the code (1045), and either file can be unusable or zero. `Relocate` moves
the process through the mounts there are. Cores are counted in parts of `1 / Scale`, with every period
dividing `Scale`, so that no quota of an instance is rounded. The code divides floats; equal fractions come
out equal there for the values a kernel writes.

### Discovery

The machine is `binding` (which hierarchy carries a controller), `groups` and `home` (the groups of each
hierarchy, and the one of this process), `subtree` (which unified groups hand a controller down) and `mounts`.
Which files there are follows from these: `HasFile` is the kernel's rule. `Move`, `RemoveGroup`, `HandDown` and
`TakeBack` are everybody else. A discovery is

    ReadOwnPaths    /proc/self/cgroup, every path at once (977)
    ReadMounts      /proc/self/mountinfo (946): which mounts are to be looked at, for which controller
    Look            one of them: does it cover this process, is the group there? (888, 911)
    ReadInterface   _interface(), with cgroup.controllers (550)
    Locate          one metric (807; 697 for the time), and the chain of directories below its mount (850)

or `ProcFails`. `Source` and `MechanismNotices` are `sources()` and `mechanism_notices()` over the result. The
controllers of one mount are looked at in any order, which does not matter to the code, as each has a slot of
its own. The files of a chain are probed in one step: a controller is handed down from the top, so the probes
of one chain amount to a state it was in.

### WindowsJob

`job` is the immediate job of this process with its two memory limits, its rate control and its affinity; `own` and
`others` are the pages committed in it. `outer` is the job around it, or none, and `beyond` the pages of the
processes in that one alone. The kernel enforces both jobs: a commit needs room in each (`HasRoom`), and the rates
multiply (`OuterLeaves`). Every query answers for the immediate one (`_windows.py` 26-34, 436-442). A call is a row of steps (`Plan`), one query each, in the order the
code asks them: `get_memory_budget()`, `get_cpu_limit()`, `snapshot()` and `describe()`. `call` is the call being
made and `at` its place in that row; an early return skips the rest of a reading (`Skip`). Each query may be
refused where the job answers at all. The answers that later steps need (`limits`, `charged`, `share`, ...) are
the local variables of `read_memory()` and `read_cpu()`; `memory`, `cpu`, `usage` and `listed` are the report.
`_evaluate_memory()` and `_evaluate_cpu_limit()` are shared with the cgroup backend and appear as
`JudgedMemory` and `JudgedCpu`: only what a job can make them say is in them.

Others commit and free pages, change a setting, add a core to the machine, or put the process into a
job, or into one inside its job. `stood` remembers what nobody has touched since the call began; the properties speak of that.

### CpuList

A part of a list is a pair of what `partition('-')` and `int()` make of it. `Count` takes one, `Refuse` ends
at one that is misplaced or no number, `Return` answers. The text is left out, but not what it can say: a
dangling dash, a negative end and an empty list are values.

## Runs

Each run answers one question. `CHECK_DEADLOCK FALSE` is given for the modules with bounded calls and clocks
(`CpuRate`, `ControllerCache`) and for `CpuList`, whose one call ends: nobody has to call again. In
`CgroupMemory`, `CgroupCpu`, `Discovery` and `WindowsJob` another call can always begin, so deadlock is
checked.

### Runs that pass

| Run | Question | What it shows |
|---|---|---|
| `CpuRateShared` | What does a `CpuLoad` shared by two threads promise, in a process that may fork? | `BaselineOwnership`, `EachReadingBasesOneWindow`: a reading left in the slot starts at most one window. `SharesOneSlot`: it refines `AtomicSampler`. `EveryCallReturns`: under `FairSpec` every call ends or sleeps, unless a fork copied the lock while it was held |
| `CpuRateAlone` | What does one thread get, sampling and measuring, while the limit moves between two levels, a counter restarts and the counter of the upper level may not answer? | `NoTimeReportedTwice`: windows never overlap. `NeverOverreported`: no ratio claims more than the level consumed. `MeasuredPairIsLongEnough`: a measurement that was accepted and slept out is never too short, where its interval outlasts the clock. `OneChangeVoidsTheWindow`: no report spans a change of the limit that was not put back. `TypeOK` includes that ratios lie in 0..1 |
| `Memory` | Is a budget right where nothing moves, and what can be believed of one read while the kernel does? | `QuietReadingIsExact`: exactly what the kernel would still grant. `PromiseIsBounded`: at most what there was plus what was freed, flushed, cached or allowed meanwhile. `SilenceMeansNoLimit`: no budget and no notice means no limit on any level that can be reached. `NothingToReconcile`: the three numbers agree before `_reconcile()` |
| `CacheTwoThreads` | When can a lookup be stale? | `StaleOnlyWhenOvertaken`: only out of a discovery that a clear overtook. `ChildDiscoversForItself`: nothing found before a fork answers the child |
| `Cpu` | The same two questions of a CPU limit | `QuietReadingIsExact`: what the quotas of all levels and the closest set leave. `SilenceMeansNoLimit`: where nothing is said beside no limit, a hierarchy is there and no level that can be reached holds one, but for a quota without its period file. `NeverLooserThanWhatStood`: no quota that stood, and no set that nobody touched, is exceeded. `TimeOfTheLimit`: time and limit are of one level |
| `Discovery` | Does a discovery find what limits this process, however it is mounted, bound and handed down, and whatever changes meanwhile? | `LevelsAreItsAncestors`: the levels read are the group of the process and its parents, of one moment. `FoundWhereBound`: a limit is looked for in the hierarchy of its controller, and found where every mount that shows the process shows it. `TimeIsCountedBesideTheLimits`: never in a hierarchy that limits no CPU while v1 counts. `SeenOrNoticed`: levels above the mount are told of. `UnavailableMeansNothingHolds`: no source means no hierarchy |
| `WindowsJob` | What does any call over a job promise, with any query refused and the job changed between two? | `PairFitsTheLimit`, `PromiseIsBounded` for the memory; `NeverLooserThanWhatStood` for the CPU; for both, `QuietReadingIsExact`: never less than the jobs leave, and exactly that where no job is around, and `SilenceMeansNoLimit` of the immediate job; `DescriptionListsItsLevel`: `describe()` names no level it does not list |
| `CpuList` | Does the parser count the cores a list names? | `CountsTheCores`, `RefusedIffNotCanonical`: it refuses exactly what the kernel never writes. `NeverZero`: the caller takes zero for no answer |

### Runs that find a violation

Each states what the documentation says, and TLC shows a behaviour of the code that does otherwise.

| Run | What the documentation says | What the code does |
|---|---|---|
| `CpuRateFork` | "`sample()` never waits" (README 92) | The lock of a `CpuLoad` is not made anew in a child. A fork while another thread holds it leaves a child whose next `sample()` never returns |
| `CacheOvertaken` | After `clear_cache()` "the next reading locates the sources again" (`_sensor.py` 373) | A discovery that began before the clear inserts the old group after it |
| `CpuTruncated` | "Every chain ends at its own mount point, which is what makes that path comparable" (`_cgroup.py` 737) | `_cpu_usage_level()` (749) compares paths below the mount points and ignores the subtree each mount exposes. With the quota seen through a mount of a slice and the time through a mount of the whole hierarchy, the limit of the slice is paired with the time of the machine |
| `DiscoveryHidden` | A hidden level is reported as an `*_ANCESTORS_HIDDEN` notice, "whether or not" a reading was made (`_types.py` 10, README 23) | `mechanism_notices()` (614) looks at the controllers that were located. Where the visible part of the hierarchy is not given the memory controller and a group above it is, there is none: the limit is enforced, and neither it nor the notice is reported |

`CpuRateFork` and `CpuTruncated` are plainly bugs, though both need a set-up: a fork with threads, and mounts
of one controller narrower than those of another. `Cpu` shows that with mounts of the same root no movement of
the process brings the second about, and `CpuRateShared` that without a fork nobody waits for good.

### The bounds, and why they are enough

* `CpuRate`. Two threads with two calls each are what a reading needs to be taken early and exchanged late,
  and for two calls to load the same baseline. With one thread three calls reach two windows and a failed
  reading between them. `MaxTime` 3 gives two adjacent windows and a tick left over; `ShortestWindow` 1 with
  intervals 0, 1 and 2 puts calls on both sides of the check, and with a `Resolution` of 2 ticks interval 1 is
  accepted and may come out too short, as on Windows, and interval 2 may not; two levels let a limit move to where more is
  counted; `Bursts` 0 and 2 around one core reach both clamps; `MaxEra` and `MaxRestarts` 1 are one change of
  each kind anywhere. `CpuRateFork` is the smallest instance with a lock to copy: two threads with one call each.
* `CgroupMemory`. Two levels are what a chain needs for the least room and the tightest limit to lie on
  different ones. Three pages hold one of each of three kinds, exceed each limit by one, and equal the
  machine. `MaxChurn` 2 puts two moves anywhere between the reads of a call: one is enough for a torn pair,
  two for a charge at one level that moves on before the next is read. `MCInit` is two families: every initial
  state with no move left, unreadable files, shut directories and all three kinds of kernel among them; and up to
  two moves from the chains that can be reached and have a limit, no limit of zero, and no dirty pages off the inactive list at the start.
* `ControllerCache`. Two moves let a stale entry be two groups behind; two clears let a discovery be
  overtaken, or a fork follow a clear; two threads with two lookups each let one discover while the other
  clears and discovers again. The threads are interchangeable, so the runs use them as a symmetry set: no
  liveness is checked there.
* `CgroupCpu`. Three groups in a chain put a level between the bottom and the root, where a walk can end
  early; two siblings under a root are what a move needs. `Machine` 4 with `Scale` 2 are two cores, with
  quotas below, at and above them. `MCInit` is again two families: every chain of three levels under cgroup v2,
  and all of them with the lower two shut, with nothing moving (`Still`), and two groups under v1, two files each, with one change between any two of
  the up to twelve steps of a call (`Stirring`). A walk looks at each level once, so one change splits it in
  every way it can be split.
* `Discovery`. Two hierarchies of v1 beside the unified one let the CPU and its accounting be in different
  places; a chain of two groups below the root and one beside it are a level that is neither the own one nor
  the top, and somebody else's group. The mount tables have each hierarchy whole, from some group down, twice,
  with the mount of another group first, and not at all. `churn` starts anywhere in `0..MaxChurn`: no change
  from any machine, one from a process two levels down, two from there with two of the tables. Two changes are
  a controller taken back at one level and a move, or two moves between the paths, the mounts and the files.
* `WindowsJob`. Limits of 1 and 2 pages under a system of 3 put each limit on either side of the other and of
  what is committed. Two groups of one core and one of two are the smallest machines whose fallback count is
  wrong and right. `Scale` 2 makes half a machine and all of it. The changes left at the start are part of the
  initial state: one from any job that restricts the memory or the CPU, two from a few that restrict both, at most one from a job
  that is inside another (`Nested`). One job around another is all there is room for: a third would be enforced
  and unread like the second. A process that is in the outer job alone keeps its pages while a call runs, and the
  outer job its settings, as the properties claim nothing of how much either may take away.
* `CpuList`. Three parts let one that is fine come between two that overlap; the numbers 0..3 and a negative
  end are every order of two ranges. The theorems have no bound.

What the bounds leave out of the runs: a third thread, three levels in the memory reader, two changes during
one CPU reading under cgroup, three changes during a discovery or a job reading. The theorems leave none of
these out. What is bounded in them is bounded in the program: a chain, a mount table and a list are finite.

### Fairness

`EveryCallReturns` is the one liveness property that holds, and `FairSpec` gives each thread that the process
has weak fairness of its own next step: the operating system goes on scheduling it. A thread that a fork left
behind is not in the child and gets none, which is all that `SampleNeverWaits` needs to fail.
Nothing makes a thread call, the clock advance or a
sleeping call wake up, so "sleeping" is an end the property allows: a test with a stopped clock would hang
there too. `Acquire` gets weak fairness only, although `threading.Lock` promises none to a waiting thread.
Weak fairness suffices because the lock is not needed for ever by others: calls are bounded, so it ends up
free and stays free. The claim is therefore "no call is left behind a lock nobody gives back", which is what
`test_cpu_load_sampled_from_several_threads` (`tests/unit/test_sensor.py` 1316) asks of eight threads, and not
that a thread is served while others call without pause.

## Proofs

### What is proved

| Theorem | Statement | Values |
|---|---|---|
| `CpuRate_proofs!TypeCorrect` | `Spec => []TypeOK`, with every ratio in 0..1 | any constants that meet `ConstantsAssumption` and `NoneAssumption` |
| `CpuRate_proofs!OwnershipCorrect` | `Spec => []BaselineOwnership` | the same |
| `CpuRate_proofs!EachReadingOnce` | `Spec => []EachReadingBasesOneWindow` | the same |
| `CpuRate_proofs!SharingImplementsTheSlot` | `Spec => SharesOneSlot`: `CpuRate` refines `AtomicSampler` | the same |
| `CpuRate_proofs!MeasuredIsLongEnough` | `Spec => []MeasuredPairIsLongEnough` | the same, any number of threads |
| `CpuRate_proofs!OneChangeVoids` | `Spec => []OneChangeVoidsTheWindow` | the same, any number of threads |
| `CpuRate_proofs!NotOverreported` | `Spec => []NeverOverreported` | the same, and one thread (`Alone`) |
| `CpuRate_proofs!NoTimeTwice` | `Spec => []NoTimeReportedTwice` | the same, and one thread (`Alone`) |
| `CgroupMemory_proofs!TypeCorrect` | `Spec => []TypeOK` | chains of any length, any machine, any limits, any number of moves |
| `CgroupMemory_proofs!PromisesAreBounded` | `Spec => []PromiseIsBounded` | the same |
| `CgroupMemory_proofs!NothingIsReconciled` | `Spec => []NothingToReconcile` | the same |
| `CgroupMemory_proofs!QuietReadingsAreExact` | `Spec => []QuietReadingIsExact` | the same |
| `CgroupMemory_proofs!SilenceIsSpoken` | `Spec => []SilenceMeansNoLimit` | the same |
| `ControllerCache_proofs!TypeCorrect` | `Spec => []TypeOK` | any constants that meet `ConstantsAssumption` |
| `ControllerCache_proofs!StaleOnlyIfOvertaken` | `Spec => []StaleOnlyWhenOvertaken` | the same |
| `ControllerCache_proofs!AloneClearIsRespected` | `Spec => []ClearIsRespected` | the same, and one thread |
| `ControllerCache_proofs!ForkedChildDiscovers` | `Spec => []ChildDiscoversForItself` | the same, any number of threads |
| `CgroupCpu_proofs!TypeCorrect` | `Spec => []TypeOK` | any tree of groups, quotas, periods, sets, places of the process and number of changes |
| `CgroupCpu_proofs!NeverLooser` | `Spec => []NeverLooserThanWhatStood` | the same |
| `CgroupCpu_proofs!QuietReadingsAreExact` | `Spec => []QuietReadingIsExact` | the same |
| `CgroupCpu_proofs!SilenceIsSpoken` | `Spec => []SilenceMeansNoLimit` | the same |
| `CgroupCpu_proofs!TimeIsOfTheLimit` | `Spec => []TimeOfTheLimit` | the same, and hierarchies mounted at one root (`OneRoot`) |
| `WindowsJob_proofs!TypeCorrect` | `Spec => []TypeOK` | any jobs, machines of any processor groups, any number of changes |
| `WindowsJob_proofs!PairsFit` | `Spec => []PairFitsTheLimit` | the same |
| `WindowsJob_proofs!PromisesAreBounded` | `Spec => []PromiseIsBounded` | the same |
| `WindowsJob_proofs!LevelsAreListed` | `Spec => []DescriptionListsItsLevel` | the same |
| `WindowsJob_proofs!NeverLooser` | `Spec => []NeverLooserThanWhatStood` | the same |
| `WindowsJob_proofs!QuietReadingsAreExact` | `Spec => []QuietReadingIsExact` | the same |
| `WindowsJob_proofs!SilenceIsSpoken` | `Spec => []SilenceMeansNoLimit` | the same |
| `Discovery_proofs!TypeCorrect` | `Spec => []TypeOK` | any hierarchies, trees of groups, mount tables, bindings and changes that meet the assumptions |
| `Discovery_proofs!LevelsCorrect` | `Spec => []LevelsAreItsAncestors` | the same |
| `Discovery_proofs!HiddenOrSeen` | `Spec => []SeenOrNoticed` | the same |
| `Discovery_proofs!FoundWhereItIs` | `Spec => []FoundWhereBound` | the same |
| `Discovery_proofs!TimeIsBesideTheQuota` | `Spec => []TimeIsCountedBesideTheLimits` | the same |
| `Discovery_proofs!UnavailableIsTrue` | `Spec => []UnavailableMeansNothingHolds` | the same |
| `CpuList_proofs!TypeCorrect` | `Spec => []TypeOK` | lists of any length over any numbers |
| `CpuList_proofs!CountCorrect` | `Spec => []CountsTheCores` | the same |
| `CpuList_proofs!RefusalCorrect` | `Spec => []RefusedIffNotCanonical` | the same |
| `CpuList_proofs!ZeroIsNoAnswer` | `Spec => []NeverZero` | the same |

### From which assumptions

Those of the modules, which TLC evaluates in every run, and three hypotheses of single theorems.

* That bounds and limits are numbers of the right kind, trees of groups are closed under parents, and calls are
  calls `Plan` knows (`ConstantsAssumption`, `JoinableAssumption`, `CallsAssumption`).
* That the markers (`None`, `Nowhere`, `Unlimited`, `Unusable`, `Absent`, `Inherited`) are none of the values
  they stand beside (`NoneAssumption`, `MarkersAssumption`): in the code they are `None`, an exception and an
  empty file, which are no number, path or record.
* That of the set files of a level each spells a number, nothing, or something unusable, that there are one or
  two of them (`InterfacesAssumption`), that the effective set is no larger than the configured one, and that a
  level carrying a set has one from somewhere (`ContentsAssumption`): this is the kernel's part, which the comment
  of `_read_cpu_set()` relies on (`_cgroup.py` 470).
* That every `Scale` is divisible by every period (`ConstantsAssumption` of `CgroupCpu`): it keeps cores whole,
  as said above.
* `Alone` (two theorems of `CpuRate_proofs`, as one of `ControllerCache_proofs` in its words): one thread. Both
  properties fail for two, as told under *Where the properties stop*; `CpuRateAlone` meets it.
* `OneRoot` (`TimeIsOfTheLimit`): in every place of the process, the hierarchies that show it expose the same
  subtree. `Cpu` meets it, and `CpuTruncated` is what happens without it.

What the initial states say of the kernel is part of what is proved from: a level of `CgroupMemory` is charged
at least what the one below it is, and a controller of `Discovery` is handed down only by groups that have it.

### Along which argument

*A shared sampler.* `EachReadingBasesOneWindow` is not inductive: nothing in it says that a reading already
behind a window cannot come back through the slot. `BaselineOwnership` adds four things.
`LockProtectsTheSlot`: between load and release a thread holds the lock, and what it has loaded is what the
slot holds. `ReadingsBelongToTheirCall`: a reading carries the thread and the call it was taken in.
`BaselinesArePast`: readings in the slot, or taken out of it, are of calls that have passed their store.
`BaselinesAreDistinct`: those in the slot, those taken by a call that has not returned yet, and those behind
a window all come from different calls. Then a store replaces what the storing thread took out by a reading
that cannot be anywhere else, and a return moves a reading from one of the three places to another. A failed
reading leaves the slot as it was, which is why `Holding` asks for both readings: such a call starts no
window.

*The refinement.* The store is the exchange: before it the slot is untouched and the abstract call is
`offered`, after it `exchanged`. It maps to `Exchange` because what was loaded is still in the slot, which is
`LockProtectsTheSlot`. `Deliver` maps to `Offer`, `Return` to `Leave`, and everything else to a stutter.

*The rate, in any number of threads.* `OneShot` follows one measurement: once its first reading is on the stack and
the sleep is over, the clock is an interval past it, less what a timer may be early, and stays past it
(`MeasuredPairIsLongEnough`).
`EraOfTheLimit` numbers the settings of the limit. A reading of the current one has its level and size, a reading
of the one before has not, and so for any two readings one change apart, in the slot, in hand or behind a call:
such a pair is never comparable. A failed reading has no number, so it cannot end a window.

*The rate, in one thread.* A counter only restarts, so what it shows never gains on what was truly spent. `Counts`
says this of every reading against the counter now (`CountedBy`), and of every reading against an earlier one
that may become its baseline (`Follows`). Hence the difference of two counters is at most what was spent between
them. `Times` says that what is in the slot is no later than the clock and no earlier than the end of any window
reported, and that a reading in hand is later than the slot. Both orders are what a second thread breaks: its
reading is taken before and exchanged after.

*The memory reader.* Two things have to meet at the end: the least room of the chain, read level by level, and the
tightest limit. `Books` is the kernel's: no level holds more than the one above it. `Stance` says what is in
hand at each step and that a report is what the found levels make of it. `Bounded` follows each level through
the four moments of being read, from the room under it now (`Room`) over what the charge leaves of its limit, and
what the credit gives back, to the distance that is kept: at none of them is it more than the room it had when
the call began and what was `gained` since. Each move of the kernel is shown to raise `gained` by at least what it
adds to any of the four (`UnchargeStep`, `TurnStep`, ...), which is where the order of charge and
statistics matters. `_MemoryLevel.distance` carries the least room over to the tightest limit; that the least of
the levels exists and is at most the distance at the tightest is a lemma about a finite walk. `Unmoved` is the
same story with equalities, for a call nothing disturbed.

*The CPU reader.* `InHand` is `TypeOK` with `Stance`, what each step has in hand. `WalkRemembers`: of a level that was
passed and has not been written since, the quota in hand is the one that stands, and a walk that ended has one at
most as loose as any of these. `SetRemembered`: the set in hand is that of the closest level, where no set of the
chain and no place of the process changed. `Conclusion`: what was judged is the tighter of the two, or nothing and a
notice. The first two are weakened by a writer exactly as `steady` and `setHeld` are, so that they are preserved by
everybody; `NeverLooserThanWhatStood` is what is left of them at the end. `Unmoved` adds, for a call nothing
disturbed, that the quota in hand is the quota of some level and not only below all. For `TimeOfTheLimit`, `Paired`
says that the level a restriction would count at is its own or none, which is inductive where a path below one
mount point names one group (`OneRoot`).

*The job.* `InHand` again is the type and what each query of the row can rely on: what came before it was answered.
`PairFitsTheLimit` needs no more. `Bounded` bounds the room under both limits now, and then what is held back while the
second and the third query of a pair are out (`HeldBack`), by the room at the beginning and what was freed since.
`CpuRead` says of each setting that stood what the queries that read it have in hand; with it a cap is never
exceeded by an affinity that was being changed, and the other way round. `Membership` follows a process that is not
moved through the rows of `describe()`. `Still` is the three with equalities.

*The cache.* `Currency` is `TypeOK` and three facts. `DiscoveryIsCurrent`: what a running discovery has found
is up to date as of the last clear before it began. `CacheIsCurrent`: so is the entry of the cache, where no
clear came between its discovery and its insertion. And the property itself, which speaks of answers given.
With one thread `NeverOvertaken` holds besides: a thread that clears is not in a discovery, so no
discovery is overtaken, and what is answered cannot be stale. That this needs the assumption is what
`CacheOvertaken` shows. For `ChildDiscoversForItself` the invariant says of every running discovery of the child,
of the entry and of the answers that they began after the fork: the hook leaves no entry, and the threads that
were discovering are lost.

*Discovery.* `Coverage` is the invariant: what was taken or located comes from a mount whose root is a prefix of
the path that was read (`Covering`), what was located is the chain below that path, and nothing is taken before
the paths are read. `_covers_own_cgroup()` puts it there, and nothing later changes the paths, so it does not
matter where the process is by then. `LevelsOfACover` turns it into the two theorems: the root of the mount and
the `k`-th directory spell the first `Len(own) + 1 - k` names of the path (`RootAndRest`, proved from the
library's facts about sequences), which are its ancestors one by one; where the root is the root of the
hierarchy these are all of them, and where it is not the notice is said.

*Discovery of a machine that stands still.* The other three properties compare with the machine as it is, so the
invariant has to say what a discovery under way knows of it. `TakenForWhatItIs` and `FoundForWhatItIs`: a mount taken
for a controller is of the hierarchy the controller is bound to, and a metric was found in a mount taken. `AsItIs`,
as long as nothing has changed: the paths are those of the process; a mount that covers it and is not to be looked
at any more has served its controller (`Served`), whichever was first; what was taken covers; and what
was located is what `Found` makes of the mount now. `Kernel` has the rule of delegation: a group that hands a
controller down was given it. From it comes that a level carrying a controller has a chain of levels carrying it
above (`GivenAtTheTop`), so a chain of directories that ends early has nothing further up to miss.
Nothing is said after a change: `still` is false then and the three properties do not speak, but for the part of
`FoundWhereBound` that no change can spoil.

*The list.* `IInv` says that what was taken ascends, that every core of it is at most `counted_to`, and that
`count` is the number of the cores named so far. A part that is accepted starts above `counted_to`, so its
cores are new, and a union of disjoint finite sets has the sum of their sizes. A part that is refused breaks
the order against the last one taken or against itself, which is what `Canonical` forbids.

### What is only model-checked

`EveryCallReturns`, the one liveness property: fairness and `ENABLED` are outside what the provers take on. Every
invariant, and the one safety property of steps (`SharesOneSlot`), that a passing run checks is a
theorem. The four violations are runs of TLC: a behaviour is enough to show one.

What the theorems do not add is faithfulness. They are about the modules, whose steps and abstractions are those
described above, and no more is proved of the code than the modules say of it.

## Where the properties stop

Facts about the code that came out of stating them, and that a reader of a property should know:

* The shortest interval that is accepted, 0.01 s, can be shorter than the resolution of the clock: 15.6 ms on
  Windows up to Python 3.12. `asyncio.sleep()` then ends up to that much early, or at the same reading of the clock,
  and the pair is thrown away as too short (`_sensor.py` 438). `get_cpu_used_ratio_async()` answers `None` for it,
  which is none of the reasons its docstring lists (296-298). `MeasuredPairIsLongEnough` speaks of intervals that
  are a resolution longer than the shortest window, less a tick (`OutlastsTheClock`).
* A limit file in a directory that may not be traversed counts as absent (`_cgroup.py` 838-847, 1072-1076): the
  limit is enforced, not read, and not told of. README 180 has "no level held a limit" for `None` without a notice, and README 23 does
  not name this case. Both `SilenceMeansNoLimit` of the cgroup readers speak of the levels that can be reached.
* A quota of v1 whose period file is absent counts as no quota (1045), and nothing is said. One beside a period that
  is unusable or zero is reported as unreadable, but for a negative quota, which is none whatever number is beside it (1049).
* `METRICS_UNAVAILABLE` means that no hierarchy was found. One that is there and carries neither the CPU nor the
  set controller is a source without levels (583-588), and nothing is said (`_sensor.py` 754-758).
* In a nested job the outer one is enforced and cannot be read, as `_windows.py` 26-34 and README 35 say. A budget
  and a CPU limit may then be more than what applies: `NeverLooserThanWhatStood` is about the nominal cap of the immediate job,
  `PromiseIsBounded` about its limits, `SilenceMeansNoLimit` about that job alone, and `QuietReadingIsExact` is exact only
  without a job around.
* Only the two ends of a window are compared. A limit that was changed and put back is not noticed
  (`OneChangeVoidsTheWindow` speaks of one change).
* With two threads, windows of one sampler can overlap: a thread takes a reading, another takes and exchanges a
  later one, then the first exchanges its own. Each reading still starts one window.
* `NeverOverreported` holds for one thread. With two, a reading can be counted, a counter restart, and the
  stalled reading be stamped and exchanged after a later one: the difference is then between counters of two
  lives, and can exceed what was consumed.
* `PromiseIsBounded` and `QuietReadingIsExact` are about kernels that report the dirty and writeback counts.
  Where both are missing nothing is taken off the credit (`_cgroup.py` 789-798), and dirty cache is promised
  as if it could be dropped at once. One alone is taken, and what only the other would count is promised too.
* Cache filled or flushed between the charge and the statistics of a level is promised twice: the charge does
  not have it, and the credit does. That is why `gained` counts those pages. The comment at `_cgroup.py` 772
  is about the other direction, reclaim, where the order of the reads leans to less.
* A quota and a period are two files under cgroup v1. A writer changing both between the two reads leaves a
  number nobody meant. Nothing is claimed of a level while it is written; the claim is that no other level is
  spoiled.
* A forked worker that reads before its supervisor moves it keeps the group it was in, like any process that is
  moved after its first reading, until it calls `clear_cache()`.
* `_pick_unified()` takes one mount for all metrics before any is looked for, the conventional one first. Where
  that shows less than another, levels are hidden that could have been read; a notice is said.
* A hierarchy of v1 that carries the memory and is not mounted, beside another that is, makes a source with no
  levels and no notice: `UnavailableMeansNothingHolds` speaks of mounted hierarchies.
* A quota located while a controller is being taken back can be on one interface and the counter on the other,
  until the cache is cleared. `TimeIsCountedBesideTheLimits` speaks of a machine that stood still.
* On Windows the level is called "job" whichever job it is. A process put into an inner job between two
  readings compares the counters of two jobs. `CpuRate` has the counter that starts over, and not one that has
  counted more than the outer job had.
* A set file that is removed between being found and being read gives no set. The set of the level above is
  not looked for, and the next call finds it.
* `TimeOfTheLimit` needs the mounts to expose the same subtree, in every location a call can see.

## What is not modelled

* `describe()` and `snapshot()` over the cgroup backend: rows of the calls `CgroupMemory` and `CgroupCpu` model,
  with a lookup in front. What such rows can disagree about is in `WindowsJob`, where each answer is a query.
* The cgroup namespace: a process moved out of the root of its namespace reads a path like `/../x`, and the
  code takes it as a name. Paths in `Discovery` are within the namespace.
* Text. Parsing a number, a list or a mount line is a value or one of the markers `Unusable`, `Unlimited`,
  `Absent`, `Inherited`; a path is a sequence of names. What `int()` takes beside digits (signs, blanks,
  underscores) no kernel writes. The `ctypes` declarations and calls of `_windows.py` are a query and its answer.
* Backend selection (`_backend.py`) is an import, and machine memory on macOS (`_darwin.py`) a product of two
  calls. Neither has state.
* Wording of notices. That a notice is there is modelled; what it says is not.

## Plan

The order is by what can go wrong unnoticed: the rate that is divided by the limit, the budget, the place
both are read from, and then what is left.

1. *(done)* `AtomicSampler`, `CpuRate` with a fork, `CpuRate_proofs`.
2. *(done)* `CgroupMemory`.
3. *(done)* `ControllerCache`, `ControllerCache_proofs`.
4. *(done)* `CgroupCpu`.
5. *(done)* `WindowsJob`.
6. *(done)* `Discovery`, `Discovery_proofs`.
7. *(done)* `CpuList`, `CpuList_proofs`.

8. *(done)* `PathLemmas`, `CgroupMemory_proofs`, `CgroupCpu_proofs`, `WindowsJob_proofs`, and the rest of the
   properties in the three modules of proofs there were.

What is left would state more: that one thread's `CpuRate` reports the consumption exactly where nothing moves
(a lower bound beside `NeverOverreported`); an abstract specification of a quiet reader, which `CgroupMemory` and the
memory part of `WindowsJob` both implement; and that a lookup of `ControllerCache` implements a discovery made at
one moment of the call where no other thread runs.

## Running it

    tlc -workers 2 -config CpuRateShared.cfg MCCpuRate
    tlapm CpuRate_proofs.tla

Each `.cfg` goes with the `MC` module that `PROJECT.json` names for it. `CpuRateAlone` and `WindowsJob` explore
twelve and ten million states, `Cpu` and `Memory` about five, in one and a half to two and a half minutes each;
`Discovery` a million in half a minute, the others less; each proof module takes a few seconds to a few minutes.

# DOS32 in TLA+

DOS32 runs 32-bit DOS programs (LE executables made for a DOS extender) as a process of a
Unix host.  The program's instructions run directly on the processor; its `INT` instructions
and bad accesses arrive as signals, and the emulator's signal handler answers them.  This
directory holds TLA+ models of the emulator, TLC configurations that check them on small
instances, and proofs for TLAPS.

Every definition is translated from the code under `src/`; `PROJECT.json` ("map") names the
lines each one stands for.  Comments of the form `Mutant: ...` precede variants of a
definition with a plausible bug; no specification uses them.  Each property is violated when
its mutant takes the place of the definition (`PROJECT.json`, "mutants").

To check and prove, in this directory:

    tlc -config SignalDispatch_all.cfg SignalDispatch
    tlapm HandleTable_proofs.tla        (and the other modules named ..._proofs)


## 1. The parts of the system

| Part | State | Operations | Called by |
|---|---|---|---|
| Process and threads: `Launcher.cpp`, `ExecutionEnvironment.cpp`, `UnixThread.cpp` | where `main` and the application thread are; the exit code | build, load, start the thread, join, tear down | the user, the kernel |
| Signal handling: `DarwinExceptionManager.cpp`, `DarwinExceptionInfo.cpp` | `mReenterCount`, the registered handlers, the stub's page | `setHandler`, `signalHandler` | the kernel, on either thread |
| Register context and stub: `DarwinContext.cpp`, the second half of `signalHandler` | the saved registers, the code that reloads segment registers | views `EAX/AX/AH/AL`, emit, run | services, then the processor |
| DOS extender: `DOSExtender.cpp` | references to the others | `4Ah`, `EDh`, `FFh`; everything else goes to `DOS` | `ExecutionEnvironment` |
| DPMI host: `DPMI.cpp` | `mMemoryBlocks`, `mAllocatedMemory` | `0006h`, `0500h`, `0501h` | `DOSExtender` |
| Descriptor table and LDT: `DescriptorTable.cpp`, `DarwinLdt.cpp` | selector -> descriptor; the kernel's LDT | construct, allocate, look up, destroy | the extender, the DPMI host, `ExecutionEnvironment` |
| DOS services: `DOS.cpp`, `DOSException.cpp` | `mOpenFiles`, `mLastError` | INT 21h | `DOSExtender` |
| Handle table: `HandleTable.h` | a block of pointers and a counter | `allocate`, `get`, `release` | `DOS` |
| Drives: `VolumeManager.cpp`, `Volume.h` | `mVolumes`, `mCurrentDrive` | get and set | `DOS` |
| Host directory and files: `HostDirectoryMapper.cpp`, `UnixPath.cpp`, `UnixFile.cpp`, `UnixException.cpp` | `mCurPathName`, descriptors | set directory, create, read, write, seek | `DOS` |
| Image loader: `LeImage.cpp`, `ImageFactory.cpp`, `Image.h` | one mapping per object, entry point, stack, heap end | `create`, `load` | `ExecutionEnvironment` |
| Memory maps: `UnixMemMap.cpp` | a mapped range | construct, `map`, `isInRange`, destroy | loader, DPMI, stub |
| Host clock: `UnixDateTime.cpp` | an offset in seconds and one in thousandths | `update`, `setBase` | `DOS` |
| PSP, command tail, environment: `DOS.cpp` | bytes in the program's memory | built once at start | constructor of `DOS` |
| Loader errors, host interfaces, singletons, tracing | none of their own | - | - |

A service goes through all of them.  The kernel stops the program and calls `signalHandler`,
which counts the entry, looks at the instruction, and calls the registered handler;
`ExecutionEnvironment` asks the extender, the extender the DPMI host or `DOS`; the result
goes into the saved registers; the handler emits the stub if the program had changed segment
registers, decrements the counter and returns into the stub or the program.

### What is hard here, and what has to hold

* **Signals.**  The handler runs on two threads, nests (a service may fault; `SA_NODEFER`),
  and is interrupted by `^C`.  Its only protection is a static counter updated by plain `++`
  and `--`.  Services must never overlap; the counter must come back to 0; every trap must
  be answered; `^C` must end the process.
* **An allocator inside a signal handler.**  The handler uses `new`.  A `^C` that interrupts
  `malloc` on its own thread waits for ever.
* **The half-restored program.**  The stub loads one segment register at a time through
  `AX` and can itself be interrupted.  The program must get back exactly its registers and
  the results, and no service may see the half-way state.
* **Failure half way.**  An open that finds no handle, a load that fails at the third object,
  a host error in a read.  State must be as before, and the error reported.
* **Numbers the loader trusts.**  Object indices, page numbers and the places of fixups come from the
  file and go into pointers unchecked.
* **Long sequences.**  The handle counter, the memory counter and the extended error live
  over the whole run; an error made by one call shows many calls later.
* **Uninitialised memory.**  The handle block, the 26th volume slot and the date of a `struct tm`
  are never set.
* **Unsigned arithmetic and conversions.**  Region lengths in the loader, free memory in DPMI,
  `EBX * 16` in the extender, a segment limit cut to 20 bits, a negative offset of the clock, and a
  file position that passes through five integer types.
* **Packing.**  Arguments into 128 bytes, strings into an environment block: the hard part is
  the byte at the end.

There is no persistence to recover, and no message to lose: nothing of that kind is modelled.


## 2. The modules

| Module | Models | State of the code it carries |
|---|---|---|
| `SignalDispatch` | `main`, the application thread, every invocation of `signalHandler` on either thread | a stack of handler frames per thread, each with a program counter; `mReenterCount`; the handlers registered; the owner of the allocator's lock; how the process ended |
| `HandleAllocator` | abstract: what a handle table promises | the partial function `open` |
| `HandleTable` | `HandleTable.h` | `mObjects`, `mNumEntries` |
| `DosServices` | INT 21h: `0E 19 3B 3D 3E 3F 40 42 44 47 4C 59`, with volumes, host paths and the error codes; contains `HandleTable` by `INSTANCE` | handles, live `File` objects, `mCurrentDrive`, `mCurPathName`, `mLastError`, the registers returned |
| `FileService` | abstract: what the file calls promise a program | the partial function `open` from handles to files, the last answer |
| `HostFiles` | `3F 40 42 44` behind the handle: `HostFile`, `UnixFile`, `ConsoleFile` | the host's sizes and positions, the answers, the program's own account of its position |
| `HostTime` | `2C 2D`: `UnixTime` over the host's clock | `mOffsetSeconds`, `mOffsetMilliSeconds` |
| `CommandTail` | `initPsp` and `initEnvironment` | `commandLine`, `mEnvironment`, byte by byte |
| `DosProcess` | `DOS::DOS` and `1A 2C 2D 30`: composes `CommandTail` and `HostTime` | both, and `mDta` |
| `Extender` | descriptor table, LDT, DPMI host, the extender's own functions, the destructors | `mDesc`, the LDT, `mMemoryBlocks`, `mAllocatedMemory` |
| `SegmentRestore` | register views, the stub's emission and execution | processor and saved registers, the stub's code |
| `LeImage` | `ImageFactory::create` and `LEImage::load` | mappings cell by cell, the region variables of `mapObject`, the file and its map, the exception under way |
| `MCHandleTable`, `MCDosServices`, `MCDosProcess`, `MCLeImage` | values for TLC | - |
| `HandleTable_proofs`, `SignalDispatch_proofs`, `DosServices_proofs`, `HostFiles_proofs`, `DosProcess_proofs`, `Extender_proofs`, `LeImage_proofs`, `SegmentRestore_proofs` | theorems about the module each is named after; `DosProcess_proofs` also about `HostTime` and `CommandTail` | - |

How they compose: `SignalDispatch` shows that services do not overlap.  `DosServices`,
`Extender` and `SegmentRestore` rest on that and take a service as one step (the first two)
or as a sequence nothing else disturbs (the third, except for `^C` and faults in the stub).
`LeImage` and the constructor part of `DosProcess` run before the application thread exists.
`HostFiles` begins where `DosServices` ends: the latter keeps handles and objects and leaves
every count and position open (`NULL`), the former has two objects on one file and keeps those.

### How state and actions correspond

* **`SignalDispatch`.**  `MainStart ... MainReturns` are `main` and `run`; `SetMemoryHandler`,
  `SetConsoleHandler` the application thread before it jumps into the program.  A frame steps
  through `info` (constructor of `DarwinExceptionInfo`), `load` and `guard`
  (`++mReenterCount > 1 || isInRange`), `dispatch`, `handler`, `served` (stub), `decLoad` and
  `decStore` (`mReenterCount--`), `delete` (destructor).  `TrapKinds` are the ways a handler
  may end: resume, refuse, `pthread_exit`, an `OSException` nobody catches, or a fault on a
  pointer of the program.  Addresses are regions; `LowRegions` says which lie below the end of
  the stub's page, since `isInRange` compares with the end only.
* **`HandleTable`.**  The loop of `allocate` is one step: it stops at the first free entry in
  cyclic order from `mNumEntries`, spins if there is none, or starts beyond the block if the
  counter has wrapped.  `new T*[n]` (`HandleTable.h:15`) clears nothing: the block begins as any
  member of the constant `InitialBlocks`; `strays` remembers how many entries seemed in use.
* **`DosServices`.**  The table is `HandleTable` with the same uncleared block, which `found`
  remembers: a handle the program makes up may name a stray, whose use or deletion may come back or
  may end all that can be said (`"undefined"`), and an allocation may spin.  An action is a whole
  call.  `Throw` is the `catch (DOSException)` of `handleInterrupt`, `Return` a call with carry
  clear, `End` the ways out of the program.  A path is the sequence of its components; `HostPath`
  does what `UnixPath` does with it. `OSError` and `DosError` are the two switches an `errno` goes
  through.
* **`HostFiles`.**  `Long` and `SizeT` are the conversions a position goes through on the way down
  and up; a transfer moves any number of bytes the host may choose.  `account` is what a program
  that trusts its answers believes about its position.
* **`HostTime`.**  Times are local seconds; the units are parameters.  `Updated` is `update` with its
  unsigned sum, `SetBase` is `setBase`; `MkTime` is what `mktime` may return for a date nobody
  set.  The host's clock ticks at any moment.  `sets` is a history of what the program asked for and
  when, which the properties compare with what it is shown.
* **`CommandTail`.**  One action per turn of `initPsp`'s loop; `Written` writes where the code writes,
  inside the field or not.  A byte carries which character of which string it is.
* **`Extender`.**  The host's choices - which LDT entry, which address, whether it refuses to free an
  entry - are `\E` over what it may choose.  `SetDescLimit` is `setDescLimit`: a limit that does not
  fit the 20-bit field is cut to units of 4096; `LastOffset` is what the processor makes of the
  entry.  An entry the table has not set up holds `Foreign`.  `Minus` and `% Word` are `uint32_t`.
* **`SegmentRestore`.**  `Set` is the mask arithmetic of `DarwinContext`; `BytesOf` and
  `Overlay`, the reference it is compared with, treat a register as four bytes.  `EmitStub` is
  the code generator: `Emit` writes an instruction where `buf` points and moves `buf` on by its
  size.  `stub` is the set of instructions with their addresses; `StubStep` executes the one at `EIP`.
  `InstrSize` is what the code adds to `EIP` after `INT`, `CLI` and `STI`; `Length` is how long the
  processor finds the instruction, and what the program must see skipped.
* **`LeImage`.**  One action per page of `mapObject` and per record of `relocate`, and one for
  each early end.  A memory cell is the file cell it comes from or half of an address.  Sizes,
  offsets and lengths are `uint32_t` and wrap (`% Word`); `FitsWord` says of a file that none of its own does.
  `PageFileOffset` adds the two parts of a page number, as the code does; `number` is the page the
  linker meant.  Indices of objects are used unchecked: a discarded or missing object is a NULL
  pointer (`"crashed"`), one beyond the list whatever lies there (`"corrupted"`), and so is a write
  of a fixup outside its object.  A read that ends early at the end of the file passes for a
  success, as in `UnixMemMap.cpp:66-68`.

### Abstractions that matter

* `LeImage`: cells are 16-bit halves; the page of the file equals the page of the host; the scan
  for the LE header and the addresses of its tables are abstracted to whether the file has
  them (`cut`); a short read happens at the end of the file only.  After a write or read outside
  an object nothing more is modelled.
* `DosServices`: which host files exist is a constant.  `HostFiles`: the bytes are left out, and
  a file is a regular one: on a pipe a seek fails with `ESPIPE`, which takes the same way out as a seek
  before the beginning.
* `HostTime`: `localtime` and `mktime` undo each other, no leap seconds, `gettimeofday` does not fail.
* `CommandTail`: the strings of the environment lie in one piece from `*envp` on, as the host lays
  them out and the code assumes; the constants in the rest of the PSP are left out.
* `Extender`: the host maps whole pages where nothing is mapped; the bytes put into the
  program's memory are left out.  What the host's own LDT entries hold is not known, so that they
  span all memory, as `DescriptorTable.cpp:8-9` has it, is neither assumed nor claimed.
* `SignalDispatch`: the check of the stack canary (`DarwinExceptionManager.cpp:145-149`), which
  ends the process after a handler has overrun its stack, is left out with the overrun itself.
* `SegmentRestore`: the flags are left out here and are part of a service's answer in the
  other two modules.  That the kernel resets every segment register but `FS` for a handler is
  taken from the code's use of it.
* External in all modules: the kernel, the allocator, the processor, the program.


## 3. The runs

Deadlock is not checked in any run: the process ends, a load ends, and after undefined
behaviour nothing more is modelled.  What must not stop is stated as liveness.

| Run | Config | Shows |
|---|---|---|
| `signal_dispatch` | `SignalDispatch_all.cfg` | `ServicesNeverOverlap`, `ServiceIsCounted`, `NoSpuriousRefusal`; live: `TrapsAreAnswered`, `InterruptEndsProcess` |
| `signal_message` | `SignalDispatch_message.cfg` | violated: `RefusalIsBadAccess` |
| `table` | `HandleTable_all.cfg` | `CountOffByStrays`, `AllocateTerminates`, and `HandleTable` implements `HandleAllocator` |
| `dos_safety` | `DosServices_safety.cfg` | `HandlesOwnTheirFiles`, `CurrentPlaceExists`; of each step: `FailureIsReported`, `LeakOnlyWhenFull`, `FailedCallsAreAtomic`; and the file calls implement `FileService` |
| `dos_drive` | `DosServices_drive.cfg` | violated: `InvalidDriveIsNotKept` |
| `files` | `HostFiles_all.cfg` | `ProgramKnowsPosition`; of each step: `SeekLandsWhereAsked` |
| `dos_process` | `DosProcess_all.cfg` | `TailHoldsArguments`, `EnvironmentIsComplete`, `SetTimeIsKept`; of each step: `RunsForward` |
| `le_linked` | `LeImage_linked.cfg` | `LoadedAsWritten`, `ContiguousRegionsAreInside`, `HeapIsMapped`, `FailureFreesImage`, `CrashNeedsBadReference` |
| `le_scattered` | `LeImage_scattered.cfg` | violated: `RegionsAreContiguous` |
| `extender_safety` | `Extender_safety.cfg` | `SelectorsResolve`, `AllocatedIsSum`, `ReportAgrees`; of each step: `BlocksStand` |
| `extender_report` | `Extender_report.cfg` | violated: `ReportsAtMostMax` |
| `segment_restore` | `SegmentRestore_all.cfg` | `ResumesIntact`, `ServiceSeesProgram`; live: `ComesBack` |

Every passing run also checks its module's `TypeOK`.

### Bounds, and why they are enough

* `signal_dispatch`: two traps and two `^C`.  Two traps are a service and one after it, which
  is what the counter's return to 0 is about; two `^C` are one on each thread, or one inside
  the handling of another thread's.  A third trap finds the state the second found.
  `LowRegions` holds the emulator; with the program in it every trap is refused.
* `table`: four entries and two objects give every cyclic pattern of used and free entries, and
  the block starts with every pattern of strays; the theorems hold for all sizes.
* `dos_safety`: two handles of which a console takes one, two host descriptors, and a block with every
  pattern of strays.  The table fills before the host's limit is reached, a leak uses a
  descriptor up, and with a stray it spins.  A second host file open at a time would need a third
  handle; the theorems have any number.  The drives are the mapped one, one with an empty slot, the
  uninitialised one and one beyond.  The paths are a directory, the same without `\`, a file, and a name
  that exists only below the directory.  The host refuses with one `errno` for each code an existing
  file can be refused with, and by itself with `EMFILE`, `EISDIR`, `ENOTDIR` and `ENOENT`:
  every code an open can report occurs.
* `files`: a word of 8 instead of 2^32.  Offsets are at, below and above half a word; positions go
  one beyond a word; counts are 0, below and at half a word, where the host refuses.  Two
  objects on one file of up to five bytes: each sees the file grow under the other.
* `dos_process`: a tail of nine bytes, six for arguments: empty arguments, lists that fill it, lists
  that exceed it by a byte or by an argument in the middle with a shorter one behind.  A day
  of four seconds, seconds of three hundredths, a word of 32 thousandths, so that the
  clock passes midnight and the fraction wraps; two successful sets, since the third is to the second
  what the second is to the first.  With `MaxSets = 2` and `EndTime`, the run is finite.
* `le_linked`: pages of two cells, up to three objects; sizes from one cell to past two pages;
  file pages aligned and not; the stack anywhere in its object; discardable objects as
  data, target, stack; indices of entry point, stack and target at 0 and beyond the objects; fixups at,
  across and outside both ends of an object; page numbers in one field and in both, read either
  way; files that end before, at and within the pages of an object; each header fault and pair of
  faults, each place a file can be cut off.
  The boundary cases of `mapObject` are at one page, two pages and a remainder.
  A word is 1000 cells: `Wrapping` are objects of nearly that, alone and as stack, and pages across
  the end of the offsets.
* `extender_safety`: seven pages of address space, three blocks of sizes below, at and above a
  page, so that the address space runs out; three spare LDT entries, any of them free, and one of
  them, 47, the number of another's selector, so that the destructors meet an entry of others.  The
  limit field ends at 8 and a unit is 4: environments of 3, 8 and 30 are below it, the first that
  has to be granular, and one that is not a multiple of the unit.
* `segment_restore`: two general registers of four two-valued bytes, two writes per service, every
  subset of segment registers changed, an INT above and one below the stub, a CLI above it.  Registers
  do not interact but through `EAX`, so two stand for eight; selectors are only compared and copied;
  two writes may go to one register through two of its views.

### Fairness

* `SignalDispatch`: both threads are scheduled, so weak fairness on every step of a handler,
  of `main`, and of the stub; strong fairness where setup or teardown repeatedly takes and
  gives back the allocator's lock.  None on the program, which need not trap or end, none
  on `^C`, and none on a service (`HandleService`): it may wait for the console for ever
  (`VolumeManager.cpp:15`) or probe a handle table with strays.  The liveness properties name their
  exceptions: a handler that waits for the lock its own thread holds (`SelfDeadlock`), and, for
  `TrapsAreAnswered` only, a service that never comes back (`[]InService`).
* `SegmentRestore`: weak fairness on the steps of the handler and the stub, and on the end of a
  service: `ComesBack` is about an `INT` that is served; `SignalDispatch` has those that are not.  None
  on the program, nor on an interruption.


## 4. Where code and words differ

Shown by runs:

* **`RefusalIsBadAccess`.**  "bad memory access in emulator code"
  (`DarwinExceptionManager.cpp:123`) is printed for a `^C` that comes during a service, and for
  one that comes after INT 21h/4Ch has left the handler by `pthread_exit`, with the counter
  still at 1.  No bad access happened.
* **`InvalidDriveIsNotKept`.**  The constructor clears 25 of 26 volume slots; drive 25 becomes
  current if memory holds anything there, against "keep current drive if new one is invalid"
  (`VolumeManager.cpp:60`), and its use follows a wild pointer.
* **`RegionsAreContiguous`.**  `mapObject` takes the page that breaks a run of pages into the
  region it ends (`LeImage.cpp:239`).  For pages 1 and 3 it maps 1 and 2.  For pages 2 and 1 the
  length is 0 and the assertion at `UnixMemMap.cpp:44` fails, as it does for some objects with
  several gaps.  Linkers write objects in order, where `LoadedAsWritten` holds.
* **`ReportsAtMostMax`.**  Nothing keeps a program's memory within `DPMI_MAX_MEMORY`; beyond it
  `0500h` computes a negative number and reports nearly 4 GB.

Modelled, with no violated run, since no comment or test promises otherwise; the properties say
how far the code goes and where it stops:

* **The uncleared handle block.**  With one stray pointer the counter is off by one for good
  (`CountOffByStrays`), and a full table spins instead of failing: `AllocateTerminates` holds
  only for a clear block.  A stray handle passes for an open file: a read or a close calls through
  memory no call has set up.  What still holds for the handles that calls did give out is
  `ImplementsService`.
* **Host errors of read, write and seek** leave as `OSException`, `handleInterrupt` catches
  `DOSException` only, and the process aborts, although `DOSException` has a conversion with "TODO:
  report read or write error" (`DOSException.cpp:28`).  So does a seek before the beginning
  of a file.  Only an open's errors are converted.
* **Positions.**  The offset of `42h` goes through `long` and the result through `size_t`: a seek
  farther than 2 GB lands some multiple of 4 GB away, and `EDX` is always 0 (`SeekLandsWhereAsked`,
  `ProgramKnowsPosition`).
* **The second `2Dh`** is off by what the first had set the clock ahead: `setBase` computes the offset
  from the shifted time and replaces the old one with it.  `SetTimeIsKept` is about the first only, and
  only about a day on which `mktime` keeps the hour: the day and the flag for daylight saving it
  finds are whatever memory held.
* **A fraction set below the current one** makes the offset in thousandths negative, and the
  unsigned sum wraps: 49 days and 17 hours ahead, until the host's fraction catches up and the clock
  falls back.  `SetTimeIsKept` and `RunsForward` name it as their exception.  A hundredth of the host
  counts as a thousandth: within a second the clock is up to a second off.
* **An environment without strings** makes `*envp` NULL; the constructor crashes (`NoEnvironment`).
* **`freeDesc`** is given a selector where the host wants an index (`DarwinLdt.cpp:35`): the destructors
  free entries that may be someone else's and keep their own (`Teardown`); the host's own are never
  among them (`SelectorsResolve`).  If the host refuses, `freeDesc` throws out of a destructor, the later
  descriptors are not freed, and the program's exit code is lost.
* **A granular limit** is rounded up by the processor: an environment of 1 MB or more can be
  read up to 4095 bytes beyond its end (`SelectorsResolve` bounds the excess).
* **The number of a page** is two fields of the page table, and the code adds them
  (`LeImage.cpp:227`).  Nothing in the repository says how they are meant; the sum is right as
  long as one of them is 0 or each counts in full.  `LoadedAsWritten` has that as its condition
  `SumIsNumber`.
* **References in the file** are followed without a check: the object of the entry point, of the stack
  and of a fixup's target, and the place a fixup writes to.  Wrong ones crash the loader or change
  memory that is not the object's; `CrashNeedsBadReference` says that nothing else does.
* **A short file** is accepted: a read that ends at the end of the file is a success
  (`UnixMemMap.cpp:66-68`), and the rest of the object stays 0; a page mapped beyond the end of the
  file faults when a fixup touches it.
* `3Dh` opens the host file before it asks for a handle; when the table is full, the
  descriptor is lost.  `LeakOnlyWhenFull` says there is one more way: an open that spins over strays.
* `3Bh` with a relative path `GAME` looks for `.GAME` beside the base directory.
* `4Ah` multiplies `EBX` by 16 in 32 bits: a request beyond 4 GB may be granted.
* `0500h` with an unknown selector in `ES` reports success and writes nothing.
* An `INT` below the end of the stub's page is refused: `isInRange` does not look at its start.
* `exit` in a handler on the main thread unmaps the alternate stack the handler runs on.
* A loader error leaves the map of the whole file mapped.


## 5. What is proved

Every invariant and every action property of the passing runs, and both refinements, is also a
theorem that TLAPS checks, for all values of the constants that the modules' assumptions
allow.  Where a bound limits a run (`MaxTraps`, `MaxBlocks`, `MaxSets`, ...) the theorem holds
for every bound.  `TypeCorrect` in each module is `TypeOK`.

| Module | Theorem | Property |
|---|---|---|
| `HandleTable_proofs` | `CountIsOffByStrays` | `CountOffByStrays` |
| | `AllocateAlwaysTerminates` | `AllocateTerminates` |
| | `TableImplementsAllocator` | `ImplementsAllocator` |
| `SignalDispatch_proofs` | `RunningServiceIsCounted` | `ServiceIsCounted` |
| | `OneServiceAtATime` | `ServicesNeverOverlap` |
| | `NothingRefusedForNothing` | `NoSpuriousRefusal` |
| `DosServices_proofs` | `HandlesOwn` | `HandlesOwnTheirFiles` |
| | `CurrentPlaceStays` | `CurrentPlaceExists` |
| | `LeaksOnlyWhenFull` | `LeakOnlyWhenFull` |
| | `FailuresAreReported` | `FailureIsReported` |
| | `FailuresAreAtomic` | `FailedCallsAreAtomic` |
| | `ServicesImplementFiles` | `ImplementsService` |
| `HostFiles_proofs` | `PositionIsKnown` | `ProgramKnowsPosition` |
| | `SeeksLand` | `SeekLandsWhereAsked` |
| `DosProcess_proofs` | `TailIsRight` | `TailHoldsArguments` |
| | `EnvironmentIsRight` | `EnvironmentIsComplete` |
| | `SetTimeIsRight` | `SetTimeIsKept` |
| | `NeverBackwards` | `RunsForward` |
| `Extender_proofs` | `SelectorsAreRight` | `SelectorsResolve` |
| | `CountIsExact` | `AllocatedIsSum` |
| | `ReportIsRight` | `ReportAgrees` |
| | `BlocksAreSafe` | `BlocksStand` |
| `LeImage_proofs` | `ImageIsFreed` | `FailureFreesImage` |
| | `CrashIsBadReference` | `CrashNeedsBadReference` |
| | `HeapIsMemory` | `HeapIsMapped` |
| | `RegionsAreInside` | `ContiguousRegionsAreInside` |
| | `ImageIsRight` | `LoadedAsWritten` |
| `SegmentRestore_proofs` | `RegistersAreRestored` | `ResumesIntact` |
| | `ServicesSeeProgram` | `ServiceSeesProgram` |

### From which assumptions

All are `ASSUME`s of the models, and TLC evaluates each in a passing run.

* `HandleTableAssumption`: at least one entry; the counter's width is more than twice the number of
  entries (65536 and 20 in the code); `NULL` is no object.  Nothing about the block's content.
* `SignalDispatchAssumption`: the bounds and exit codes are numbers.  Nothing about the layout of
  memory: `LowRegions` may hold any region.
* `DosServicesAssumption`, `StraysAreNoObjects`, `BaseDirectoryExists`: the consoles have room in the
  table; the same bound on the counter's width; a pointer found in uncleared memory is not that of a
  `File` the emulator creates later; the directory the emulator is started in exists.  Nothing about
  how many strays there are.
* `HostFilesAssumption`: a word is even (halves are signed numbers); arguments are words.
* `HostTimeAssumption`: a word counts more than two seconds in thousandths.
  `CommandTailAssumption`: the field has room for a blank, `CR` and `LF`; the strings the
  host hands over are finite, those of the environment not empty.  `DosProcessAssumption`: the
  address of the PSP's own transfer area is not one a program passes.
* `Numbers` of `Extender`: a page and a paragraph are not empty; a size, also that of the environment,
  is a word; the limit field counted in units reaches as far as a word (2^20 * 4096 = 2^32).
* `ImagesAreLE`, `Sizes` of `LeImage`: fields have the ranges of their types, object sizes are words and not 0,
  and a page has a list of fixups.  Nothing about the order or the numbers of pages, about indices and
  the places of fixups, or the length of the file: `LoadedAsWritten` names its conditions
  (`Contiguous` with `FitsWord` and `SumIsNumber`; `HoldsPages`) itself.
* `Widths`, `HasEAX`, `Addresses`, `Instructions`, `Selectors`, `WriteBound` of `SegmentRestore`: values
  fit their widths, no address holds two instructions, and the longest stub (35 bytes) fits its
  buffer, a page in the code.

### Along which argument

* **`HandleTable`.**  That the loop ends needs a free entry whenever `mNumEntries < MaxEntries`,
  hence the exact counter; that the counter counts needs `allocate` not to overwrite an entry in
  use and `release` not to free a free one; both need the types.  So `IInv` is `TypeOK`,
  `CountOffByStrays` and `AllocateTerminates` together.  `CounterReads` says what a counter that
  may have wrapped below 0 tells; `UsedFinite` gives the step from counting to "some entry is
  free".  For the refinement, `open` is the block restricted to the entries in use
  (`openMap`); `NextRefines` maps every step, the endless loop to a stutter.
* **`SignalDispatch`.**  `ServicesNeverOverlap` is not inductive: another invocation may hold an
  old value of the counter in a register, about to store it.  `IInv` says which frames can exist
  at all.  Only the first frame of the application thread stands for a call of the program
  (`CallsAreFirst`), so two services would need two threads trapping, and the main thread never
  runs the program.  A memory exception on top of another frame is a fault of the service below
  it, and it has read a counter of 1 or more (`FaultsNest`); that needs `Counted` - a
  running service keeps the counter at 1 or more - which holds only because nothing is decremented
  that was not incremented (`DecrementsPositive`).  `SetupIsAlone` keeps the main thread's
  frames out of the way.  `NoSpuriousRefusal` needs the counter exactly, which is lost as soon as
  `^C` or a fault leaves a frame half-way; `QuietInv` says that without either there is at
  most one frame, and what the counter and its register are at each program counter.
* **`DosServices`.**  `HandlesOwnTheirFiles` needs `mNumEntries` to be the number of entries in use less
  the strays, so that a full table is never overwritten: `allocate` refuses (`RefusedIsFull`) or spins.
  That is the invariant of `HandleTable_proofs`, taken over with its proof (`TableInv`).  It needs
  strays to stay where they were found (`StraysAreFound`), and the consoles not to be opened twice
  (`ConsolesAreBooted`).  `LastFailureIsKept` carries the error from the failing call to a later
  `59h`.  The three action properties are proved with the invariant, call by call (`StepOK`).
  With that invariant each call is a step of `FileService` (`Seen`), for every content of the
  block: the file an open stores is in no other handle, because every file in a handle is live
  (`AllocateGrants`); a refusal means that no handle is free; closing a stray is a stutter.
* **`HostFiles`.**  The invariant is the property: account and position agree modulo a word.  The work is in
  the conversions: `LongKeeps` and `NearMultiple` say that a number that passes through `long` and
  back loses a multiple of 2^32, and none if it was within half a word.
* **`DosProcess`.**  The clock: what the offsets are before the first `2Dh` and after it
  (`FirstOffsets`), and that an answer was computed from the offsets of its time
  (`AnswerIsCurrent`); `UpdateReads` says by what a wrapped fraction shows, `WholeSeconds` and
  `TenthOff` how far thousandths and hundredths drift apart, `NearMidnight` that the drift stays
  below a second across midnight.  The tail: at the top
  of the loop the field holds the arguments so far and two bytes fit behind them
  (`TailIsText`, `TailIsClosed`).  The environment is built in one step: the walk over the
  strings counts each of them, so the size is the block's length.
* **`Extender`.**  `AllocatedIsSum` is modulo nothing: blocks are disjoint runs of pages below a
  word (`Fit`), so their sum stays below it (`FittingBlocks`), and the counter cannot wrap.
  `SelectorsResolve` has to survive destructors that free entries of others: `TablesInv` keeps
  apart the host's entries, the spare ones, and what each constructor has done so far, and `Ours` says what an
  entry of the table's own holds; `LimitIsKept` is the arithmetic of `setDescLimit`: division by the
  unit, the field, and back.
* **`LeImage`.**  `Skeleton` is how far the loader is and who has memory, enough for the properties
  about failures.  `RegionInv` says that with contiguous pages the region begun is the object's,
  from its first page to the one at hand, so that it is mapped once, at the last page.
  `ContentsInv` says of every cell of every object that it is what the file has, if no
  fixup done so far writes there, or what a fixup done so far writes; `SumIsNumber` makes the offset
  the code computes that of the page, `HoldsPages` makes what a read or a map has filled in what the
  file has.
* **`SegmentRestore`.**  While the handler and the stub run, nobody has the program's registers.
  `PhaseInv` says who can still produce them: the saved context, or (`StubRestores`) code in which
  every load of a segment register is preceded by a load of `AX` with the selector it wants, and
  which ends in a reload of `AX` and a jump to `EIP`; and, while it runs, that what has been passed
  is loaded and what is ahead is not yet (`Restoring`).  `SetIsOverlay` is the mask arithmetic
  against the bytes, for every width; `CodeIsRight` follows the code generator.

**Induction over data.**  The library's induction theorems take a predicate as a parameter,
which the installed provers cannot instantiate.  Where the proofs need induction -
concatenations of any number of arguments, sums over blocks, pages of an object, the folds of
the community modules - they take a least counterexample: a set of numbers has a smallest
element (`LeastOf`, from the well-foundedness of `<` on `Nat`), and it is shown not to be one.

**Only model-checked.**  Liveness under fairness, which TLAPS does not reach:
`TrapsAreAnswered` and `InterruptEndsProcess` (`SignalDispatch`), and `ComesBack`
(`SegmentRestore`).  So are, of course, the four properties the code violates.


## 6. What is not modelled

* **Bytes**: what a file, a memory block or the PSP's fixed fields contain.
* **`Descriptor::setLimit` and `DarwinLDT::setLimit`**: nothing calls them.
* **Page protection** in `UnixMemMap.cpp`: which access a page allows changes no path of the code.
* **Loader error texts** (`ImageLoaderException.cpp`): a table; `LeImage` carries the codes.
* **Interfaces, singletons, factory functions, tracing and dumps**: no control of their own.


## 7. Plan

Done, in this order because the later ones rest on the earlier: `SignalDispatch`;
`HandleTable` with its proofs; `DosServices`; `LeImage`; `SegmentRestore`; `Extender`; `HostFiles`;
`HostTime`, `CommandTail` and their composition `DosProcess`; then the proofs of the invariants
and action properties of all of them, and that `DosServices` implements `FileService`.

Next:

1. The stub and the dispatcher are proved apart.  That no invocation of the handler comes between
   the emission of the stub and its execution follows from `ServicesNeverOverlap` and the
   range test; a module that composes the two would state it.
2. Shorter proofs: the lemmas on quotients and remainders, on least counterexamples and on sums
   over finite sets are repeated where they are used, and could be one module.

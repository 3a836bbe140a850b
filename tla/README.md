# A verification project for the little_penguin modules

The repository holds ten exercises in writing Linux kernel modules. Four of the modules offer files to user space, one
is a driver for a USB keyboard, two only print or sleep. What user space can do to the files, and what happens when the
modules come and go under it, is what this project models; so are the transfers that the vendored `ex04/libusb.h`
builds. Each part has a TLA+ module. TLC checks it on small instances, and TLAPS proves for every instance each safety
property the passing runs check.

## 1. The system

| part | source | state | operations |
|---|---|---|---|
| `foo` | `ex07/debugfs.c` 17-18, 71-78, 107-121 | `foo_data` (one page), `foo_size`, the position of every open file | `foo_write`, `foo_read`, `open` |
| `id` | `ex07/debugfs.c` 44-69, 80-105 | the position | `id_read`, `id_write` |
| `jiffies` | `ex07/debugfs.c` 125-136 | the kernel's clock, the position | `jiffies_read` |
| `/dev/fortytwo` | `ex05/misc_device.c` | the position (`msg`, `len`, `size` are written and never read) | `misc_read`, `fortytwo_write`; `misc_open`, `misc_release` |
| `/dev/reverse` | `ex08/fix.c` | `str` (one page), the global `tmp`, the positions, what `kmalloc` gave | `myfd_read`, `myfd_write` |
| `/proc/mymounts` | `ex09/mount.c`, its copies `ex09/copy.c` and `ex09/research.c` | the namespace pointer and the seq_file of every open file; the kernel's mount tree | `mymounts_open`, the four seq operations, `mymounts_release` |
| registration | init and exit functions of ex01, ex03, ex04, ex05, ex07, ex08, ex09 | `dir`, the registered names, the loader's reference counts | `insmod`, `rmmod`, `modprobe` |
| keyboard hotplug | `ex04/detect_hotplug_event.c` | what each keyboard is to the driver | `my_hid_probe`, `my_hid_remove`, the device table |
| USB transfers | `ex04/libusb.h`, the inline functions | setup packet, transfer, packet descriptors | the fill functions, the packet loops and lookups, the descriptor requests |

Nothing in the modules calls anything else in them. They meet in the kernel: user space calls the handlers through the
VFS, several calls run at once, the module loader maps and frees the code under them, keyboards and mounts come and go.
The shared memory is the page of `foo`, the page and `tmp` of `/dev/reverse`, and the kernel's mount tree; nobody in the
repository locks any of them. `libusb.h` is included by nothing, so its functions are modelled as what they offer to a
program that uses them.

What is hard, and what makes each part correct:

* `foo`: two unlocked stores (bytes, then size), copies that take time and can fault half way. Correct if what was
  stored is what is read, at least for callers that do not run into each other.
* the login files: calls on one open file overlap on `/dev/fortytwo`, copies stop early, and an answer to a write is a
  read in disguise that moves the position. Correct if readers get the login, all of it, and then the end.
* `jiffies`: every piece of a reading is of another text, which grows. Correct if a reader is not shown a time that has
  not come, and comes to the end.
* `/dev/reverse`: reads build their text through a global pointer that other reads move, memory is never freed, the
  terminator lands one byte late. Correct if a read delivers the page reversed, and no read follows a null pointer.
* loading: init functions ignore failures, exit functions differ in what they take back, file operations in whether
  they pin the module. Correct if no memory of a module is used after the module is gone, and loads and unloads end.
* keyboards: plugged in and out around a load and an unload. Correct if a supported one gets the module loaded and is
  bound, and the driver's code is there whenever it is called.
* `/proc/mymounts`: a position that is an index into a tree that changes, no lock, not even for the steps inside an
  `rb_next`, a buffer that overflows and is restarted. Correct if a reader sees every mount that was there throughout,
  once; the code can promise that only as long as no change falls into an `rb_next`.
* transfers: bytes laid out for either byte order, a length read back from a packet filled earlier, sums and products
  of packet lengths, fields left over from another use. Correct if a device reads the request that was asked for, the
  length is the one asked for and every packet lies in the buffer.

The hazards, at their lines, are listed in `PROJECT.json`, each with the properties about it or the reason there is none.

## 2. The modules

| module | models | proved in |
|---|---|---|
| `SafePage` | what `foo` promises: a safe register of one page | |
| `FooFile` | `foo`, byte by byte; refines `SafePage` | `FooFileProofs` |
| `LoginFile` | `/dev/fortytwo` and `id` | `LoginFileProofs` |
| `JiffiesFile` | `jiffies` | `JiffiesFileProofs` |
| `Reverse` | `/dev/reverse`, byte by byte | `ReverseProofs` |
| `DriverLife` | loading, use and unloading of ex01, ex03, ex04, ex05, ex07, ex08, ex09 | `DriverLifeProofs` |
| `MyMounts` | `/proc/mymounts` under `seq_read` and `seq_lseek` | `MyMountsProofs` |
| `UsbTransfer` | the inline functions of `libusb.h` | `UsbTransferProofs` |
| `MCFooFile`, `MCMyMounts`, `MCReverse`, `MCUsbTransfer` | the symmetry, the line lengths, the user buffers, the requests of the runs | |
| `DataInduction` | nothing of the code: induction over the numbers and recursion, for two of the proofs | itself |

**FooFile.** One action per step a concurrent call can see: entering (`FooWriteEnter`, `FooReadEnter`: the checks of the
handler; the read samples `foo_size` here, as an argument), one per copied byte, and returning (`FooWriteReturn` stores
`foo_size`, `FooWriteFault` does not). An open file is the unit of concurrency, since the kernel locks the position of a
regular file. How much of a caller's buffer is accessible is an input, so every copy can fault anywhere; `copy_from_user`
then zero-fills. `settled`, `stale` and `overlap` are history: the last write that ran alone, and which calls and
readings met a write.

`SafePage` is Lamport's safe register: a read that overlaps no write delivers the last good write; any other read may
deliver a mixture, but every byte at its own offset. `FooFile` implements it with `stored <- settled` and `delivered`
the bytes of the calls that returned. It is the strongest thing the code does promise: without a lock it is not atomic.

**LoginFile.** One open file of either device, shared by readers, which read to the end as `cat` does, and writers. A
call is two steps, because the kernel passes the handler a copy of the position and stores it afterwards: `Enter`, and
one return action per outcome. For `id` the lock of `MayEnter` makes the two steps atomic to others; for
`/dev/fortytwo`, a character device, there is none. The bytes are their offsets. A user's buffer says what follows the
login in it, and is overwritten by `FortytwoWriteMatch`, as the code does.

**JiffiesFile.** One open file and a process that reads it to the end with buffers of any size, then opens it anew.
`Tick` moves the clock between any two reads and inside them, `ReadCall` prints it, the return delivers what lies at
the position and may fault. The text is made digit by digit from the clock (`Text`), since the properties are about
digits; `Base` and `Word` are small in the run so that the text grows and the clock wraps. `Number` reads the digits a
reader was given back; it and `Power` are recursive functions, so that they can be proved about.

**Reverse.** One process per open file. A read is: two pages from `kmalloc` (`asked`, `heap`, `tmp`), `strlen` byte by
byte, one step per reversed byte, each through `tmp` as it was last loaded (`to`), the copy to the caller, the return. A
write copies, then stores its terminator at `size + 1`. `Oops` is the read that finds `tmp` NULL. Counts have no limit, in
the code as in the model: from `PAGE_SIZE - 1` on the terminator falls behind the array, from `PAGE_SIZE` on a `strlen`
that comes before it finds no end, above that the copy itself runs over the array. What lies behind is up to the build,
so the first access there (`LeavePage`) sets `wild` and ends the model (`Undefined`).

**DriverLife.** For each driver the stages of `mod` between `insmod` and the freeing of its image; `refs`, `node` (the
names that lead to it) and `file` (what is open, in which image, with a call inside or not, revoked or not). Old images
are not told apart: a name or file leads either to the image in memory or to a freed one, which makes the number of
loads unbounded. What differs between the drivers is `Owner`, `Revoking`, `Releasing`, and the init and exit actions.
`misc_mtx` makes an open of a misc device one step with respect to its removal, and debugfs and proc do the same for
theirs, so `Open` is one action. Of `hid`, `dev` is what each keyboard is to the driver and `uevent` what udev still has
to do: `modprobe` runs once for each keyboard plugged in, and only loads a module that is not there, for on one that is
being unloaded `init_module` fails with `-EBUSY` and udev does not try again. The init function of `task` sleeps `Sleeps`
times. `stale` and `stray` are history: memory of a freed image was
used; the directory could not be made. Freed memory is in fact reached for `misc` (no owner, nothing drained) and
`reverse` (never deregistered); the properties say of which drivers it is not.

**MyMounts.** One action per step of a walk, with `MountOne`, `Umount` and `FreeNamespace` between any two of them and
inside them. `rb_next` follows several links that rebalancing sets one at a time, so if the tree changed since the walk's
last step (`moved`), the next one either came after the change or was torn by it (`Step`): it may end at any mount, before
or behind, at the end, or, if mounts went, at a freed one (`RbNextTorn`). The history `since.torn` says that one was.
`seq_read` and `traverse` are external but modelled in full, since what `mymounts_next` does with the position only
matters through them: one record fetched first, the buffer doubled until it fits, further records while they fit, what
the caller did not take kept for the next call. A freed node's links are any mount or none, and following one sets
`wild`, with which the model stops (`Undefined`). `Reopen` closes the file and opens it again. A byte of the listing is a mount and a place in its line; `Begins`
says at which offset the line of a mount begins, as the number of bytes of the lines before it (`Length`).

**UsbTransfer.** A program that calls the functions in any order on one transfer and one setup packet, on a machine of
either byte order (`big`). Half-words are two bytes in memory, of 256 values, and requests, types and directions the
numbers of the header; the loops over packets take one step per packet and read `num_iso_packets` anew, with the unsigned
comparison of the code; `Simple` multiplies modulo an unsigned int. Pointers are addresses, `NULL` is 0, and a lookup
adds its offset to whatever `transfer->buffer` is. Nothing is cleared between two fillings, as in the code. `Begin`, where
each packet begins in the buffer, is a recursive function of the lengths.

## 3. The runs

| run | configuration | shows | distinct states |
|---|---|---|---|
| `foo` | `MCFooFile.cfg` | `TypeOK`, `SettledOnPage`, `SessionReadsOneWrite`, `ImplementsSafePage` | 1.4 million |
| `foo_torn` | `FooFileTorn.cfg` | a violation: a read returns two payloads mixed | |
| `login` | `LoginFile.cfg` | `TypeOK`, `NoByteSkipped`, `IdGivesOnce`, `ReadersFinish` | 228 thousand |
| `login_ignored` | `LoginFileIgnored.cfg` | a violation: the right login is answered with 0 | |
| `jiffies` | `JiffiesFile.cfg` | `TypeOK`, `NeverAhead`, `NewlineAtEnd`, `ReaderFinishes` | 148 thousand |
| `reverse` | `MCReverse.cfg` | `TypeOK`, `OnlyLongWritesLeave`, `NoWrongByte`, `AloneReversed`, `OneStaleByte`, `OopsOnlyWhenOut` | 5.1 million |
| `drivers` | `DriverLife.cfg` | `TypeOK`, `RefsMatch`, `BusyIsBacked`, `NodesAreBacked`, `UnloadIsSafe`, `KeyboardsAreBacked`, `LoadsAndUnloadsEnd`, `KeyboardLoads`, `KeyboardBinds` | 47 thousand |
| `debugfs_leftover` | `DriverLifeLeftover.cfg` | a violation: files outlive the module | |
| `mymounts` | `MCMyMounts.cfg` | `TypeOK`, `StillListing`, `MountingHidesNothing`, `UnmountingRepeatsNothing`, `OnlyUnmountsHurt`, `CallsReturn` | 1.7 million |
| `mymounts_seek` | `MyMountsSeek.cfg` | a violation: a seek into the last line repeats it | |
| `mymounts_race` | `MyMountsRace.cfg` | a violation: an umount leaves the walk on freed memory | |
| `usb` | `MCUsbTransfer.cfg` | `TypeOK`, `SetupIsPortable`, `DescriptorFits`, `LookupsAgree`, `PacketsInBuffer`, `LengthMatchesSetup`, `AllPacketsSet` | 436 thousand |

Every violation is a sentence of the repository's own documents that the code does not keep; `PROJECT.json` quotes them.
Three more such sentences need no run to be refuted; the models do what the code does, and the properties leave them out:

* `libusb_fill_control_transfer` with a NULL buffer "will not attempt to populate the length field"
  (`libusb.h:1984-1986`), but line 2017 sets it to 0 (`FillControlTransfer`).
* `libusb_get_iso_packet_buffer` returns "NULL if the packet does not exist" (`libusb.h:2166-2167`), but not only then:
  filling a control transfer with a NULL buffer leaves `num_iso_packets` alone, and packets left over from an earlier use
  are found at NULL plus their offset (line 2190, `GetReturns`), the first of them at NULL.
* my_hid is to be loaded "when any USB keyboard is plugged in" (`ex04/README.md:5-6`), but the table of
  `detect_hotplug_event.c:18` holds one product (`Supported`); for any other keyboard nothing is ever loaded.

Every property of a passing run has a mutant: a plausible slip in the code, written next to the definition it replaces,
under which TLC finds the property violated.

What some properties leave open, because the code does. `NeverAhead` bounds a pieced-together time from above only: it
may be older than the first piece. `NewlineAtEnd` allows one extra newline for each time the number of digits grows.
`NoWrongByte` allows bytes of fresh memory where reads run together. `OneStaleByte` allows the byte of an older text
that the late terminator leaves. `UnmountingRepeatsNothing` excludes walks that stood on the mount that went, and both it
and `MountingHidesNothing` exclude listings one of whose `rb_next` was torn by a change: such a step can skip a subtree
or go back. `KeyboardLoads` excludes keyboards outside the table, for which nothing is ever loaded, and keyboards
plugged in while the module is being unloaded, for which nothing is loaded either. `PacketsInBuffer` says of a transfer
without a buffer only that packets that are not there give NULL. `NodesAreBacked` and `UnloadIsSafe` exclude a debugfs
module whose directory could not be made, which `debugfs_leftover` is about.

### Bounds

* `foo`: two writers and a reader, two payloads, a page of two bytes, counts up to three (`MaxCount`). A page can be
  full, half full and overrun, two writes can mix within it, a reading can take several chunks.
* `login`: two readers and a writer; a login of two bytes (one and the newline), an answer of four, room for two in the
  array beside the terminator, counts up to three: counts below, at and above each limit, answers that move the position
  within the login, past it and past themselves. `login_ignored` takes one reader and writer and a login of three.
* `jiffies`: base two, a clock of eight values, counts up to three: texts of one to three digits, growth in the middle
  of a reading, and the wrap.
* `reverse`: two files, one payload, a page of four, memory for two reads (`Heap`), two writes (`MaxWrites`) of one or
  two bytes, with and without a fault in the middle, of three, whose terminator falls behind the page, and of five, which
  do not fit. Reads can move `tmp` under each other, run out of memory, meet a short text over a longer one, and a
  `strlen` can miss the end.
* `drivers`: all seven modules, any two of them on one machine (`MaxBuilt`), one open file, one supported keyboard, two
  sleeps. The modules do not touch each other's state, so pairs show what any number does; the proofs hold for more
  modules, files and keyboards at once. `debugfs_leftover`: the debugfs module and two files.
* `mymounts`: the root, one mount that covers it and is skipped, two listed ones with lines of different lengths, a
  first buffer smaller than the longest line needs, reads of one or two bytes (`MaxRead`), so that a read can end within
  a line, take a whole one or span two, every offset up to one past the listing (`Offset`).
* `usb`: every standard request once, with all types, directions and recipients among them, values and lengths whose
  bytes differ (`MCRequest`); an `int` just wide enough for a setup packet and the longest data; room for two packets, of
  half the longest buffer or of a length that is no `int`, for sums that just fit and that do not; lookups of the packets
  there are, of the one behind them and of one beyond `INT_MAX`; descriptor requests of every type, with a buffer of
  nothing and one longer than 16 bits tell.

Two of the bounds are preconditions that the proofs share: lengths of buffers are not negative (`Length`), and a program
gives a transfer at most as many packets as it had allocated (`Alloc`), as the documentation of `libusb_alloc_transfer`
demands; the header checks neither. Every other bound is a constant of which the proofs assume no more than its type.

No run needs its deadlock check turned off.

### Fairness

Only what the scheduler of the kernel gives.

* `DriverLife`: the thread that loads or unloads goes on (`ModuleStep`), as do udev (`Modprobe`), the driver core
  (`KeyboardStep`) and calls inside a driver (`CallReturns`), all weakly. `KeyboardLoads` needs no more than that: a
  keyboard that is plugged in while no unload is under way finds the module live, coming, or gone, and then `Modprobe`
  loads it, unless an unload begins first.
* `LoginFile`: calls return (`WF`); readers read on until told to stop, with `SF` on `ReadCall`, because the position
  lock of a regular file is a mutex that is handed to its waiters.
* `JiffiesFile`: the reader reads on (`WF` of `Read`). The clock may tick or not.
* `MyMounts`: a call that runs goes on (`WF` of `Running`, until freed memory was reached). `CallsReturn` allows for a
  walk that followed a freed pointer: what happens then is out of the code's hands.

Nobody has to open, close, write, mount, plug in or unload. `Reverse`, `FooFile` and `UsbTransfer` have no fairness:
what is said of them is safety.

## 4. The proofs

All theorems are for any values of the constants, under the assumptions named in the modules (`FooAssumption`,
`LoginFileAssumption`, `JiffiesFileAssumption`, `DriverLifeAssumption`, `ReverseAssumption`, `MyMountsAssumption`,
`UsbTransferAssumption`), which the runs evaluate. `JiffiesFileAssumption` says that the longest time and its newline
leave a byte for the terminator in `data`: at most 20 digits of a 64-bit `jiffies` in the code. Every proof has the
same frame: an invariant that is inductive, shown for `Init`, for each
action, and to imply the property.

*FooFileProofs.* `TypeCorrect`, `Settled`, `SessionConsistent` and `Refinement`. `SettledOnPage` is not inductive: it is
silent while a write runs. The invariant `IInv` adds what a lone writer has copied so far (`LoneWriter`), that of two
writers in flight each knows of the other (`TwoWritersKnow`: the second to enter marks both), and that a read which
began while nobody wrote still has its bytes on the page (`QuietRead`, `QuietBytes`). The refinement maps every step of
`FooFile` to a step of `SafePage` or a stutter, action by action, under that invariant.

*LoginFileProofs.* `TypeCorrect`, `NothingSkipped`, `GivenOnce`. The key is `Covered`: not only the position but every
position some call in flight was given has the login delivered up to it, so a call that returns late may set the
position back but never makes anyone miss a byte. For `id`, `Exact` adds that one call runs at a time.

*ReverseProofs.* `TypeCorrect` and `NoOops` from `IInv`: how far the loops of the handlers go (`Bounded`), and that `tmp`
is the buffer handed out last, or NULL only after a refusal (`Memory`, `Served`). `LongWritesLeave` proves
`OnlyLongWritesLeave` from `PageInv`: the last byte of the page stays zero and every running `strlen` is
inside it, unless a write of a page or more goes on.
`StaleByte`, `NoneIsWrong` and `ReversedAlone` from `TInv`, which adds to it who can have met a write (`Taint`), what a
lone write has stored (`Stored`), that the buffer a read uses and all younger ones hold only right bytes or fresh memory
(`Buffers`, which is why a moved `tmp` does no more harm than that), and that a read which meets no other fills its own
buffer from the front (`Alone`).

*DriverLifeProofs.* `TypeCorrect`, `CountsMatch`, `CallsAreBacked`, `NamesAreBacked`, `UnloadSafe`,
`KeyboardsBacked`. Two arguments in one invariant: files with an owner pin the module (`Pinned`), which needs that the reference count is the number of such
files (`RefsMatch`, with the cardinality lemmas of the library); files of mount.c do not, but are revoked and drained
before the image goes (`Revoked`). `Named` and `Strays` say when a name can still lead anywhere.

*JiffiesFileProofs.* `TypeCorrect`, `TimeHasCome`, `EndsWithNewline`. A reading is pieced together from texts of
different times. The invariant says that, until the clock wraps, these times are in order (`Ordered`); how far into the
text of the last of them the position is, and that each newline before it was the end of a shorter text (`Lines`); and,
while the number of digits stays, that the digits read so far make a number no greater than as many leading digits of
that last text (`Clock`). What this needs of the text (a time of `k` digits is below `Power[k]`, its leading digits make
its `Leading` numbers, both grow with the time) is arithmetic of division and induction over the number of digits.

*MyMountsProofs.* `TypeCorrect`; `NothingRepeated` and `NothingHidden`, two mirrored arguments about one number. The
position is an index, the tree is ordered by id; `Count(T, a, b)`, the number of mounts of `T` from `a` up to `b`,
relates them. While mounts only go, the rank of what was passed can only fall: `NoRepeat` keeps every passed mount
ranked below the position (`Ranked`), and follows `mymounts_start` counting up to it (`StartCounts`). While mounts only
come, the rank of what is still to come never falls: `NoneHidden` keeps every missing mount at or
behind the position (`StartMisses`, `ShowMisses`, `RestMisses`), so none is missing at the end (`EndMisses`). Both are
about walks no step of which was torn; `Turned` says that only a change since the walk's last step tears one.
`ListingRead` proves `StillListing`. A position is turned into an offset, `From(T, k)`: the length of the lines of the
mounts counted before it; the line of a mount lies from the offset of its position to that of the next (`LineLies`).
The invariant `Kept` says that the buffer ends at the offset of the position, through every doubling, batch and short
copy (`BufferStands`), that each byte in it and each one delivered stands where the listing has it (`GotStands`), and
that the walk holds the mount it counts (`Walks`). It also says why `traverse` is right up to the start of the last line and no
further: `mymounts_next` does not move the position at the end of the tree, which `seq_read` makes good and `traverse`
does not, and the offset looked for is reached before that (`Traverses`). `OnlyUnmountsDo` proves `OnlyUnmountsHurt`, the
other side of the violation `mymounts_race` shows: while nothing went away since the position was computed, the
namespace lives and a walk holds a mount of its tree or none (`Held`), even after a step that a new mount tore, so no
step of it follows a freed pointer.

*UsbTransferProofs.* `TypeCorrect`, `Portable`, `DescriptorsFit`, `SimpleIsRight`, `PacketsLieInside`, `LengthIsRight`, `AllAreSet`. The
loops say what they have done so far (`Setting`, `Getting`, `Found`); the half-words need that division by 256 undoes
the joining of two bytes, and the simple lookup that a product which fits in the buffer does not wrap. For
`PacketsLieInside` the sum a lookup has made is the `Begin` of the packet it has come to, and `Begin` only grows, so the
packet ends where the next begins, at or before the end of the last (`BeginGrows`).

*DataInduction.* The library's induction theorems take a predicate as a parameter, which none of the provers can be
given. Here a set stands for the predicate, so that induction over the numbers is a fact about sets (`SetInduction`,
`RangeInduction`, from the well-foundedness of `<`), and a function for the step of a recursion (`RecursionExists`):
what makes `Begin`, `Power` and `Number` mean what their definitions say is proved from these.

*Model-checked only.* Liveness (`ReadersFinish`, `ReaderFinishes`, `LoadsAndUnloadsEnd`, `KeyboardLoads`,
`KeyboardBinds`, `CallsReturn`) needs ENABLED and fairness, which are out of the prover's reach.

## 5. Not modelled, and why

* `ex09/my_mount.c` declares four operations it never defines and does not link; its empty exit function serves as the
  mutant `MyMountsExitEmpty`. `ex04/transport.c` does not compile.
* The udev rule of ex04 writes to the directory of a driver named "Test USB driver"; no module registers that name, so
  the rule changes nothing.
* `ex02/Makefile` is third party; `ex00`, `ex02/dmesg.txt` and `ex06` are logs and configurations; the `.mod.c` files
  are generated and enter only through the init and exit functions they name, and the alias of my_hid.
* `fill_data` of ex05 writes variables nobody reads. A write of count 0 to `/dev/fortytwo` inspects the byte before a
  local array; no value of it changes the outcome of the call.
* What an access outside the page of `/dev/reverse` hits, which is the linker's choice. The 1 that is added to the value
  a write returns shows in no state.
* `pread` on `/proc/mymounts`; an open of it that fails, which changes nothing.
* `id` accepts data that `/dev/fortytwo` rejects, although `ex07/README.md:17` asks for the same behaviour; it is plain
  from the two returns of `id_write` and has no run.
* Of `libusb.h`: declarations, constants and descriptor structures, which have no behaviour, and the fields the fill
  functions only copy.

What could be added: `pread` in `MyMounts`, with `read_pos` apart from the file position; the values returned by
`/dev/reverse`'s write, for callers that write in a loop.

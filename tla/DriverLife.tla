------------------------------ MODULE DriverLife ------------------------------
(***************************************************************************)
(* Loading, using and unloading the modules of the exercises:              *)
(*                                                                         *)
(*   misc      ex05/misc_device.c  /dev/fortytwo                           *)
(*   debugfs   ex07/debugfs.c      /sys/kernel/debug/fortytwo/{id,...}     *)
(*   reverse   ex08/fix.c          /dev/reverse                            *)
(*   mymounts  ex09/mount.c        /proc/mymounts                          *)
(*   hid       ex04/detect_hotplug_event.c   a driver for USB keyboards     *)
(*   hello     ex01/hello.c        nothing                                 *)
(*   task      ex03/task.c         nothing, but its init function sleeps   *)
(*                                                                         *)
(* The four with files ignore what registration returns; their exit        *)
(* functions differ in what they take back, and their file operations in   *)
(* whether an open file pins the module.  The question is whether the      *)
(* kernel can come to run, or read, the memory of a module that is gone.   *)
(* Of hid it is also whether it is loaded for a keyboard and bound to it.  *)
(*                                                                         *)
(* External: the module loader (a module is removed only with no reference *)
(* left, and no new reference is taken once it is going), misc_open and    *)
(* debugfs's open, which take a reference for the owner of the operations  *)
(* if there is one, and the removal of proc and debugfs entries, which     *)
(* makes later calls fail and waits for those in flight; the driver core,  *)
(* which probes and removes one device at a time and unbinds all of them   *)
(* when the driver is unregistered; udev, which runs modprobe for a new    *)
(* device whose identity is in the table of a module.                      *)
(***************************************************************************)
EXTENDS Integers, FiniteSets

CONSTANTS Driver,     \* the modules that are loaded and unloaded
          Fd,         \* open files
          Keyboard,   \* USB keyboards
          Supported,  \* those of the vendor and product in my_hid_ids
          Sleeps,     \* how often task.c sleeps: 10
          MaxBuilt    \* bound: how many of the modules one machine loads at all

ASSUME DriverLifeAssumption ==
  /\ Driver \subseteq {"misc", "debugfs", "reverse", "mymounts", "hid", "hello", "task"}
  /\ Supported \subseteq Keyboard
  /\ Sleeps \in Nat /\ MaxBuilt \in Nat
  /\ IsFiniteSet(Fd)

\* Mutant of Owner: fix.c without the .owner line.
OwnerOfDebugfsOnly == {"debugfs"}

\* Whose file_operations name an owner: opening the file pins the module.
Owner == {"debugfs", "reverse"}

\* Whose entries are revoked, and calls on them drained, when they are removed.
Revoking == {"debugfs", "mymounts"}

\* Whose release operation is code of the module.
Releasing == {"misc", "mymounts"}

\* The modules that offer files.
Offering == {"misc", "debugfs", "reverse", "mymounts"}

\* Mutant of DeviceTable: detect_hotplug_event.c without MODULE_DEVICE_TABLE.
DeviceTableMissing == {}

\* The keyboards for which udev loads my_hid.
DeviceTable == Supported

VARIABLES
  built,  \* the modules that this machine has; never changed
  mod,    \* mod[d]: "out", "coming", "filling", "live", "going", "draining", "dying"
  refs,   \* refs[d]: the module's reference count
  node,   \* node[d]: the images of d whose files, or whose driver, can be looked up
  dir,    \* debugfs.c's dir is not NULL
  dev,    \* dev[k]: what keyboard k is to my_hid, see below
  uevent, \* uevent[k]: udev has not yet dealt with k having been plugged in
  slept,  \* task.c's x: how often its init function has slept
  file,   \* file[f]: the open file f, or Closed
  stray,  \* a debugfs directory could not be made (history)
  stale   \* stale[d]: memory of an unloaded d was used (history)

others == <<built, dev, uevent, slept>>
vars == <<built, mod, refs, node, dir, file, stray, stale, dev, uevent, slept>>

\* Every load of a module has its own image: the one in memory, or a freed one.
Image == {"mapped", "freed"}

Closed == [drv |-> "none", image |-> "freed", busy |-> FALSE, dead |-> FALSE]
Openings == [drv : Driver, image : Image, busy : BOOLEAN, dead : BOOLEAN]

\* Unplugged; without my_hid; in my_hid_probe; bound; in my_hid_remove because it was
\* unplugged; in my_hid_remove because the driver is unregistered.
DevState == {"absent", "idle", "probing", "bound", "leaving", "detaching"}
Attached == DevState \ {"absent", "idle"}

\* The stages of rmmod.
Unloading == {"going", "draining", "dying"}

\* Module d is loaded and has got as far as stage s.
At(d, s) == d \in Driver /\ mod[d] = s

Of(f, d) == file[f].drv = d

\* The open files that hold a reference to module d.
Holders(d) == {f \in Fd : d \in Owner /\ Of(f, d)}

Init ==
  /\ built \in {D \in (SUBSET Driver) \ {{}} : Cardinality(D) <= MaxBuilt}
  /\ mod = [d \in Driver |-> "out"]
  /\ refs = [d \in Driver |-> 0]
  /\ node = [d \in Driver |-> {}]
  /\ dir = FALSE
  /\ file = [f \in Fd |-> Closed]
  /\ stray = FALSE
  /\ stale = [d \in Driver |-> FALSE]
  /\ dev = [k \in Keyboard |-> "absent"]
  /\ uevent = [k \in Keyboard |-> FALSE]
  /\ slept = 0

-----------------------------------------------------------------------------
(* insmod: a fresh image is mapped and its init function runs.             *)

Load(d) ==
  /\ mod' = [mod EXCEPT ![d] = "coming"]
  /\ dir' = IF d = "debugfs" THEN FALSE ELSE dir
  /\ slept' = IF d = "task" THEN 0 ELSE slept
  /\ UNCHANGED <<built, refs, node, file, stray, stale, dev>>

Insmod(d) ==
  /\ d \in built /\ mod[d] = "out"
  /\ Load(d)
  /\ UNCHANGED uevent

\* udev runs modprobe for a keyboard in the table, which the module's alias makes known,
\* once.  It loads the module only if there is none: it does nothing if the module is
\* live, takes the outcome of a load that is under way, and fails, with -EBUSY, on a
\* module that is being unloaded.
Modprobe(k) ==
  /\ uevent[k]
  /\ uevent' = [uevent EXCEPT ![k] = FALSE]
  /\ IF k \in DeviceTable /\ "hid" \in built /\ mod["hid"] = "out"
     THEN Load("hid")
     ELSE UNCHANGED <<built, mod, refs, node, dir, file, stray, stale, dev, slept>>

\* Registration makes the files of this load appear, unless it fails: always if
\* files of that name exist, or for reasons of its own.
Register(d) ==
  \/ /\ node[d] = {}
     /\ node' = [node EXCEPT ![d] = {"mapped"}]
  \/ UNCHANGED node

\* misc_init: misc_register, whose result is dropped.
MiscInit ==
  /\ At("misc", "coming")
  /\ Register("misc")
  /\ mod' = [mod EXCEPT !["misc"] = "live"]
  /\ UNCHANGED <<refs, dir, file, stray, stale, others>>

\* myfd_init: misc_register, whose result is dropped; the 1 it returns makes the
\* loader warn and go on.
MyfdInit ==
  /\ At("reverse", "coming")
  /\ Register("reverse")
  /\ mod' = [mod EXCEPT !["reverse"] = "live"]
  /\ UNCHANGED <<refs, dir, file, stray, stale, others>>

\* my_mounts_init: proc_create, whose result is dropped.
MyMountsInit ==
  /\ At("mymounts", "coming")
  /\ Register("mymounts")
  /\ mod' = [mod EXCEPT !["mymounts"] = "live"]
  /\ UNCHANGED <<refs, dir, file, stray, stale, others>>

\* create_directory: on failure dir stays NULL and debugfs_init does not notice.
CreateDirectory ==
  /\ At("debugfs", "coming")
  /\ dir' \in BOOLEAN
  /\ stray' = (stray \/ ~dir')
  /\ mod' = [mod EXCEPT !["debugfs"] = "filling"]
  /\ UNCHANGED <<refs, node, file, stale, others>>

\* create_files: below dir, that is below the root of debugfs if dir is NULL.
\* There, files left by an earlier load stand in the way.
CreateFiles ==
  /\ At("debugfs", "filling")
  /\ \/ /\ dir \/ node["debugfs"] = {}
        /\ node' = [node EXCEPT !["debugfs"] = @ \cup {"mapped"}]
     \/ UNCHANGED node
  /\ mod' = [mod EXCEPT !["debugfs"] = "live"]
  /\ UNCHANGED <<refs, dir, file, stray, stale, others>>

\* module_hid_driver: the only init function that returns what registration did,
\* so that the module goes if that failed.
HidInit ==
  /\ At("hid", "coming")
  /\ \/ /\ node' = [node EXCEPT !["hid"] = {"mapped"}]
        /\ mod' = [mod EXCEPT !["hid"] = "live"]
     \/ /\ mod' = [mod EXCEPT !["hid"] = "out"]
        /\ UNCHANGED node
  /\ UNCHANGED <<refs, dir, file, stray, stale, others>>

\* hello_init.
HelloInit ==
  /\ At("hello", "coming")
  /\ mod' = [mod EXCEPT !["hello"] = "live"]
  /\ UNCHANGED <<refs, node, dir, file, stray, stale, others>>

\* One usleep_range of do_work.
DoWork ==
  /\ At("task", "coming") /\ slept < Sleeps
  /\ slept' = slept + 1
  /\ UNCHANGED <<built, mod, refs, node, dir, file, stray, stale, dev, uevent>>

\* my_init, which drops the product that do_work returns.
MyInit ==
  /\ At("task", "coming") /\ slept = Sleeps
  /\ mod' = [mod EXCEPT !["task"] = "live"]
  /\ UNCHANGED <<refs, node, dir, file, stray, stale, others>>

-----------------------------------------------------------------------------
(* Keyboards.  The driver core deals with one device at a time.            *)

Becomes(k, s) ==
  /\ dev' = [dev EXCEPT ![k] = s]
  /\ UNCHANGED <<built, mod, refs, node, dir, file, stray, stale, slept>>

Plug(k) ==
  /\ dev[k] = "absent"
  /\ uevent' = [uevent EXCEPT ![k] = TRUE]
  /\ Becomes(k, "idle")

\* A keyboard is unplugged: my_hid_remove is called if it is bound.
Unplug(k) ==
  /\ \/ dev[k] = "idle" /\ Becomes(k, "absent")
     \/ dev[k] = "bound" /\ Becomes(k, "leaving")
  /\ UNCHANGED uevent

\* my_hid_probe is called for a keyboard of the driver's id_table ...
Probe(k) ==
  /\ dev[k] = "idle" /\ k \in Supported
  /\ "hid" \in built /\ node["hid"] # {}
  /\ Becomes(k, "probing")
  /\ UNCHANGED uevent

\* Mutant of ProbeReturns: my_hid_probe returns an error.
ProbeFails(k) ==
  /\ dev[k] = "probing"
  /\ Becomes(k, "idle")
  /\ UNCHANGED uevent

\* ... and returns 0.
ProbeReturns(k) ==
  /\ dev[k] = "probing"
  /\ Becomes(k, "bound")
  /\ UNCHANGED uevent

RemoveReturns(k) ==
  /\ \/ dev[k] = "leaving" /\ Becomes(k, "absent")
     \/ dev[k] = "detaching" /\ Becomes(k, "idle")
  /\ UNCHANGED uevent

\* hid_unregister_driver calls my_hid_remove for a bound keyboard.
Detach(k) ==
  /\ At("hid", "draining") /\ dev[k] = "bound"
  /\ Becomes(k, "detaching")
  /\ UNCHANGED uevent

-----------------------------------------------------------------------------
(* Open files.                                                             *)

\* A name that outlived its module leads into freed memory.  With an owner, open
\* fails once the module is going; else it succeeds and pins nothing.
Open(f, d) ==
  /\ file[f] = Closed /\ d \in Offering /\ "mapped" \in node[d]
  /\ d \in Owner => mod[d] \notin Unloading
  /\ file' = [file EXCEPT ![f] = [drv |-> d, image |-> "mapped", busy |-> FALSE, dead |-> FALSE]]
  /\ refs' = [refs EXCEPT ![d] = IF d \in Owner THEN @ + 1 ELSE @]
  /\ UNCHANGED <<mod, node, dir, stray, stale, others>>

OpenFreed(d) ==
  /\ "freed" \in node[d]
  /\ stale' = [stale EXCEPT ![d] = TRUE]
  /\ UNCHANGED <<mod, refs, node, dir, file, stray, others>>

\* read or write enters the driver; on a revoked file it fails with -EIO.
Call(f) ==
  /\ file[f] # Closed /\ ~file[f].busy /\ ~file[f].dead
  /\ file' = [file EXCEPT ![f].busy = TRUE]
  /\ stale' = [stale EXCEPT ![file[f].drv] = @ \/ file[f].image = "freed"]
  /\ UNCHANGED <<mod, refs, node, dir, stray, others>>

CallReturns(f) ==
  /\ file[f] # Closed /\ file[f].busy
  /\ file' = [file EXCEPT ![f].busy = FALSE]
  /\ UNCHANGED <<mod, refs, node, dir, stray, stale, others>>

\* Mutant of Close: every close drops a reference, whether open took one or not.
ClosePutting(f) ==
  /\ file[f] # Closed /\ ~file[f].busy
  /\ refs' = [refs EXCEPT ![file[f].drv] = @ - 1]
  /\ file' = [file EXCEPT ![f] = Closed]
  /\ UNCHANGED <<mod, node, dir, stray, stale, others>>

\* The last close runs the release operation, if the file was not revoked.
Close(f) ==
  /\ file[f] # Closed /\ ~file[f].busy
  /\ LET d == file[f].drv
     IN  /\ stale' = [stale EXCEPT ![d] =
                        @ \/ (d \in Releasing /\ ~file[f].dead /\ file[f].image = "freed")]
         /\ refs' = [refs EXCEPT ![d] = IF d \in Owner THEN @ - 1 ELSE @]
  /\ file' = [file EXCEPT ![f] = Closed]
  /\ UNCHANGED <<mod, node, dir, stray, others>>

-----------------------------------------------------------------------------
(* rmmod: the exit function runs and the image is freed.                   *)

Rmmod(d) ==
  /\ mod[d] = "live" /\ refs[d] = 0
  /\ mod' = [mod EXCEPT ![d] = "going"]
  /\ UNCHANGED <<refs, node, dir, file, stray, stale, others>>

\* Mutant of MiscCleanup: the exit function of fix.c, which forgets misc_deregister.
MiscCleanupForgetting ==
  /\ At("misc", "going")
  /\ mod' = [mod EXCEPT !["misc"] = "dying"]
  /\ UNCHANGED <<refs, node, dir, file, stray, stale, others>>

\* misc_cleanup: misc_deregister takes the node away and waits for nobody.
MiscCleanup ==
  /\ At("misc", "going")
  /\ node' = [node EXCEPT !["misc"] = @ \ {"mapped"}]
  /\ mod' = [mod EXCEPT !["misc"] = "dying"]
  /\ UNCHANGED <<refs, dir, file, stray, stale, others>>

\* myfd_cleanup does nothing.
MyfdCleanup ==
  /\ At("reverse", "going")
  /\ mod' = [mod EXCEPT !["reverse"] = "dying"]
  /\ UNCHANGED <<refs, node, dir, file, stray, stale, others>>

\* An entry is unlinked and its open files are revoked.
Revoke(d) ==
  /\ node' = [node EXCEPT ![d] = @ \ {"mapped"}]
  /\ file' = [f \in Fd |-> IF Of(f, d) /\ file[f].image = "mapped"
                           THEN [file[f] EXCEPT !.dead = TRUE] ELSE file[f]]

\* debugfs_exit: debugfs_remove(dir), which does nothing if dir is NULL.
DebugfsExit ==
  /\ At("debugfs", "going")
  /\ IF dir THEN Revoke("debugfs") ELSE UNCHANGED <<node, file>>
  /\ mod' = [mod EXCEPT !["debugfs"] = "draining"]
  /\ UNCHANGED <<refs, dir, stray, stale, others>>

\* Mutant of MyMountsExit: the empty exit function of my_mount.c.
MyMountsExitEmpty ==
  /\ At("mymounts", "going")
  /\ mod' = [mod EXCEPT !["mymounts"] = "draining"]
  /\ UNCHANGED <<refs, node, dir, file, stray, stale, others>>

\* my_mounts_exit: remove_proc_entry.
MyMountsExit ==
  /\ At("mymounts", "going")
  /\ Revoke("mymounts")
  /\ mod' = [mod EXCEPT !["mymounts"] = "draining"]
  /\ UNCHANGED <<refs, dir, stray, stale, others>>

\* hid_unregister_driver, of module_hid_driver: no device is probed any more.
HidExit ==
  /\ At("hid", "going")
  /\ node' = [node EXCEPT !["hid"] = @ \ {"mapped"}]
  /\ mod' = [mod EXCEPT !["hid"] = "draining"]
  /\ UNCHANGED <<refs, dir, file, stray, stale, others>>

\* hello_exit only prints.
HelloExit ==
  /\ At("hello", "going")
  /\ mod' = [mod EXCEPT !["hello"] = "dying"]
  /\ UNCHANGED <<refs, node, dir, file, stray, stale, others>>

\* my_exit of task.c does nothing.
MyExit ==
  /\ At("task", "going")
  /\ mod' = [mod EXCEPT !["task"] = "dying"]
  /\ UNCHANGED <<refs, node, dir, file, stray, stale, others>>

\* Mutant of Unused: unregistering waits only for the probes under way.
UnusedByProbe(d) ==
  /\ \A f \in Fd : Of(f, d) => ~file[f].busy
  /\ d = "hid" => \A k \in Keyboard : dev[k] # "probing"

\* Mutant of Unused: the exit function waits for the files to be closed.
UnusedWhenClosed(d) ==
  /\ \A f \in Fd : ~Of(f, d)
  /\ d = "hid" => \A k \in Keyboard : dev[k] \notin Attached

\* No call that entered the module before is in it, and no keyboard is bound to it.
Unused(d) ==
  /\ \A f \in Fd : Of(f, d) => ~file[f].busy
  /\ d = "hid" => \A k \in Keyboard : dev[k] \notin Attached

\* The removal waits for that.
Drained(d) ==
  /\ mod[d] = "draining"
  /\ Unused(d)
  /\ mod' = [mod EXCEPT ![d] = "dying"]
  /\ UNCHANGED <<refs, node, dir, file, stray, stale, others>>

\* The image is freed, under the feet of any call still in it.
Free(d) ==
  /\ mod[d] = "dying"
  /\ mod' = [mod EXCEPT ![d] = "out"]
  /\ node' = [node EXCEPT ![d] = {"freed" : i \in @}]
  /\ file' = [f \in Fd |-> IF Of(f, d) THEN [file[f] EXCEPT !.image = "freed"] ELSE file[f]]
  /\ stale' = [stale EXCEPT ![d] =
                 @ \/ \E f \in Fd : Of(f, d) /\ file[f].image = "mapped" /\ file[f].busy]
  /\ UNCHANGED <<refs, dir, stray, others>>

-----------------------------------------------------------------------------
\* The thread that loads or unloads module d goes on, in the functions that module_init
\* and module_exit name.
ModuleStep(d) ==
  \/ d = "misc" /\ (MiscInit \/ MiscCleanup)
  \/ d = "debugfs" /\ (CreateDirectory \/ CreateFiles \/ DebugfsExit)
  \/ d = "reverse" /\ (MyfdInit \/ MyfdCleanup)
  \/ d = "mymounts" /\ (MyMountsInit \/ MyMountsExit)
  \/ d = "hid" /\ (HidInit \/ HidExit)
  \/ d = "hello" /\ (HelloInit \/ HelloExit)
  \/ d = "task" /\ (DoWork \/ MyInit \/ MyExit)
  \/ Drained(d) \/ Free(d)

\* The driver core goes on with keyboard k.
KeyboardStep(k) == Probe(k) \/ ProbeReturns(k) \/ RemoveReturns(k) \/ Detach(k)

Next ==
  \/ \E d \in Driver : Insmod(d) \/ Rmmod(d) \/ ModuleStep(d)
  \/ \E k \in Keyboard : Plug(k) \/ Unplug(k) \/ Modprobe(k) \/ KeyboardStep(k)
  \/ \E f \in Fd : \/ Call(f) \/ CallReturns(f) \/ Close(f)
                   \/ \E d \in Driver : Open(f, d)
  \/ \E d \in Driver : OpenFreed(d)

Spec == Init /\ [][Next]_vars

\* A call in a driver returns, a load or unload that has begun goes on, and so do udev
\* and the driver core; nobody has to close a file, to unload anything or to unplug.
FairSpec ==
  /\ Spec
  /\ \A d \in Driver : WF_vars(ModuleStep(d))
  /\ \A k \in Keyboard : WF_vars(Modprobe(k)) /\ WF_vars(KeyboardStep(k))
  /\ \A f \in Fd : WF_vars(CallReturns(f))

-----------------------------------------------------------------------------
TypeOK ==
  /\ built \subseteq Driver
  /\ mod \in [Driver -> {"out", "coming", "filling", "live", "going", "draining", "dying"}]
  /\ refs \in [Driver -> Nat]
  /\ node \in [Driver -> SUBSET Image]
  /\ dir \in BOOLEAN /\ stray \in BOOLEAN
  /\ file \in [Fd -> Openings \cup {Closed}]
  /\ stale \in [Driver -> BOOLEAN]
  /\ dev \in [Keyboard -> DevState]
  /\ uevent \in [Keyboard -> BOOLEAN]
  /\ slept \in 0 .. Sleeps

\* A module whose operations name it as their owner is counted once for every open file
\* and one without an owner never is, so that rmmod waits for the one and not the other.
RefsMatch == \A d \in Driver : refs[d] = Cardinality(Holders(d))

\* No call that entered the code of debugfs.c, fix.c or mount.c has that code freed
\* under it, however opens, calls and closes fall around the unload.  (misc_device.c,
\* whose operations name no owner and whose exit drains nothing, is not in the list.)
BusyIsBacked ==
  \A f \in Fd : file[f].busy /\ file[f].drv \in {"debugfs", "reverse", "mymounts"} =>
    file[f].image = "mapped"

\* The files of /dev/fortytwo and /proc/mymounts, and the keyboard driver, never
\* outlive the load that made them, so using them never leads into freed memory; nor
\* do the files in debugfs, as long as their directory could be made.
NodesAreBacked ==
  \A d \in Driver \cap ({"misc", "mymounts", "hid"} \cup IF stray THEN {} ELSE {"debugfs"}) :
    "freed" \notin node[d]

\* The memory of an unloaded mymounts is never used, and that of an unloaded
\* debugfs module only after a directory could not be made.
UnloadIsSafe ==
  \A d \in Driver \cap Revoking : stale[d] => d = "debugfs" /\ stray

\* A keyboard that is being probed, bound or removed has the code of my_hid in memory,
\* however plugging and unplugging fall around a load and an unload.
KeyboardsAreBacked ==
  \A k \in Keyboard : dev[k] \in Attached =>
    At("hid", "live") \/ At("hid", "going") \/ At("hid", "draining")

\* my_hid is loaded when a keyboard in its table is plugged in, unless it is being
\* unloaded then: whatever udev meets when it comes to that keyboard.
KeyboardLoads ==
  \A k \in Supported :
    (uevent[k] /\ "hid" \in built /\ mod["hid"] \notin Unloading)
      ~> (At("hid", "coming") \/ At("hid", "live"))

\* A supported keyboard that is plugged in is bound while my_hid is registered, unless
\* it is unplugged or the module unloaded.
KeyboardBinds ==
  \A k \in Supported : (dev[k] = "idle" /\ At("hid", "live"))
                      ~> (dev[k] \in {"bound", "absent"} \/ ~At("hid", "live"))

\* A load or an unload that began ends, whatever files are open and stay open and
\* whatever keyboards are plugged in: no exit function waits for a close.
LoadsAndUnloadsEnd ==
  \A d \in Driver : (mod[d] \notin {"out", "live"}) ~> (mod[d] \in {"out", "live"})

\* ex07/README.md:24: "When the module is unloaded, all debugfs files must be
\* cleaned up".
UnloadCleansUp == At("debugfs", "out") => node["debugfs"] = {}
=============================================================================

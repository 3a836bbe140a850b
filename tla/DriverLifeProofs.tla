--------------------------- MODULE DriverLifeProofs ---------------------------
(***************************************************************************)
(* Proofs about DriverLife, for any set of drivers, any number of open     *)
(* files and any number of loads.                                          *)
(*                                                                         *)
(* What a driver is safe by differs, and so does the inductive invariant:  *)
(* a file of debugfs.c or fix.c pins its module (Pinned), which rests on   *)
(* the reference count being the number of such files (RefsMatch); a file  *)
(* of mount.c pins nothing, but is revoked, then drained, before the image *)
(* goes (Revoked).  The last three parts are about the names the files     *)
(* have while nobody holds them open, and the keyboards bound to my_hid.   *)
(***************************************************************************)
EXTENDS DriverLife, FiniteSetTheorems, TLAPS

\* While a file that pins its module is open, the module is neither going nor gone.
Pinned ==
  \A f \in Fd : file[f].drv \in Owner =>
    mod[file[f].drv] = "live" /\ file[f].image = "mapped"

\* From the removal of /proc/mymounts on, its open files are revoked; once that
\* has waited, no call is left in them.
Revoked ==
  \A f \in Fd : Of(f, "mymounts") =>
    \/ file[f].image = "mapped" /\ mod["mymounts"] \in {"live", "going"}
    \/ file[f].image = "mapped" /\ mod["mymounts"] = "draining" /\ file[f].dead
    \/ file[f].image = "mapped" /\ mod["mymounts"] = "dying" /\ file[f].dead /\ ~file[f].busy
    \/ file[f].image = "freed" /\ file[f].dead /\ ~file[f].busy

\* A name that leads into the image in memory is there from the init function on;
\* those of misc, mymounts and hid go with the exit function.
Named ==
  \A d \in Driver : "mapped" \in node[d] =>
    mod[d] \in {"live", "going"} \cup
               IF d \in {"misc", "mymounts", "hid"} THEN {} ELSE {"draining", "dying"}

\* Without a directory of its own, or with a name left after debugfs_remove, the
\* debugfs module is one whose directory could not be made.
Strays ==
  "debugfs" \in Driver /\ ~stray =>
    /\ mod["debugfs"] \notin {"out", "coming"} => dir
    /\ mod["debugfs"] \in {"draining", "dying"} => "mapped" \notin node["debugfs"]

IInv ==
  /\ TypeOK /\ RefsMatch /\ Pinned /\ Revoked /\ Named /\ Strays
  /\ NodesAreBacked /\ UnloadIsSafe /\ KeyboardsAreBacked

-----------------------------------------------------------------------------
\* The holders of a module are finitely many, so the count is a number.
LEMMA HoldersFinite ==
  ASSUME NEW d PROVE IsFiniteSet(Holders(d)) /\ Cardinality(Holders(d)) \in Nat
<1>1. Holders(d) \subseteq Fd BY DEF Holders
<1>2. IsFiniteSet(Holders(d)) BY <1>1, DriverLifeAssumption, FS_Subset
<1>3. QED BY <1>2, FS_CardinalityType

\* An open that takes a reference, in debugfs's open or misc_open, counts one holder
\* more; any other step on a closed file leaves the count alone.
LEMMA OpenCounts ==
  ASSUME IInv, NEW f \in Fd, NEW d \in Driver, Open(f, d)
  PROVE  RefsMatch'
<1> SUFFICES ASSUME NEW e \in Driver PROVE refs'[e] = Cardinality(Holders(e)')
  BY DEF RefsMatch
<1>0. file[f] = Closed /\ file' = [file EXCEPT ![f] = [drv |-> d, image |-> "mapped", busy |-> FALSE, dead |-> FALSE]]
  BY DEF Open
<1>types. file \in [Fd -> Openings \cup {Closed}] /\ refs \in [Driver -> Nat] /\ refs[e] = Cardinality(Holders(e))
  BY DEF IInv, TypeOK, RefsMatch
<1>driver. "none" \notin Driver BY DriverLifeAssumption
<1>1. CASE e = d /\ d \in Owner
  <2>1. f \notin Holders(d) BY <1>0, <1>driver DEF Holders, Of, Closed
  <2>2. Holders(d)' = Holders(d) \cup {f} BY <1>0, <1>types, <1>1 DEF Holders, Of
  <2>3. Cardinality(Holders(d)') = Cardinality(Holders(d)) + 1
    BY <2>1, <2>2, HoldersFinite, FS_AddElement
  <2>4. refs'[d] = refs[d] + 1 BY <1>types, <1>1 DEF Open
  <2>5. QED BY <1>types, <1>1, <2>3, <2>4
<1>2. CASE ~(e = d /\ d \in Owner)
  <2>1. Holders(e)' = Holders(e) BY <1>0, <1>types, <1>2, <1>driver DEF Holders, Of, Closed
  <2>2. refs'[e] = refs[e] BY <1>types, <1>2 DEF Open
  <2>3. QED BY <1>types, <2>1, <2>2
<1>3. QED BY <1>1, <1>2

\* The last close of such a file counts one holder less.
LEMMA CloseCounts ==
  ASSUME IInv, NEW f \in Fd, Close(f)
  PROVE  RefsMatch' /\ refs' \in [Driver -> Nat]
<1> DEFINE d == file[f].drv
<1>0. file[f] # Closed /\ file' = [file EXCEPT ![f] = Closed]
      /\ refs' = [refs EXCEPT ![d] = IF d \in Owner THEN @ - 1 ELSE @]
  BY DEF Close
<1>types. file \in [Fd -> Openings \cup {Closed}] /\ refs \in [Driver -> Nat]
       /\ \A e \in Driver : refs[e] = Cardinality(Holders(e))
  BY DEF IInv, TypeOK, RefsMatch
<1>driver. "none" \notin Driver /\ d \in Driver BY DriverLifeAssumption, <1>0, <1>types DEF Openings
<1> SUFFICES ASSUME NEW e \in Driver PROVE refs'[e] = Cardinality(Holders(e)') /\ refs'[e] \in Nat
  BY <1>0, <1>types DEF RefsMatch
<1>count. refs[e] = Cardinality(Holders(e)) /\ Cardinality(Holders(e)) \in Nat BY <1>types, HoldersFinite
<1>1. CASE e = d /\ d \in Owner
  <2>1. f \in Holders(e) BY <1>1 DEF Holders, Of
  <2>2. Holders(e)' = Holders(e) \ {f} BY <1>0, <1>types, <1>driver, <1>1 DEF Holders, Of, Closed
  <2>3. Cardinality(Holders(e) \ {f}) = Cardinality(Holders(e)) - 1
    BY <2>1, HoldersFinite, FS_RemoveElement
  <2>4. Cardinality(Holders(e) \ {f}) \in Nat
    BY HoldersFinite, FS_RemoveElement, FS_CardinalityType
  <2>5. refs'[e] = refs[e] - 1 BY <1>0, <1>types, <1>driver, <1>1
  <2>6. QED BY <1>count, <2>2, <2>3, <2>4, <2>5
<1>2. CASE ~(e = d /\ d \in Owner)
  <2>1. Holders(e)' = Holders(e) BY <1>0, <1>types, <1>2, <1>driver DEF Holders, Of, Closed
  <2>2. refs'[e] = refs[e] BY <1>0, <1>types, <1>2
  <2>3. QED BY <1>count, <2>1, <2>2
<1>3. QED BY <1>1, <1>2

\* Steps that close or open no file leave the count alone.
LEMMA SameHolders ==
  ASSUME IInv, UNCHANGED refs, \A f \in Fd : file'[f].drv = file[f].drv
  PROVE  RefsMatch'
<1>1. \A d : Holders(d)' = Holders(d) BY DEF Holders, Of
<1>2. QED BY <1>1 DEF IInv, RefsMatch

\* rmmod finds a count of zero only if no open file holds the module.
LEMMA NoHolder ==
  ASSUME IInv, NEW d \in Driver, refs[d] = 0
  PROVE  d \in Owner => \A f \in Fd : ~Of(f, d)
<1>1. Cardinality(Holders(d)) = 0 BY DEF IInv, RefsMatch
<1>2. Holders(d) = {} BY <1>1, HoldersFinite, FS_EmptySet
<1>3. QED BY <1>2 DEF Holders

-----------------------------------------------------------------------------
\* The invariant holds before anything is loaded.
LEMMA InitIInv == Init => IInv
<1> SUFFICES ASSUME Init PROVE IInv OBVIOUS
<1>1. TypeOK
  <2>1. built \subseteq Driver BY DEF Init
  <2>2. slept \in 0 .. Sleeps BY DriverLifeAssumption DEF Init
  <2>3. dev \in [Keyboard -> DevState] BY DEF Init, DevState
  <2>4. QED BY <2>1, <2>2, <2>3 DEF Init, TypeOK
<1>2. RefsMatch
  <2>1. \A d \in Driver : Holders(d) = {} BY DriverLifeAssumption DEF Init, Holders, Of, Closed
  <2>2. QED BY <2>1, FS_EmptySet DEF Init, RefsMatch
<1>3. Pinned /\ Revoked BY DEF Init, Pinned, Revoked, Owner, Of, Closed
<1>4. Named /\ Strays /\ NodesAreBacked /\ UnloadIsSafe
  BY DEF Init, Named, Strays, NodesAreBacked, UnloadIsSafe
<1>5. KeyboardsAreBacked BY DEF Init, KeyboardsAreBacked, Attached
<1>6. QED BY <1>5, <1>1, <1>2, <1>3, <1>4 DEF IInv

\* Revoking the open files of a removed entry leaves them open files.
LEMMA RevokeTypes ==
  ASSUME TypeOK, NEW d \in Driver, Revoke(d)
  PROVE  node' \in [Driver -> SUBSET Image] /\ file' \in [Fd -> Openings \cup {Closed}]
<1>1. ASSUME NEW f \in Fd PROVE file'[f] \in Openings \cup {Closed}
  <2>1. file[f] \in Openings \cup {Closed} BY DEF TypeOK
  <2>2. CASE Of(f, d)
    <3>1. file[f] \in Openings BY <2>1, <2>2, DriverLifeAssumption DEF Of, Closed
    <3>2. [file[f] EXCEPT !.dead = TRUE] \in Openings BY <3>1 DEF Openings
    <3>3. QED BY <2>1, <3>2 DEF Revoke
  <2>3. CASE ~Of(f, d) BY <2>1, <2>3 DEF Revoke
  <2>4. QED BY <2>2, <2>3
<1>2. file' \in [Fd -> Openings \cup {Closed}] BY <1>1 DEF Revoke
<1>3. QED BY <1>2 DEF Revoke, TypeOK

\* Every step of a load, a call or an unload preserves the invariant.
LEMMA StepIInv == IInv /\ [Next]_vars => IInv'
<1> SUFFICES ASSUME IInv, [Next]_vars PROVE IInv' OBVIOUS
<1> USE DriverLifeAssumption DEF At, Of, Closed, Openings, Image, Owner, others
<1>0. KeyboardsAreBacked /\ TypeOK /\ Pinned /\ Revoked /\ Named /\ Strays /\ NodesAreBacked /\ UnloadIsSafe BY DEF IInv
<1>1. ASSUME NEW d \in Driver, mod[d] = "out", Load(d), uevent' \in [Keyboard -> BOOLEAN] PROVE IInv'
  <2>1. RefsMatch' BY <1>0, <1>1, SameHolders DEF Load, TypeOK
  <2>2. TypeOK'
    <3>1. slept' \in 0 .. Sleeps BY <1>0, <1>1 DEF Load, TypeOK
    <3>2. dir' \in BOOLEAN BY <1>0, <1>1 DEF Load, TypeOK
    <3>3. QED BY <1>0, <1>1, <3>1, <3>2 DEF Load, TypeOK
  <2>3. Pinned' BY <1>0, <1>1 DEF Load, TypeOK, Pinned, Named
  <2>4. Revoked' BY <1>0, <1>1 DEF Load, TypeOK, Revoked, Named
  <2>5. Named' BY <1>0, <1>1 DEF Load, TypeOK, Named
  <2>6. Strays' BY <1>0, <1>1 DEF Load, TypeOK, Strays, Named
  <2>7. NodesAreBacked' BY <1>0, <1>1 DEF Load, TypeOK, NodesAreBacked, Named, Strays
  <2>8. UnloadIsSafe' BY <1>0, <1>1 DEF Load, TypeOK, UnloadIsSafe, Pinned, Revoked, NodesAreBacked, Revoking
  <2>9. KeyboardsAreBacked' BY <1>0, <1>1 DEF Load, TypeOK, KeyboardsAreBacked, Named, Unused
  <2>10. QED BY <2>1, <2>2, <2>3, <2>4, <2>5, <2>6, <2>7, <2>8, <2>9 DEF IInv
<1>2. ASSUME MiscInit PROVE IInv'
  <2>1. RefsMatch' BY <1>0, <1>2, SameHolders DEF MiscInit, Register, TypeOK
  <2>2. TypeOK' BY <1>0, <1>2 DEF MiscInit, Register, TypeOK
  <2>3. Pinned' BY <1>0, <1>2 DEF MiscInit, Register, TypeOK, Pinned, Named
  <2>4. Revoked' BY <1>0, <1>2 DEF MiscInit, Register, TypeOK, Revoked, Named
  <2>5. Named' BY <1>0, <1>2 DEF MiscInit, Register, TypeOK, Named
  <2>6. Strays' BY <1>0, <1>2 DEF MiscInit, Register, TypeOK, Strays, Named
  <2>7. NodesAreBacked' BY <1>0, <1>2 DEF MiscInit, Register, TypeOK, NodesAreBacked, Named, Strays
  <2>8. UnloadIsSafe' BY <1>0, <1>2 DEF MiscInit, Register, TypeOK, UnloadIsSafe, Pinned, Revoked, NodesAreBacked, Revoking
  <2>9. KeyboardsAreBacked' BY <1>0, <1>2 DEF MiscInit, Register, TypeOK, KeyboardsAreBacked, Named, Unused
  <2>10. QED BY <2>1, <2>2, <2>3, <2>4, <2>5, <2>6, <2>7, <2>8, <2>9 DEF IInv
<1>3. ASSUME MyfdInit PROVE IInv'
  <2>1. RefsMatch' BY <1>0, <1>3, SameHolders DEF MyfdInit, Register, TypeOK
  <2>2. TypeOK' BY <1>0, <1>3 DEF MyfdInit, Register, TypeOK
  <2>3. Pinned' BY <1>0, <1>3 DEF MyfdInit, Register, TypeOK, Pinned, Named
  <2>4. Revoked' BY <1>0, <1>3 DEF MyfdInit, Register, TypeOK, Revoked, Named
  <2>5. Named' BY <1>0, <1>3 DEF MyfdInit, Register, TypeOK, Named
  <2>6. Strays' BY <1>0, <1>3 DEF MyfdInit, Register, TypeOK, Strays, Named
  <2>7. NodesAreBacked' BY <1>0, <1>3 DEF MyfdInit, Register, TypeOK, NodesAreBacked, Named, Strays
  <2>8. UnloadIsSafe' BY <1>0, <1>3 DEF MyfdInit, Register, TypeOK, UnloadIsSafe, Pinned, Revoked, NodesAreBacked, Revoking
  <2>9. KeyboardsAreBacked' BY <1>0, <1>3 DEF MyfdInit, Register, TypeOK, KeyboardsAreBacked, Named, Unused
  <2>10. QED BY <2>1, <2>2, <2>3, <2>4, <2>5, <2>6, <2>7, <2>8, <2>9 DEF IInv
<1>4. ASSUME MyMountsInit PROVE IInv'
  <2>1. RefsMatch' BY <1>0, <1>4, SameHolders DEF MyMountsInit, Register, TypeOK
  <2>2. TypeOK' BY <1>0, <1>4 DEF MyMountsInit, Register, TypeOK
  <2>3. Pinned' BY <1>0, <1>4 DEF MyMountsInit, Register, TypeOK, Pinned, Named
  <2>4. Revoked' BY <1>0, <1>4 DEF MyMountsInit, Register, TypeOK, Revoked, Named
  <2>5. Named' BY <1>0, <1>4 DEF MyMountsInit, Register, TypeOK, Named
  <2>6. Strays' BY <1>0, <1>4 DEF MyMountsInit, Register, TypeOK, Strays, Named
  <2>7. NodesAreBacked' BY <1>0, <1>4 DEF MyMountsInit, Register, TypeOK, NodesAreBacked, Named, Strays
  <2>8. UnloadIsSafe' BY <1>0, <1>4 DEF MyMountsInit, Register, TypeOK, UnloadIsSafe, Pinned, Revoked, NodesAreBacked, Revoking
  <2>9. KeyboardsAreBacked' BY <1>0, <1>4 DEF MyMountsInit, Register, TypeOK, KeyboardsAreBacked, Named, Unused
  <2>10. QED BY <2>1, <2>2, <2>3, <2>4, <2>5, <2>6, <2>7, <2>8, <2>9 DEF IInv
<1>5. ASSUME CreateDirectory PROVE IInv'
  <2>1. RefsMatch' BY <1>0, <1>5, SameHolders DEF CreateDirectory, TypeOK
  <2>2. TypeOK' BY <1>0, <1>5 DEF CreateDirectory, TypeOK
  <2>3. Pinned' BY <1>0, <1>5 DEF CreateDirectory, TypeOK, Pinned, Named
  <2>4. Revoked' BY <1>0, <1>5 DEF CreateDirectory, TypeOK, Revoked, Named
  <2>5. Named' BY <1>0, <1>5 DEF CreateDirectory, TypeOK, Named
  <2>6. Strays' BY <1>0, <1>5 DEF CreateDirectory, TypeOK, Strays, Named
  <2>7. NodesAreBacked' BY <1>0, <1>5 DEF CreateDirectory, TypeOK, NodesAreBacked, Named, Strays
  <2>8. UnloadIsSafe' BY <1>0, <1>5 DEF CreateDirectory, TypeOK, UnloadIsSafe, Pinned, Revoked, NodesAreBacked, Revoking
  <2>9. KeyboardsAreBacked' BY <1>0, <1>5 DEF CreateDirectory, TypeOK, KeyboardsAreBacked, Named, Unused
  <2>10. QED BY <2>1, <2>2, <2>3, <2>4, <2>5, <2>6, <2>7, <2>8, <2>9 DEF IInv
<1>6. ASSUME CreateFiles PROVE IInv'
  <2>1. RefsMatch' BY <1>0, <1>6, SameHolders DEF CreateFiles, TypeOK
  <2>2. TypeOK' BY <1>0, <1>6 DEF CreateFiles, TypeOK
  <2>3. Pinned' BY <1>0, <1>6 DEF CreateFiles, TypeOK, Pinned, Named
  <2>4. Revoked' BY <1>0, <1>6 DEF CreateFiles, TypeOK, Revoked, Named
  <2>5. Named' BY <1>0, <1>6 DEF CreateFiles, TypeOK, Named
  <2>6. Strays' BY <1>0, <1>6 DEF CreateFiles, TypeOK, Strays, Named
  <2>7. NodesAreBacked' BY <1>0, <1>6 DEF CreateFiles, TypeOK, NodesAreBacked, Named, Strays
  <2>8. UnloadIsSafe' BY <1>0, <1>6 DEF CreateFiles, TypeOK, UnloadIsSafe, Pinned, Revoked, NodesAreBacked, Revoking
  <2>9. KeyboardsAreBacked' BY <1>0, <1>6 DEF CreateFiles, TypeOK, KeyboardsAreBacked, Named, Unused
  <2>10. QED BY <2>1, <2>2, <2>3, <2>4, <2>5, <2>6, <2>7, <2>8, <2>9 DEF IInv
<1>7. ASSUME NEW f \in Fd, NEW d \in Driver, Open(f, d) PROVE IInv'
  <2>1. RefsMatch' BY <1>7, OpenCounts
  <2>2. TypeOK' BY <1>0, <1>7 DEF Open, TypeOK
  <2>3. Pinned' BY <1>0, <1>7 DEF Open, TypeOK, Pinned, Named, Unloading
  <2>4. Revoked' BY <1>0, <1>7 DEF Open, TypeOK, Revoked, Named
  <2>5. Named' BY <1>0, <1>7 DEF Open, TypeOK, Named
  <2>6. Strays' BY <1>0, <1>7 DEF Open, TypeOK, Strays, Named
  <2>7. NodesAreBacked' BY <1>0, <1>7 DEF Open, TypeOK, NodesAreBacked, Named, Strays
  <2>8. UnloadIsSafe' BY <1>0, <1>7 DEF Open, TypeOK, UnloadIsSafe, Pinned, Revoked, NodesAreBacked, Revoking
  <2>9. KeyboardsAreBacked' BY <1>0, <1>7 DEF Open, TypeOK, KeyboardsAreBacked, Named, Unused
  <2>10. QED BY <2>1, <2>2, <2>3, <2>4, <2>5, <2>6, <2>7, <2>8, <2>9 DEF IInv
<1>8. ASSUME NEW d \in Driver, OpenFreed(d) PROVE IInv'
  <2>1. RefsMatch' BY <1>0, <1>8, SameHolders DEF OpenFreed, TypeOK
  <2>2. TypeOK' BY <1>0, <1>8 DEF OpenFreed, TypeOK
  <2>3. Pinned' BY <1>0, <1>8 DEF OpenFreed, TypeOK, Pinned, Named
  <2>4. Revoked' BY <1>0, <1>8 DEF OpenFreed, TypeOK, Revoked, Named
  <2>5. Named' BY <1>0, <1>8 DEF OpenFreed, TypeOK, Named
  <2>6. Strays' BY <1>0, <1>8 DEF OpenFreed, TypeOK, Strays, Named
  <2>7. NodesAreBacked' BY <1>0, <1>8 DEF OpenFreed, TypeOK, NodesAreBacked, Named, Strays
  <2>8. UnloadIsSafe' BY <1>0, <1>8 DEF OpenFreed, TypeOK, UnloadIsSafe, Pinned, Revoked, NodesAreBacked, Revoking
  <2>9. KeyboardsAreBacked' BY <1>0, <1>8 DEF OpenFreed, TypeOK, KeyboardsAreBacked, Named, Unused
  <2>10. QED BY <2>1, <2>2, <2>3, <2>4, <2>5, <2>6, <2>7, <2>8, <2>9 DEF IInv
<1>9. ASSUME NEW f \in Fd, Call(f) PROVE IInv'
  <2>1. RefsMatch' BY <1>0, <1>9, SameHolders DEF Call, TypeOK
  <2>2. TypeOK'
    <3>1. file[f] \in Openings BY <1>0, <1>9 DEF Call, TypeOK
    <3>2. [file[f] EXCEPT !.busy = TRUE] \in Openings BY <3>1
    <3>3. file' = [file EXCEPT ![f] = [file[f] EXCEPT !.busy = TRUE]] BY <1>9 DEF Call
    <3>4. file' \in [Fd -> Openings \cup {Closed}]
      <4> HIDE DEF Openings, Closed
      <4>1. QED BY <1>0, <3>2, <3>3 DEF TypeOK
    <3>5. stale' \in [Driver -> BOOLEAN] BY <1>0, <1>9, <3>1 DEF Call, TypeOK
    <3>6. QED BY <1>0, <1>9, <3>4, <3>5 DEF Call, TypeOK
  <2>3. Pinned' BY <1>0, <1>9 DEF Call, TypeOK, Pinned, Named
  <2>4. Revoked' BY <1>0, <1>9 DEF Call, TypeOK, Revoked, Named
  <2>5. Named' BY <1>0, <1>9 DEF Call, TypeOK, Named
  <2>6. Strays' BY <1>0, <1>9 DEF Call, TypeOK, Strays, Named
  <2>7. NodesAreBacked' BY <1>0, <1>9 DEF Call, TypeOK, NodesAreBacked, Named, Strays
  <2>8. UnloadIsSafe' BY <1>0, <1>9 DEF Call, TypeOK, UnloadIsSafe, Pinned, Revoked, NodesAreBacked, Revoking
  <2>9. KeyboardsAreBacked' BY <1>0, <1>9 DEF Call, TypeOK, KeyboardsAreBacked, Named, Unused
  <2>10. QED BY <2>1, <2>2, <2>3, <2>4, <2>5, <2>6, <2>7, <2>8, <2>9 DEF IInv
<1>10. ASSUME NEW f \in Fd, CallReturns(f) PROVE IInv'
  <2>1. RefsMatch' BY <1>0, <1>10, SameHolders DEF CallReturns, TypeOK
  <2>2. TypeOK'
    <3>1. file[f] \in Openings BY <1>0, <1>10 DEF CallReturns, TypeOK
    <3>2. [file[f] EXCEPT !.busy = FALSE] \in Openings BY <3>1
    <3>3. file' = [file EXCEPT ![f] = [file[f] EXCEPT !.busy = FALSE]] BY <1>10 DEF CallReturns
    <3>4. file' \in [Fd -> Openings \cup {Closed}]
      <4> HIDE DEF Openings, Closed
      <4>1. QED BY <1>0, <3>2, <3>3 DEF TypeOK
    <3>5. stale' \in [Driver -> BOOLEAN] BY <1>0, <1>10, <3>1 DEF CallReturns, TypeOK
    <3>6. QED BY <1>0, <1>10, <3>4, <3>5 DEF CallReturns, TypeOK
  <2>3. Pinned' BY <1>0, <1>10 DEF CallReturns, TypeOK, Pinned, Named
  <2>4. Revoked' BY <1>0, <1>10 DEF CallReturns, TypeOK, Revoked, Named
  <2>5. Named' BY <1>0, <1>10 DEF CallReturns, TypeOK, Named
  <2>6. Strays' BY <1>0, <1>10 DEF CallReturns, TypeOK, Strays, Named
  <2>7. NodesAreBacked' BY <1>0, <1>10 DEF CallReturns, TypeOK, NodesAreBacked, Named, Strays
  <2>8. UnloadIsSafe' BY <1>0, <1>10 DEF CallReturns, TypeOK, UnloadIsSafe, Pinned, Revoked, NodesAreBacked, Revoking
  <2>9. KeyboardsAreBacked' BY <1>0, <1>10 DEF CallReturns, TypeOK, KeyboardsAreBacked, Named, Unused
  <2>10. QED BY <2>1, <2>2, <2>3, <2>4, <2>5, <2>6, <2>7, <2>8, <2>9 DEF IInv
<1>11. ASSUME NEW f \in Fd, Close(f) PROVE IInv'
  <2>1. RefsMatch' BY <1>11, CloseCounts
  <2>2. TypeOK' BY <1>0, <1>11, CloseCounts DEF Close, Releasing, TypeOK
  <2>3. Pinned' BY <1>0, <1>11 DEF Close, Releasing, TypeOK, Pinned, Named
  <2>4. Revoked' BY <1>0, <1>11 DEF Close, Releasing, TypeOK, Revoked, Named
  <2>5. Named' BY <1>0, <1>11 DEF Close, Releasing, TypeOK, Named
  <2>6. Strays' BY <1>0, <1>11 DEF Close, Releasing, TypeOK, Strays, Named
  <2>7. NodesAreBacked' BY <1>0, <1>11 DEF Close, Releasing, TypeOK, NodesAreBacked, Named, Strays
  <2>8. UnloadIsSafe' BY <1>0, <1>11 DEF Close, Releasing, TypeOK, UnloadIsSafe, Pinned, Revoked, NodesAreBacked, Revoking
  <2>9. KeyboardsAreBacked' BY <1>0, <1>11 DEF Close, Releasing, TypeOK, KeyboardsAreBacked, Named, Unused
  <2>10. QED BY <2>1, <2>2, <2>3, <2>4, <2>5, <2>6, <2>7, <2>8, <2>9 DEF IInv
<1>12. ASSUME NEW d \in Driver, Rmmod(d) PROVE IInv'
  <2>1. RefsMatch' BY <1>0, <1>12, SameHolders DEF Rmmod, TypeOK
  <2>0. d \in Owner => \A f \in Fd : ~Of(f, d) BY <1>12, NoHolder DEF Rmmod
  <2>2. TypeOK' BY <1>0, <1>12 DEF Rmmod, TypeOK
  <2>3. Pinned' BY <1>0, <1>12, <2>0 DEF Rmmod, TypeOK, Pinned, Named
  <2>4. Revoked' BY <1>0, <1>12 DEF Rmmod, TypeOK, Revoked, Named
  <2>5. Named' BY <1>0, <1>12 DEF Rmmod, TypeOK, Named
  <2>6. Strays' BY <1>0, <1>12 DEF Rmmod, TypeOK, Strays, Named
  <2>7. NodesAreBacked' BY <1>0, <1>12 DEF Rmmod, TypeOK, NodesAreBacked, Named, Strays
  <2>8. UnloadIsSafe' BY <1>0, <1>12 DEF Rmmod, TypeOK, UnloadIsSafe, Pinned, Revoked, NodesAreBacked, Revoking
  <2>9. KeyboardsAreBacked' BY <1>0, <1>12 DEF Rmmod, TypeOK, KeyboardsAreBacked, Named, Unused
  <2>10. QED BY <2>1, <2>2, <2>3, <2>4, <2>5, <2>6, <2>7, <2>8, <2>9 DEF IInv
<1>13. ASSUME MiscCleanup PROVE IInv'
  <2>1. RefsMatch' BY <1>0, <1>13, SameHolders DEF MiscCleanup, TypeOK
  <2>2. TypeOK' BY <1>0, <1>13 DEF MiscCleanup, TypeOK
  <2>3. Pinned' BY <1>0, <1>13 DEF MiscCleanup, TypeOK, Pinned, Named
  <2>4. Revoked' BY <1>0, <1>13 DEF MiscCleanup, TypeOK, Revoked, Named
  <2>5. Named' BY <1>0, <1>13 DEF MiscCleanup, TypeOK, Named
  <2>6. Strays' BY <1>0, <1>13 DEF MiscCleanup, TypeOK, Strays, Named
  <2>7. NodesAreBacked' BY <1>0, <1>13 DEF MiscCleanup, TypeOK, NodesAreBacked, Named, Strays
  <2>8. UnloadIsSafe' BY <1>0, <1>13 DEF MiscCleanup, TypeOK, UnloadIsSafe, Pinned, Revoked, NodesAreBacked, Revoking
  <2>9. KeyboardsAreBacked' BY <1>0, <1>13 DEF MiscCleanup, TypeOK, KeyboardsAreBacked, Named, Unused
  <2>10. QED BY <2>1, <2>2, <2>3, <2>4, <2>5, <2>6, <2>7, <2>8, <2>9 DEF IInv
<1>14. ASSUME MyfdCleanup PROVE IInv'
  <2>1. RefsMatch' BY <1>0, <1>14, SameHolders DEF MyfdCleanup, TypeOK
  <2>2. TypeOK' BY <1>0, <1>14 DEF MyfdCleanup, TypeOK
  <2>3. Pinned' BY <1>0, <1>14 DEF MyfdCleanup, TypeOK, Pinned, Named
  <2>4. Revoked' BY <1>0, <1>14 DEF MyfdCleanup, TypeOK, Revoked, Named
  <2>5. Named' BY <1>0, <1>14 DEF MyfdCleanup, TypeOK, Named
  <2>6. Strays' BY <1>0, <1>14 DEF MyfdCleanup, TypeOK, Strays, Named
  <2>7. NodesAreBacked' BY <1>0, <1>14 DEF MyfdCleanup, TypeOK, NodesAreBacked, Named, Strays
  <2>8. UnloadIsSafe' BY <1>0, <1>14 DEF MyfdCleanup, TypeOK, UnloadIsSafe, Pinned, Revoked, NodesAreBacked, Revoking
  <2>9. KeyboardsAreBacked' BY <1>0, <1>14 DEF MyfdCleanup, TypeOK, KeyboardsAreBacked, Named, Unused
  <2>10. QED BY <2>1, <2>2, <2>3, <2>4, <2>5, <2>6, <2>7, <2>8, <2>9 DEF IInv
<1>15. ASSUME DebugfsExit PROVE IInv'
  <2>0. refs' = refs /\ \A f \in Fd : file'[f].drv = file[f].drv
    <3>1. CASE dir BY <1>0, <1>15, <3>1 DEF DebugfsExit, Revoke, TypeOK
    <3>2. CASE ~dir BY <1>0, <1>15, <3>2 DEF DebugfsExit
    <3>3. QED BY <3>1, <3>2
  <2>1. RefsMatch' BY <2>0, SameHolders
  <2>2. TypeOK'
    <3>1. node' \in [Driver -> SUBSET Image] /\ file' \in [Fd -> Openings \cup {Closed}]
      <4> HIDE DEF Openings, Closed, Image
      <4>1. QED BY <1>0, <1>15, RevokeTypes DEF DebugfsExit, TypeOK
    <3>2. mod' \in [Driver -> {"out", "coming", "filling", "live", "going", "draining", "dying"}]
      BY <1>0, <1>15 DEF DebugfsExit, TypeOK
    <3>3. QED BY <1>0, <1>15, <3>1, <3>2 DEF DebugfsExit, TypeOK
  <2>3. Pinned' BY <1>0, <1>15 DEF DebugfsExit, Revoke, TypeOK, Pinned, Named
  <2>4. Revoked' BY <1>0, <1>15 DEF DebugfsExit, Revoke, TypeOK, Revoked, Named
  <2>5. Named' BY <1>0, <1>15 DEF DebugfsExit, Revoke, TypeOK, Named
  <2>6. Strays' BY <1>0, <1>15 DEF DebugfsExit, Revoke, TypeOK, Strays, Named
  <2>7. NodesAreBacked' BY <1>0, <1>15 DEF DebugfsExit, Revoke, TypeOK, NodesAreBacked, Named, Strays
  <2>8. UnloadIsSafe' BY <1>0, <1>15 DEF DebugfsExit, Revoke, TypeOK, UnloadIsSafe, Pinned, Revoked, NodesAreBacked, Revoking
  <2>9. KeyboardsAreBacked' BY <1>0, <1>15 DEF DebugfsExit, Revoke, TypeOK, KeyboardsAreBacked, Named, Unused
  <2>10. QED BY <2>1, <2>2, <2>3, <2>4, <2>5, <2>6, <2>7, <2>8, <2>9 DEF IInv
<1>16. ASSUME MyMountsExit PROVE IInv'
  <2>1. RefsMatch' BY <1>0, <1>16, SameHolders DEF MyMountsExit, Revoke, TypeOK
  <2>2. TypeOK'
    <3>1. node' \in [Driver -> SUBSET Image] /\ file' \in [Fd -> Openings \cup {Closed}]
      <4> HIDE DEF Openings, Closed, Image
      <4>1. QED BY <1>0, <1>16, RevokeTypes DEF MyMountsExit, TypeOK
    <3>2. mod' \in [Driver -> {"out", "coming", "filling", "live", "going", "draining", "dying"}]
      BY <1>0, <1>16 DEF MyMountsExit, TypeOK
    <3>3. QED BY <1>0, <1>16, <3>1, <3>2 DEF MyMountsExit, TypeOK
  <2>3. Pinned' BY <1>0, <1>16 DEF MyMountsExit, Revoke, TypeOK, Pinned, Named
  <2>4. Revoked' BY <1>0, <1>16 DEF MyMountsExit, Revoke, TypeOK, Revoked, Named
  <2>5. Named' BY <1>0, <1>16 DEF MyMountsExit, Revoke, TypeOK, Named
  <2>6. Strays' BY <1>0, <1>16 DEF MyMountsExit, Revoke, TypeOK, Strays, Named
  <2>7. NodesAreBacked' BY <1>0, <1>16 DEF MyMountsExit, Revoke, TypeOK, NodesAreBacked, Named, Strays
  <2>8. UnloadIsSafe' BY <1>0, <1>16 DEF MyMountsExit, Revoke, TypeOK, UnloadIsSafe, Pinned, Revoked, NodesAreBacked, Revoking
  <2>9. KeyboardsAreBacked' BY <1>0, <1>16 DEF MyMountsExit, Revoke, TypeOK, KeyboardsAreBacked, Named, Unused
  <2>10. QED BY <2>1, <2>2, <2>3, <2>4, <2>5, <2>6, <2>7, <2>8, <2>9 DEF IInv
<1>17. ASSUME NEW d \in Driver, Drained(d) PROVE IInv'
  <2>1. RefsMatch' BY <1>0, <1>17, SameHolders DEF Drained, TypeOK
  <2>2. TypeOK' BY <1>0, <1>17 DEF Drained, Unused, TypeOK
  <2>3. Pinned' BY <1>0, <1>17 DEF Drained, Unused, TypeOK, Pinned, Named
  <2>4. Revoked' BY <1>0, <1>17 DEF Drained, Unused, TypeOK, Revoked, Named
  <2>5. Named' BY <1>0, <1>17 DEF Drained, Unused, TypeOK, Named
  <2>6. Strays' BY <1>0, <1>17 DEF Drained, Unused, TypeOK, Strays, Named
  <2>7. NodesAreBacked' BY <1>0, <1>17 DEF Drained, Unused, TypeOK, NodesAreBacked, Named, Strays
  <2>8. UnloadIsSafe' BY <1>0, <1>17 DEF Drained, Unused, TypeOK, UnloadIsSafe, Pinned, Revoked, NodesAreBacked, Revoking
  <2>9. KeyboardsAreBacked' BY <1>0, <1>17 DEF Drained, Unused, TypeOK, KeyboardsAreBacked, Named, Unused
  <2>10. QED BY <2>1, <2>2, <2>3, <2>4, <2>5, <2>6, <2>7, <2>8, <2>9 DEF IInv
<1>18. ASSUME NEW d \in Driver, Free(d) PROVE IInv'
  <2>1. RefsMatch' BY <1>0, <1>18, SameHolders DEF Free, TypeOK
  <2>2. TypeOK' BY <1>0, <1>18 DEF Free, TypeOK
  <2>3. Pinned' BY <1>0, <1>18 DEF Free, TypeOK, Pinned, Named
  <2>4. Revoked' BY <1>0, <1>18 DEF Free, TypeOK, Revoked, Named
  <2>5. Named' BY <1>0, <1>18 DEF Free, TypeOK, Named
  <2>6. Strays' BY <1>0, <1>18 DEF Free, TypeOK, Strays, Named
  <2>7. NodesAreBacked' BY <1>0, <1>18 DEF Free, TypeOK, NodesAreBacked, Named, Strays
  <2>8. UnloadIsSafe' BY <1>0, <1>18 DEF Free, TypeOK, UnloadIsSafe, Pinned, Revoked, NodesAreBacked, Revoking
  <2>9. KeyboardsAreBacked' BY <1>0, <1>18 DEF Free, TypeOK, KeyboardsAreBacked, Named, Unused
  <2>10. QED BY <2>1, <2>2, <2>3, <2>4, <2>5, <2>6, <2>7, <2>8, <2>9 DEF IInv
<1>19. CASE UNCHANGED vars
  <2>1. RefsMatch' BY <1>19, SameHolders DEF vars
  <2>2. QED BY <1>0, <1>19, <2>1 DEF vars, IInv, TypeOK, Pinned, Revoked, Named, Strays, NodesAreBacked, UnloadIsSafe, KeyboardsAreBacked
<1>20. ASSUME HidInit PROVE IInv'
  <2>1. RefsMatch' BY <1>0, <1>20, SameHolders DEF HidInit, TypeOK
  <2>2. TypeOK' BY <1>0, <1>20 DEF HidInit, TypeOK
  <2>3. Pinned' BY <1>0, <1>20 DEF HidInit, TypeOK, Pinned, Named
  <2>4. Revoked' BY <1>0, <1>20 DEF HidInit, TypeOK, Revoked, Named
  <2>5. Named' BY <1>0, <1>20 DEF HidInit, TypeOK, Named
  <2>6. Strays' BY <1>0, <1>20 DEF HidInit, TypeOK, Strays, Named
  <2>7. NodesAreBacked' BY <1>0, <1>20 DEF HidInit, TypeOK, NodesAreBacked, Named, Strays
  <2>8. UnloadIsSafe' BY <1>0, <1>20 DEF HidInit, TypeOK, UnloadIsSafe, Pinned, Revoked, NodesAreBacked, Revoking
  <2>9. KeyboardsAreBacked' BY <1>0, <1>20 DEF HidInit, TypeOK, KeyboardsAreBacked, Named, Unused
  <2>10. QED BY <2>1, <2>2, <2>3, <2>4, <2>5, <2>6, <2>7, <2>8, <2>9 DEF IInv
<1>21. ASSUME HelloInit PROVE IInv'
  <2>1. RefsMatch' BY <1>0, <1>21, SameHolders DEF HelloInit, TypeOK
  <2>2. TypeOK' BY <1>0, <1>21 DEF HelloInit, TypeOK
  <2>3. Pinned' BY <1>0, <1>21 DEF HelloInit, TypeOK, Pinned, Named
  <2>4. Revoked' BY <1>0, <1>21 DEF HelloInit, TypeOK, Revoked, Named
  <2>5. Named' BY <1>0, <1>21 DEF HelloInit, TypeOK, Named
  <2>6. Strays' BY <1>0, <1>21 DEF HelloInit, TypeOK, Strays, Named
  <2>7. NodesAreBacked' BY <1>0, <1>21 DEF HelloInit, TypeOK, NodesAreBacked, Named, Strays
  <2>8. UnloadIsSafe' BY <1>0, <1>21 DEF HelloInit, TypeOK, UnloadIsSafe, Pinned, Revoked, NodesAreBacked, Revoking
  <2>9. KeyboardsAreBacked' BY <1>0, <1>21 DEF HelloInit, TypeOK, KeyboardsAreBacked, Named, Unused
  <2>10. QED BY <2>1, <2>2, <2>3, <2>4, <2>5, <2>6, <2>7, <2>8, <2>9 DEF IInv
<1>22. ASSUME DoWork PROVE IInv'
  <2>1. RefsMatch' BY <1>0, <1>22, SameHolders DEF DoWork, TypeOK
  <2>2. TypeOK' BY <1>0, <1>22 DEF DoWork, TypeOK
  <2>3. Pinned' BY <1>0, <1>22 DEF DoWork, TypeOK, Pinned, Named
  <2>4. Revoked' BY <1>0, <1>22 DEF DoWork, TypeOK, Revoked, Named
  <2>5. Named' BY <1>0, <1>22 DEF DoWork, TypeOK, Named
  <2>6. Strays' BY <1>0, <1>22 DEF DoWork, TypeOK, Strays, Named
  <2>7. NodesAreBacked' BY <1>0, <1>22 DEF DoWork, TypeOK, NodesAreBacked, Named, Strays
  <2>8. UnloadIsSafe' BY <1>0, <1>22 DEF DoWork, TypeOK, UnloadIsSafe, Pinned, Revoked, NodesAreBacked, Revoking
  <2>9. KeyboardsAreBacked' BY <1>0, <1>22 DEF DoWork, TypeOK, KeyboardsAreBacked, Named, Unused
  <2>10. QED BY <2>1, <2>2, <2>3, <2>4, <2>5, <2>6, <2>7, <2>8, <2>9 DEF IInv
<1>23. ASSUME MyInit PROVE IInv'
  <2>1. RefsMatch' BY <1>0, <1>23, SameHolders DEF MyInit, TypeOK
  <2>2. TypeOK' BY <1>0, <1>23 DEF MyInit, TypeOK
  <2>3. Pinned' BY <1>0, <1>23 DEF MyInit, TypeOK, Pinned, Named
  <2>4. Revoked' BY <1>0, <1>23 DEF MyInit, TypeOK, Revoked, Named
  <2>5. Named' BY <1>0, <1>23 DEF MyInit, TypeOK, Named
  <2>6. Strays' BY <1>0, <1>23 DEF MyInit, TypeOK, Strays, Named
  <2>7. NodesAreBacked' BY <1>0, <1>23 DEF MyInit, TypeOK, NodesAreBacked, Named, Strays
  <2>8. UnloadIsSafe' BY <1>0, <1>23 DEF MyInit, TypeOK, UnloadIsSafe, Pinned, Revoked, NodesAreBacked, Revoking
  <2>9. KeyboardsAreBacked' BY <1>0, <1>23 DEF MyInit, TypeOK, KeyboardsAreBacked, Named, Unused
  <2>10. QED BY <2>1, <2>2, <2>3, <2>4, <2>5, <2>6, <2>7, <2>8, <2>9 DEF IInv
<1>24. ASSUME HidExit PROVE IInv'
  <2>1. RefsMatch' BY <1>0, <1>24, SameHolders DEF HidExit, TypeOK
  <2>2. TypeOK' BY <1>0, <1>24 DEF HidExit, TypeOK
  <2>3. Pinned' BY <1>0, <1>24 DEF HidExit, TypeOK, Pinned, Named
  <2>4. Revoked' BY <1>0, <1>24 DEF HidExit, TypeOK, Revoked, Named
  <2>5. Named' BY <1>0, <1>24 DEF HidExit, TypeOK, Named
  <2>6. Strays' BY <1>0, <1>24 DEF HidExit, TypeOK, Strays, Named
  <2>7. NodesAreBacked' BY <1>0, <1>24 DEF HidExit, TypeOK, NodesAreBacked, Named, Strays
  <2>8. UnloadIsSafe' BY <1>0, <1>24 DEF HidExit, TypeOK, UnloadIsSafe, Pinned, Revoked, NodesAreBacked, Revoking
  <2>9. KeyboardsAreBacked' BY <1>0, <1>24 DEF HidExit, TypeOK, KeyboardsAreBacked, Named, Unused
  <2>10. QED BY <2>1, <2>2, <2>3, <2>4, <2>5, <2>6, <2>7, <2>8, <2>9 DEF IInv
<1>25. ASSUME HelloExit PROVE IInv'
  <2>1. RefsMatch' BY <1>0, <1>25, SameHolders DEF HelloExit, TypeOK
  <2>2. TypeOK' BY <1>0, <1>25 DEF HelloExit, TypeOK
  <2>3. Pinned' BY <1>0, <1>25 DEF HelloExit, TypeOK, Pinned, Named
  <2>4. Revoked' BY <1>0, <1>25 DEF HelloExit, TypeOK, Revoked, Named
  <2>5. Named' BY <1>0, <1>25 DEF HelloExit, TypeOK, Named
  <2>6. Strays' BY <1>0, <1>25 DEF HelloExit, TypeOK, Strays, Named
  <2>7. NodesAreBacked' BY <1>0, <1>25 DEF HelloExit, TypeOK, NodesAreBacked, Named, Strays
  <2>8. UnloadIsSafe' BY <1>0, <1>25 DEF HelloExit, TypeOK, UnloadIsSafe, Pinned, Revoked, NodesAreBacked, Revoking
  <2>9. KeyboardsAreBacked' BY <1>0, <1>25 DEF HelloExit, TypeOK, KeyboardsAreBacked, Named, Unused
  <2>10. QED BY <2>1, <2>2, <2>3, <2>4, <2>5, <2>6, <2>7, <2>8, <2>9 DEF IInv
<1>26. ASSUME MyExit PROVE IInv'
  <2>1. RefsMatch' BY <1>0, <1>26, SameHolders DEF MyExit, TypeOK
  <2>2. TypeOK' BY <1>0, <1>26 DEF MyExit, TypeOK
  <2>3. Pinned' BY <1>0, <1>26 DEF MyExit, TypeOK, Pinned, Named
  <2>4. Revoked' BY <1>0, <1>26 DEF MyExit, TypeOK, Revoked, Named
  <2>5. Named' BY <1>0, <1>26 DEF MyExit, TypeOK, Named
  <2>6. Strays' BY <1>0, <1>26 DEF MyExit, TypeOK, Strays, Named
  <2>7. NodesAreBacked' BY <1>0, <1>26 DEF MyExit, TypeOK, NodesAreBacked, Named, Strays
  <2>8. UnloadIsSafe' BY <1>0, <1>26 DEF MyExit, TypeOK, UnloadIsSafe, Pinned, Revoked, NodesAreBacked, Revoking
  <2>9. KeyboardsAreBacked' BY <1>0, <1>26 DEF MyExit, TypeOK, KeyboardsAreBacked, Named, Unused
  <2>10. QED BY <2>1, <2>2, <2>3, <2>4, <2>5, <2>6, <2>7, <2>8, <2>9 DEF IInv
<1>27. ASSUME NEW d \in Driver, Insmod(d) PROVE IInv'
  <2>1. uevent' \in [Keyboard -> BOOLEAN] BY <1>0, <1>27 DEF Insmod, TypeOK
  <2>2. QED BY <1>1, <1>27, <2>1 DEF Insmod
<1>28. ASSUME UNCHANGED <<built, mod, refs, node, dir, file, stray, stale, slept>>,
              dev' \in [Keyboard -> DevState], uevent' \in [Keyboard -> BOOLEAN], KeyboardsAreBacked'
       PROVE  IInv'
  <2>1. RefsMatch' BY <1>28, SameHolders
  <2>2. TypeOK' BY <1>0, <1>28 DEF TypeOK
  <2>3. QED BY <1>0, <1>28, <2>1, <2>2
    DEF IInv, Pinned, Revoked, Named, Strays, NodesAreBacked, UnloadIsSafe
<1>29. ASSUME NEW k \in Keyboard, Modprobe(k) PROVE IInv'
  <2>1. uevent' \in [Keyboard -> BOOLEAN] BY <1>0, <1>29 DEF Modprobe, TypeOK
  <2>2. CASE "hid" \in built /\ mod["hid"] = "out" /\ Load("hid")
    <3>1. "hid" \in Driver BY <1>0, <2>2 DEF TypeOK
    <3>2. QED BY <1>1, <2>1, <2>2, <3>1
  <2>3. CASE UNCHANGED <<built, mod, refs, node, dir, file, stray, stale, dev, slept>>
    <3>1. dev' \in [Keyboard -> DevState] BY <1>0, <2>3 DEF TypeOK
    <3>2. KeyboardsAreBacked' BY <1>0, <2>3 DEF KeyboardsAreBacked
    <3>3. QED BY <1>28, <2>1, <2>3, <3>1, <3>2
  <2>4. QED BY <1>29, <2>2, <2>3 DEF Modprobe
<1>30. ASSUME NEW k \in Keyboard, Plug(k) \/ Unplug(k) \/ KeyboardStep(k) PROVE IInv'
  <2>1. PICK s \in DevState : Becomes(k, s)
    BY <1>30 DEF Plug, Unplug, KeyboardStep, Probe, ProbeReturns, RemoveReturns, Detach, DevState
  <2>2. dev' \in [Keyboard -> DevState] BY <1>0, <2>1 DEF Becomes, TypeOK
  <2>3. uevent' \in [Keyboard -> BOOLEAN]
    BY <1>0, <1>30 DEF Plug, Unplug, KeyboardStep, Probe, ProbeReturns, RemoveReturns, Detach, TypeOK
  <2>4. dev'[k] \in Attached => At("hid", "live") \/ At("hid", "going") \/ At("hid", "draining")
    <3>1. CASE Probe(k) BY <1>0, <3>1 DEF Probe, Named, TypeOK, NodesAreBacked
    <3>2. CASE ~Probe(k)
      <4>1. dev'[k] \in Attached => dev[k] \in Attached
        BY <1>0, <1>30, <3>2 DEF Plug, Unplug, KeyboardStep, Becomes, ProbeReturns, RemoveReturns, Detach, TypeOK, Attached, DevState
      <4>2. QED BY <1>0, <4>1 DEF KeyboardsAreBacked
    <3>3. QED BY <3>1, <3>2
  <2>5. KeyboardsAreBacked' BY <1>0, <2>1, <2>4 DEF Becomes, KeyboardsAreBacked, TypeOK
  <2>6. QED BY <1>28, <2>1, <2>2, <2>3, <2>5 DEF Becomes
<1>31. QED
  BY <1>2, <1>3, <1>4, <1>5, <1>6, <1>7, <1>8, <1>9, <1>10,
     <1>11, <1>12, <1>13, <1>14, <1>15, <1>16, <1>17, <1>18, <1>19, <1>20,
     <1>21, <1>22, <1>23, <1>24, <1>25, <1>26, <1>27, <1>29, <1>30
  DEF Next, ModuleStep

\* What a load, a call or an unload can reach satisfies the invariant.
THEOREM Invariance == Spec => []IInv
BY InitIInv, StepIInv, PTL DEF Spec

\* Every variable keeps its type; in particular no reference count is dropped below
\* zero.
THEOREM TypeCorrect == Spec => []TypeOK
<1>1. IInv => TypeOK BY DEF IInv
<1>2. QED BY <1>1, Invariance, PTL

\* The reference count of a module is the number of its open files if its operations
\* name an owner, and zero if they do not.
THEOREM CountsMatch == Spec => []RefsMatch
<1>1. IInv => RefsMatch BY DEF IInv
<1>2. QED BY <1>1, Invariance, PTL

\* No call in debugfs.c, fix.c or mount.c has its code freed under it.
THEOREM CallsAreBacked == Spec => []BusyIsBacked
<1>1. IInv => BusyIsBacked
  BY DriverLifeAssumption DEF IInv, BusyIsBacked, Pinned, Revoked, Owner, Of
<1>2. QED BY <1>1, Invariance, PTL

\* No name of misc_device.c or mount.c, nor of a debugfs module with a directory of
\* its own, leads into an image that was freed.
THEOREM NamesAreBacked == Spec => []NodesAreBacked
<1>1. IInv => NodesAreBacked BY DEF IInv
<1>2. QED BY <1>1, Invariance, PTL

\* The freed image of mount.c is never used, nor that of a debugfs module with a
\* directory of its own.
THEOREM UnloadSafe == Spec => []UnloadIsSafe
<1>1. IInv => UnloadIsSafe BY DEF IInv
<1>2. QED BY <1>1, Invariance, PTL

\* No probe, remove or binding of my_hid outlives its code.
THEOREM KeyboardsBacked == Spec => []KeyboardsAreBacked
<1>1. IInv => KeyboardsAreBacked BY DEF IInv
<1>2. QED BY <1>1, Invariance, PTL
=============================================================================

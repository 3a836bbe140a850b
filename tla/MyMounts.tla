------------------------------- MODULE MyMounts -------------------------------
(***************************************************************************)
(* /proc/mymounts, ex09/mount.c (and its twin copy.c): a seq_file listing  *)
(* of the mounts of the opener's namespace.                                *)
(*                                                                         *)
(* The mounts hang in the red-black tree ns->mounts, ordered by their      *)
(* unique id; here a mount is its id.  The tree is walked node by node     *)
(* with no lock held (mymounts_start and mymounts_stop do not take         *)
(* namespace_sem), so mount(2) and umount(2) of other processes happen     *)
(* between any two steps of a walk, and inside a step: rb_next follows     *)
(* several links, and rebalancing the tree sets them one at a time.  The   *)
(* namespace itself is not pinned.                                         *)
(*                                                                         *)
(* External: seq_read, seq_lseek and their helper traverse, which call the *)
(* four handlers.  Their buffer doubles until one record fits with a byte  *)
(* to spare, several records are batched while they fit, and what a caller *)
(* does not take stays buffered for the next call.  m->lock serialises     *)
(* calls on one open file, and open files share only the tree, which they  *)
(* read: one file is modelled.  pread, which is an lseek, a read and an    *)
(* lseek back, is left out: m->read_pos is then always the file position.  *)
(***************************************************************************)
EXTENDS Integers, Sequences, FiniteSets

CONSTANTS Mount,     \* ids of all mounts there ever are; ids are never reused
          Root,      \* ns->root, the oldest
          Covering,  \* mounts whose mountpoint is the root of ns->root
          LineLen,   \* LineLen[m]: the bytes mymounts_show prints for m
          BufSize,   \* first size of the seq_file buffer: PAGE_SIZE
          MaxRead    \* bound on the count of a read

NULL == 0

ASSUME MyMountsAssumption ==
  /\ Mount \subseteq Nat \ {NULL} /\ IsFiniteSet(Mount)
  /\ Root \in Mount /\ \A m \in Mount : Root <= m
  /\ Covering \subseteq Mount \ {Root}
  /\ LineLen \in [Mount -> Nat \ {0}]
  /\ BufSize \in Nat \ {0} /\ MaxRead \in Nat \ {0}

VARIABLES
  mounts,    \* the mounts in the tree
  unborn,    \* the mounts not made yet
  ns_alive,  \* the namespace has not been freed
  f_pos,     \* the file position, and m->read_pos
  seq,       \* [index, left, size]: of struct seq_file, left being the bytes
             \* buffered and not yet copied out, buf[from .. from + count)
  call,      \* [kind, pos, n, good]: the system call, its offset, count and buffer
  phase,     \* which loop of the call runs: "traverse", "first" or "fill"
  pc,        \* the handler running for it
  p,         \* the mount pointer a handler holds
  i,         \* local of mymounts_start
  at,        \* local pos of traverse
  got,       \* bytes copied to the caller by this call
  moved,     \* how the tree changed since the walk's last step: "no", "grown",
             \* or "shrunk", if it did both as well
  \* History, read by no handler:
  since,     \* [zero, late, gained, lost, torn]: since the position was last computed
             \* afresh, from offset zero or not, inside the last line or not, which
             \* changes the tree saw, and whether one fell into an rb_next
  stayed,    \* for a listing from offset zero: mounts present ever since,
  shown,     \* mounts whose line was delivered since,
  again,     \* a line was delivered twice since
  wild       \* a pointer into freed memory was followed

vars == <<mounts, unborn, ns_alive, f_pos, seq, call, phase, pc, p, i, at, got, moved,
          since, stayed, shown, again, wild>>
tree == <<mounts, unborn, ns_alive>>
history == <<since, stayed, shown, again>>

\* A new struct seq_file; from and count are one with left.
NewSeq == [index |-> 0, left |-> <<>>, size |-> BufSize]

NoCall == [kind |-> "none", pos |-> 0, n |-> 0, good |-> 0]

Least(a, b) == IF a < b THEN a ELSE b

-----------------------------------------------------------------------------
(* The handlers' view of the tree.                                         *)

\* mymounts_skip: hide what is mounted over the root of the namespace.
Skip(m) == m # Root /\ m \in Covering

\* What mymounts_show prints for m, as m's bytes.
Line(m) == [j \in 1 .. LineLen[m] |-> <<m, j>>]

\* rb_next in a tree that stands still meanwhile; the links of a node that was freed
\* are stale: any mount, or none.
RbNext(m) ==
  IF m \notin mounts THEN mounts \cup {NULL}
  ELSE LET after == {k \in mounts : k > m}
       IN  IF after = {} THEN {NULL} ELSE {k \in after : \A h \in after : k <= h}

\* Where rb_next may end when mounts came, or came and went, while it followed links
\* that were being turned: at any mount of the tree, in front or behind, or, if some
\* went, on one of those.
RbNextTorn ==
  {NULL} \cup (IF moved = "grown" THEN mounts ELSE Mount \ unborn)

\* ns->mnt_first_node; a namespace that was freed has lost its mounts.
FirstNode ==
  IF ns_alive THEN {k \in mounts : \A h \in mounts : k <= h} ELSE {NULL}

\* Reading a mount that is no longer in the tree reads freed memory.
Deref(m) == wild' = (wild \/ m \notin mounts)

\* The walk goes on from p.  A change of the tree since its last step came before
\* rb_next, or while it ran, and then freed nodes may have been among those it met.
Step ==
  \/ /\ p' \in RbNext(p)
     /\ Deref(p)
     /\ UNCHANGED since
  \/ /\ moved # "no"
     /\ p' \in RbNextTorn
     /\ Deref(p) \/ (moved = "shrunk" /\ wild' = TRUE)
     /\ since' = [since EXCEPT !.torn = TRUE]

Bytes == UNION {{Line(m)[j] : j \in 1 .. LineLen[m]} : m \in Mount}

\* What is kept of struct seq_file: f_pos is its read_pos as well, its mutex lock is held
\* while pc is not "user", and its private ns is the one of the tree.
SeqFile == [index : Nat, left : Seq(Bytes), size : Nat \ {0}]

\* The mounts of a tree that have a line in its listing, which is in the order of ids;
\* how long the lines of some mounts are; and where the line of m begins.
Listed(T) == {m \in T : ~Skip(m)}
Length(M) == Cardinality({b \in Bytes : b[1] \in M})
Begins(T, m) == Length({k \in Listed(T) : k < m})

\* The offset of the last line of a listing.
LastLine(T) == Begins(T, CHOOSE m \in Listed(T) : \A k \in Listed(T) : k <= m)

-----------------------------------------------------------------------------
Init ==
  /\ mounts \in {T \in SUBSET Mount : Root \in T}
  /\ unborn = Mount \ mounts
  /\ ns_alive = TRUE
  /\ f_pos = 0
  /\ seq = NewSeq
  /\ call = NoCall
  /\ phase = "none" /\ pc = "user" /\ p = NULL /\ i = 0 /\ at = 0
  /\ got = <<>> /\ moved = "no"
  /\ since = [zero |-> TRUE, late |-> FALSE, gained |-> FALSE, lost |-> FALSE, torn |-> FALSE]
  /\ stayed = mounts /\ shown = {} /\ again = FALSE /\ wild = FALSE

-----------------------------------------------------------------------------
(* Other processes.                                                        *)

\* A handler is on its way to its next rb_next, or in it.
Walking == pc \in {"start", "next", "advance"}

Shrinks == moved' = IF Walking THEN "shrunk" ELSE moved

MountOne(m) ==
  /\ ns_alive /\ m \in unborn
  /\ mounts' = mounts \cup {m}
  /\ unborn' = unborn \ {m}
  /\ moved' = IF Walking /\ moved = "no" THEN "grown" ELSE moved
  /\ since' = [since EXCEPT !.gained = TRUE]
  /\ UNCHANGED <<ns_alive, f_pos, seq, call, phase, pc, p, i, at, got,
                 stayed, shown, again, wild>>

Umount(m) ==
  /\ ns_alive /\ m \in mounts \ {Root}
  /\ mounts' = mounts \ {m}
  /\ Shrinks
  /\ since' = [since EXCEPT !.lost = TRUE]
  /\ stayed' = {}
  /\ UNCHANGED <<unborn, ns_alive, f_pos, seq, call, phase, pc, p, i, at, got,
                 shown, again, wild>>

\* The last process of the namespace exits; the open file was passed elsewhere.
FreeNamespace ==
  /\ ns_alive
  /\ ns_alive' = FALSE
  /\ mounts' = {}
  /\ Shrinks
  /\ since' = [since EXCEPT !.lost = TRUE]
  /\ stayed' = {}
  /\ UNCHANGED <<unborn, f_pos, seq, call, phase, pc, p, i, at, got, shown, again, wild>>

-----------------------------------------------------------------------------
(* System calls on the open file: entry.                                   *)

\* The position is computed afresh for offset o.
Anew(o) ==
  /\ since' = [zero |-> o = 0, gained |-> FALSE, lost |-> ~ns_alive, torn |-> FALSE,
               late |-> ns_alive /\ o > LastLine(mounts)]
  /\ stayed' = IF o = 0 THEN mounts ELSE {}
  /\ shown' = {} /\ again' = FALSE

\* Mutation: i counts from -1.
EnterStartEarly ==
  /\ pc' = "start" /\ i' = -1
  /\ p' \in FirstNode
  /\ wild' = (wild \/ ~ns_alive)

\* mymounts_start begins its walk for position seq'.index.
EnterStart ==
  /\ pc' = "start" /\ i' = 0
  /\ p' \in FirstNode
  /\ wild' = (wild \/ ~ns_alive)

\* seq_read: offset zero rewinds.
Read(n, g) ==
  /\ pc = "user"
  /\ call' = [kind |-> "read", pos |-> f_pos, n |-> n, good |-> g]
  /\ pc' = "resume"
  /\ IF f_pos = 0
     THEN Anew(0) /\ seq' = [seq EXCEPT !.index = 0, !.left = <<>>]
     ELSE UNCHANGED <<seq, history>>
  /\ UNCHANGED <<tree, f_pos, phase, p, i, at, got, wild>>

\* seq_lseek: a new offset is looked up by traverse, from the first record on.
Lseek(o) ==
  /\ pc = "user" /\ o # f_pos
  /\ call' = [kind |-> "lseek", pos |-> o, n |-> 0, good |-> 0]
  /\ Anew(o)
  /\ seq' = [seq EXCEPT !.index = 0, !.left = <<>>]
  /\ IF o = 0 THEN pc' = "resume" /\ UNCHANGED <<phase, p, i, wild>>
     ELSE phase' = "traverse" /\ EnterStart
  /\ UNCHANGED <<tree, f_pos, at, got>>

\* seq_open_private gives the file a seq_file of its own, at the start.
Opened == f_pos' = 0 /\ seq' = NewSeq /\ Anew(0)

\* The file is closed, which frees its seq_file, and opened again by a process of the
\* namespace, with a fresh one.  An open for which there is no memory fails, leaves no
\* file and changes nothing.
Reopen ==
  /\ pc = "user" /\ ns_alive
  /\ Opened
  /\ UNCHANGED <<tree, call, phase, pc, p, i, at, got, wild>>

-----------------------------------------------------------------------------
(* The handlers.                                                           *)

\* mymounts_start passes over a skipped mount, or one before the position.
StartPasses ==
  /\ pc = "start" /\ p # NULL
  /\ Skip(p) \/ i # seq.index
  /\ i' = IF Skip(p) THEN i ELSE i + 1
  /\ Step
  /\ UNCHANGED <<tree, f_pos, seq, call, phase, pc, at, got, stayed, shown, again>>

StartFinds ==
  /\ pc = "start" /\ p # NULL
  /\ ~Skip(p) /\ i = seq.index
  /\ pc' = "show"
  /\ Deref(p)
  /\ UNCHANGED <<tree, f_pos, seq, call, phase, p, i, at, got, history>>

\* NULL: the end of the file.  seq_read drops its buffer, traverse just stops.
StartEnds ==
  /\ pc = "start" /\ p = NULL
  /\ seq' = [seq EXCEPT !.left = <<>>]
  /\ pc' = IF phase = "traverse" THEN "resume" ELSE "done"
  /\ phase' = "none"
  /\ UNCHANGED <<tree, f_pos, call, p, i, at, got, history, wild>>

\* mymounts_show appends one line, with seq_puts; a full buffer counts as overflown.
Shown == seq.left \o Line(p)
Overflows == Len(Shown) >= seq.size

Show ==
  /\ pc = "show" /\ ~Overflows
  /\ seq' = [seq EXCEPT !.left = Shown]
  /\ phase' = IF phase = "first" THEN "fill" ELSE phase
  /\ pc' = "next"
  /\ Deref(p)
  /\ UNCHANGED <<tree, f_pos, call, p, i, at, got, history>>

\* A first record that does not fit doubles the buffer and is started over (from
\* the first record of the file in traverse); a further one is left for later.
ShowOverflows ==
  /\ pc = "show" /\ Overflows
  /\ \/ /\ phase \in {"traverse", "first"}
        /\ seq' = [seq EXCEPT !.size = 2 * @, !.left = <<>>,
                              !.index = IF phase = "traverse" THEN 0 ELSE @]
        /\ at' = 0
        /\ pc' = "start" /\ i' = 0
        /\ p' \in FirstNode
        /\ wild' = (wild \/ ~ns_alive \/ p \notin mounts)
     \/ /\ phase = "fill"
        /\ pc' = "copy"
        /\ Deref(p)
        /\ UNCHANGED <<seq, at, p, i>>
  /\ UNCHANGED <<tree, f_pos, call, phase, got, history>>

\* Mutation: the position moves over a skipped mount as well.
NextStepsCounting ==
  /\ \/ pc = "next"
     \/ pc = "advance" /\ p # NULL /\ Skip(p)
  /\ seq' = [seq EXCEPT !.index = IF pc = "advance" THEN @ + 1 ELSE @]
  /\ pc' = "advance"
  /\ Step
  /\ UNCHANGED <<tree, f_pos, call, phase, i, at, got, stayed, shown, again>>

\* Mutation: a skipped mount is not stepped off.
NextStepsOnce ==
  /\ \/ pc = "next" /\ Step
     \/ pc = "advance" /\ p # NULL /\ Skip(p) /\ Deref(p) /\ UNCHANGED <<p, since>>
  /\ pc' = "advance"
  /\ UNCHANGED <<tree, f_pos, seq, call, phase, i, at, got, stayed, shown, again>>

\* Mutation: the end of the tree is taken for a mount that is skipped.
NextStepsOn ==
  /\ \/ pc = "next"
     \/ pc = "advance" /\ (p = NULL \/ Skip(p))
  /\ pc' = "advance"
  /\ Step
  /\ UNCHANGED <<tree, f_pos, seq, call, phase, i, at, got, stayed, shown, again>>

\* mymounts_next steps off the mount it was given and off skipped ones.
NextSteps ==
  /\ \/ pc = "next"
     \/ pc = "advance" /\ p # NULL /\ Skip(p)
  /\ pc' = "advance"
  /\ Step
  /\ UNCHANGED <<tree, f_pos, seq, call, phase, i, at, got, stayed, shown, again>>

\* Mutation: (*pos)++ forgotten.
NextIndexKept == seq.index

\* mymounts_next moves the position when it finds a mount, and only then.
NextIndex == IF p = NULL THEN seq.index ELSE seq.index + 1

NextReturns == pc = "advance" /\ (p = NULL \/ ~Skip(p))

\* seq_read moves the position itself if mymounts_next did not.
NextInFill ==
  /\ NextReturns /\ phase = "fill"
  /\ seq' = [seq EXCEPT !.index = IF NextIndex = @ THEN @ + 1 ELSE NextIndex]
  /\ pc' = IF p = NULL \/ Len(seq.left) >= call.n - Len(got) THEN "copy" ELSE "show"
  /\ UNCHANGED <<tree, f_pos, call, phase, p, i, at, got, history, wild>>

\* traverse does not; it stops in or after the record that holds the offset.
NextInTraverse ==
  /\ NextReturns /\ phase = "traverse"
  /\ LET after == at + Len(seq.left)
         found == after >= call.pos
     IN  /\ seq' = [seq EXCEPT
                      !.index = NextIndex,
                      !.left = IF after > call.pos
                               THEN SubSeq(@, call.pos - at + 1, Len(@)) ELSE <<>>]
         /\ at' = IF after > call.pos THEN at ELSE after
         /\ pc' = IF found \/ p = NULL THEN "resume" ELSE "show"
         /\ phase' = IF found \/ p = NULL THEN "none" ELSE phase
  /\ UNCHANGED <<tree, f_pos, call, p, i, got, history, wild>>

-----------------------------------------------------------------------------
(* System calls on the open file: copying and return.                      *)

\* The bytes of the buffer the caller takes now.
Taken == Least(Len(seq.left), Least(call.n, call.good) - Len(got))

\* copy_to_iter, and the record of the lines it completes.
CopyOut ==
  LET new == SubSeq(seq.left, 1, Taken)
      ended == {m \in Mount : since.zero /\ \E j \in 1 .. Taken : new[j] = <<m, LineLen[m]>>}
  IN  /\ got' = got \o new
      /\ seq' = [seq EXCEPT !.left = SubSeq(@, Taken + 1, Len(@))]
      /\ shown' = shown \cup ended
      /\ again' = (again \/ ended \cap shown # {})
      /\ UNCHANGED <<since, stayed>>

\* What is still buffered goes out first, and alone if it does not all fit.
CopyLeftover ==
  /\ pc = "resume" /\ call.kind # "lseek"
  /\ seq.left # <<>>
  /\ CopyOut
  /\ IF seq'.left # <<>>
     THEN pc' = "done" /\ UNCHANGED <<phase, p, i, wild>>
     ELSE phase' = "first" /\ EnterStart
  /\ UNCHANGED <<tree, f_pos, call, at>>

\* Nothing buffered: get a record.
NothingLeft ==
  /\ pc = "resume" /\ call.kind # "lseek"
  /\ seq.left = <<>>
  /\ phase' = "first"
  /\ EnterStart
  /\ UNCHANGED <<tree, f_pos, seq, call, at, got, history>>

CopyRecords ==
  /\ pc = "copy"
  /\ CopyOut
  /\ pc' = "done" /\ phase' = "none"
  /\ UNCHANGED <<tree, f_pos, call, p, i, at, wild>>

\* Nothing copied is the end of the file, or -EFAULT; the position stays.
ReadReturns ==
  /\ pc = "done"
  /\ f_pos' = f_pos + Len(got)
  /\ pc' = "user" /\ call' = NoCall /\ got' = <<>>
  /\ p' = NULL /\ i' = 0 /\ at' = 0
  /\ UNCHANGED <<tree, seq, phase, history, wild>>

LseekReturns ==
  /\ pc = "resume" /\ call.kind = "lseek"
  /\ f_pos' = call.pos
  /\ pc' = "user" /\ call' = NoCall
  /\ p' = NULL /\ i' = 0 /\ at' = 0
  /\ UNCHANGED <<tree, seq, phase, got, history, wild>>

-----------------------------------------------------------------------------
\* Bound on the offsets of the calls: one past the longest listing.
Offset == 0 .. Length(Listed(Mount)) + 1

Call ==
  /\ \/ f_pos \in Offset /\ \E n \in 1 .. MaxRead : \E g \in 0 .. n : Read(n, g)
     \/ \E o \in Offset : Lseek(o)
     \/ Reopen
  /\ moved' = "no"

Running ==
  /\ \/ StartPasses \/ StartFinds \/ StartEnds
     \/ Show \/ ShowOverflows
     \/ NextSteps \/ NextInFill \/ NextInTraverse
     \/ CopyLeftover \/ NothingLeft \/ CopyRecords
     \/ ReadReturns \/ LseekReturns
  /\ moved' = "no"

Others ==
  \/ \E m \in Mount : MountOne(m) \/ Umount(m)
  \/ FreeNamespace

\* What the machine does after the walk read freed memory is anyone's guess, and not
\* followed up.
Undefined == wild /\ UNCHANGED vars

Next ==
  \/ ~wild /\ (Call \/ Running \/ Others)
  \/ Undefined

Spec == Init /\ [][Next]_vars

\* The thread in the kernel runs; nobody has to call, mount or unmount.
FairSpec == Spec /\ WF_vars(~wild /\ Running)

-----------------------------------------------------------------------------
TypeOK ==
  /\ mounts \subseteq Mount /\ unborn \subseteq Mount \ mounts
  /\ ns_alive \in BOOLEAN /\ (ns_alive => Root \in mounts)
  /\ f_pos \in Nat
  /\ seq \in SeqFile
  /\ call \in [kind : {"none", "read", "lseek"}, pos : Nat,
               n : 0 .. MaxRead, good : 0 .. MaxRead]
  /\ phase \in {"none", "traverse", "first", "fill"}
  /\ pc \in {"user", "start", "show", "next", "advance", "resume", "copy", "done"}
  /\ p \in Mount \cup {NULL} /\ i \in Nat /\ at \in Nat
  /\ Len(got) <= call.good /\ call.good <= call.n
  /\ moved \in {"no", "grown", "shrunk"}
  /\ since \in [zero : BOOLEAN, late : BOOLEAN, gained : BOOLEAN, lost : BOOLEAN, torn : BOOLEAN]
  /\ stayed \subseteq mounts /\ shown \subseteq Mount
  /\ again \in BOOLEAN /\ wild \in BOOLEAN

Still == ~since.gained /\ ~since.lost

AtEnd == pc = "done" /\ got = <<>> /\ seq.left = <<>>

\* The bytes a call delivers are those of the listing at its offset, and the end
\* of the file is where the listing ends.
Exact ==
  /\ \A x \in 1 .. Len(got) :
       got[x][1] \in Listed(mounts) /\ Begins(mounts, got[x][1]) + got[x][2] = call.pos + x
  /\ AtEnd => call.pos >= Length(Listed(mounts))

\* While the tree stands still, cat, with any buffer, prints exactly the listing:
\* the batching, the overflows and the short copies of seq_read lose and repeat
\* nothing.  So does reading after a seek up to the start of the last line.
StillListing == Still /\ ~since.late => Exact

\* Mounts made while the file is read, even between two steps of one walk, never push
\* another one out of the listing, unless one turns the tree inside an rb_next:
\* whatever was mounted throughout has been printed when the reader sees the end.
MountingHidesNothing ==
  AtEnd /\ since.zero /\ ~since.lost /\ ~since.torn => {m \in stayed : ~Skip(m)} \subseteq shown

\* Unmounts, even between two steps of one walk, never make the listing repeat a line,
\* unless the walk is on the very mount that goes or one turns the tree inside an
\* rb_next.
UnmountingRepeatsNothing ==
  since.zero /\ ~since.gained /\ ~since.torn /\ ~wild => ~again

\* The walk takes no lock, yet only an unmount or the end of the namespace can lead it
\* into freed memory, and only one since the position was last computed afresh: mounts
\* made meanwhile, seeks, overflows, the ends of the tree and of the file never do.
OnlyUnmountsHurt == [][wild' => wild \/ since.lost]_vars

\* Every system call on the file comes back, however the tree changes under it,
\* if it never follows a freed pointer.
CallsReturn == (pc # "user") ~> (pc = "user" \/ wild)

\* ex09/README.md:61-64, on what a next operation does after the last mount: "Set
\* pos past current mount's ID so that if iteration restarts, mnt_find_id_at()
\* returns NULL."  So reading from any offset of a still tree delivers the listing
\* from there.
SeekListing == Still => Exact

\* ex09/research.c:7, on the tree the handlers walk: "Protected by namespace_sem".
\* So no mount goes away under the walk of a live namespace.
WalkProtected == ns_alive => ~wild
=============================================================================

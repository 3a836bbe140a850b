------------------------------- MODULE FooFile -------------------------------
(***************************************************************************)
(* The debugfs file `foo` of ex07/debugfs.c: one page, foo_data, and its   *)
(* fill level, foo_size, shared by every open file and guarded by no lock. *)
(*                                                                         *)
(* foo_write copies the caller's bytes into foo_data and then stores       *)
(* foo_size; foo_read samples foo_size as an argument and then copies out  *)
(* of foo_data.  Each copied byte is a step, so calls on different files   *)
(* interleave as they do on two CPUs.  Calls on one struct file are        *)
(* serialised by the VFS (a debugfs file is a regular file, its f_pos is   *)
(* locked during a call), so an open file is the unit of concurrency.      *)
(*                                                                         *)
(* External: simple_read_from_buffer, copy_from_user and copy_to_user.     *)
(* copy_from_user stops at the first unreadable byte, zero-fills the rest  *)
(* of the destination and reports the shortfall; copy_to_user stops at the *)
(* first unwritable byte.  How many bytes of the caller's buffer are       *)
(* accessible, `good`, is an input.  Stores become visible in program      *)
(* order (the kernel is built for x86-64, ex00/config.txt:332).            *)
(***************************************************************************)
EXTENDS Integers, Sequences

CONSTANTS Writer,     \* the files open for writing: root's alone, the mode is 0644
          Reader,     \* the files open for reading
          Value,      \* the payloads a writer may send
          NUL,        \* the zero byte
          PAGE_SIZE,
          MaxCount    \* bound on the counts passed to write; a read of more than a
                      \* page moves no more than a read of a page

ASSUME FooAssumption ==
  /\ NUL \notin Value
  /\ PAGE_SIZE \in Nat \ {0}
  /\ MaxCount \in Nat /\ MaxCount >= PAGE_SIZE

File == Writer \cup Reader

VARIABLES
  foo_data,  \* foo_data[i], i < PAGE_SIZE
  foo_size,
  offp,      \* offp[f]: the file's position, *offp of its handlers
  op,        \* op[f]: "idle", "write" or "read", the handler running on f
  arg,       \* arg[f]: [val, want, good], the call's payload, count and buffer
  count,     \* count[f]: the bytes the call will move
  done,      \* done[f]: the bytes it has moved
  out,       \* out[f]: the bytes copied to the caller since f was opened
  \* History variables, read by no handler:
  overlap,   \* overlap[f]: a write was in flight during the call on f
  stale,     \* stale[f]: a write was in flight since f was opened
  settled    \* [intact, val, len]: the last write, if it ran alone and succeeded

vars == <<foo_data, foo_size, offp, op, arg, count, done, out,
          overlap, stale, settled>>

NoArg == [val |-> NUL, want |-> 0, good |-> 0]
Empty == [intact |-> TRUE, val |-> NUL, len |-> 0]
Unsettled == [intact |-> FALSE, val |-> NUL, len |-> 0]

Least(a, b) == IF a < b THEN a ELSE b

Writing(f) == op[f] = "write"
WriteInFlight == \E w \in File : Writing(w)

\* Byte i of payload v in a caller's buffer.
UserByte(v, i) == <<v, i>>

\* The bytes that can ever be seen at offset i of the page.
PageByte(i) == {NUL} \cup {UserByte(v, i) : v \in Value}

Byte == UNION {PageByte(i) : i \in 0 .. PAGE_SIZE - 1}

-----------------------------------------------------------------------------
Init ==
  /\ foo_data = [i \in 0 .. PAGE_SIZE - 1 |-> NUL]
  /\ foo_size = 0
  /\ offp = [f \in File |-> 0]
  /\ op = [f \in File |-> "idle"]
  /\ arg = [f \in File |-> NoArg]
  /\ count = [f \in File |-> 0]
  /\ done = [f \in File |-> 0]
  /\ out = [f \in File |-> <<>>]
  /\ overlap = [f \in File |-> FALSE]
  /\ stale = [f \in File |-> FALSE]
  /\ settled = Empty

\* open(): nothing but a new file position.
Open(f) ==
  /\ op[f] = "idle"
  /\ offp' = [offp EXCEPT ![f] = 0]
  /\ out' = [out EXCEPT ![f] = <<>>]
  /\ stale' = [stale EXCEPT ![f] = WriteInFlight]
  /\ UNCHANGED <<foo_data, foo_size, op, arg, count, done, overlap, settled>>

\* Both handlers return to the caller.
Return(f) ==
  /\ op' = [op EXCEPT ![f] = "idle"]
  /\ arg' = [arg EXCEPT ![f] = NoArg]
  /\ count' = [count EXCEPT ![f] = 0]
  /\ done' = [done EXCEPT ![f] = 0]
  /\ overlap' = [overlap EXCEPT ![f] = FALSE]

-----------------------------------------------------------------------------
(* foo_write                                                               *)

\* Mutation: the bound off by one.
FitsLoosely(n) == n <= PAGE_SIZE + 1

\* A count over a page is refused: -EINVAL, nothing is touched.
Fits(n) == n <= PAGE_SIZE

FooWriteEnter(f, v, n, g) ==
  /\ op[f] = "idle" /\ f \in Writer
  /\ Fits(n)
  /\ op' = [op EXCEPT ![f] = "write"]
  /\ arg' = [arg EXCEPT ![f] = [val |-> v, want |-> n, good |-> g]]
  /\ count' = [count EXCEPT ![f] = n]
  /\ overlap' = [h \in File |-> IF h = f THEN WriteInFlight ELSE op[h] # "idle"]
  /\ stale' = [h \in File |-> TRUE]
  /\ UNCHANGED <<foo_data, foo_size, offp, done, out, settled>>

\* What copy_from_user leaves at offset i: the caller's byte, or zero from the
\* first inaccessible one on.
Copied(f, i) == IF i < arg[f].good THEN UserByte(arg[f].val, i) ELSE NUL

FooWriteCopy(f) ==
  /\ op[f] = "write"
  /\ done[f] < count[f]
  /\ foo_data' = [foo_data EXCEPT ![done[f]] = Copied(f, done[f])]
  /\ done' = [done EXCEPT ![f] = @ + 1]
  /\ UNCHANGED <<foo_size, offp, op, arg, count, out, overlap, stale, settled>>

\* -EFAULT: the page is overwritten all the same, foo_size is not.
FooWriteFault(f) ==
  /\ op[f] = "write" /\ done[f] = count[f]
  /\ arg[f].good < count[f]
  /\ settled' = Unsettled
  /\ Return(f)
  /\ UNCHANGED <<foo_data, foo_size, offp, out, stale>>

\* Mutation: a shorter write does not shrink the file.
FooWriteReturnKeepingSize(f) ==
  /\ op[f] = "write" /\ done[f] = count[f]
  /\ arg[f].good >= count[f]
  /\ foo_size' = IF count[f] > foo_size THEN count[f] ELSE foo_size
  /\ settled' = IF overlap[f] THEN Unsettled
                ELSE [intact |-> TRUE, val |-> arg[f].val, len |-> count[f]]
  /\ Return(f)
  /\ UNCHANGED <<foo_data, offp, out, stale>>

\* foo_size = count; the offset is neither looked at nor moved.
FooWriteReturn(f) ==
  /\ op[f] = "write" /\ done[f] = count[f]
  /\ arg[f].good >= count[f]
  /\ foo_size' = count[f]
  /\ settled' = IF overlap[f] THEN Unsettled
                ELSE [intact |-> TRUE, val |-> arg[f].val, len |-> count[f]]
  /\ Return(f)
  /\ UNCHANGED <<foo_data, offp, out, stale>>

-----------------------------------------------------------------------------
(* foo_read                                                                *)

\* Mutation: the last byte stored is taken for a terminator.
AvailableButLast(f, n) ==
  IF offp[f] >= foo_size THEN 0 ELSE Least(n, foo_size - 1 - offp[f])

\* simple_read_from_buffer on entry: foo_size is sampled here, once.
Available(f, n) ==
  IF offp[f] >= foo_size THEN 0 ELSE Least(n, foo_size - offp[f])

FooReadEnter(f, n, g) ==
  /\ op[f] = "idle" /\ f \in Reader
  /\ op' = [op EXCEPT ![f] = "read"]
  /\ arg' = [arg EXCEPT ![f] = [val |-> NUL, want |-> n, good |-> g]]
  /\ count' = [count EXCEPT ![f] = Available(f, n)]
  /\ overlap' = [overlap EXCEPT ![f] = WriteInFlight]
  /\ UNCHANGED <<foo_data, foo_size, offp, done, out, stale, settled>>

\* copy_to_user, one byte.
FooReadCopy(f) ==
  /\ op[f] = "read"
  /\ done[f] < Least(arg[f].good, count[f])
  /\ out' = [out EXCEPT ![f] = Append(@, foo_data[offp[f] + done[f]])]
  /\ done' = [done EXCEPT ![f] = @ + 1]
  /\ UNCHANGED <<foo_data, foo_size, offp, op, arg, count, overlap, stale, settled>>

\* Mutation: the position is not moved.
FooReadReturnInPlace(f) ==
  /\ op[f] = "read"
  /\ done[f] = Least(arg[f].good, count[f])
  /\ Return(f)
  /\ UNCHANGED <<foo_data, foo_size, offp, out, stale, settled>>

\* The position moves by what was copied: a buffer that takes no byte of a
\* non-empty rest gets -EFAULT, one that takes some a short count.
FooReadReturn(f) ==
  /\ op[f] = "read"
  /\ done[f] = Least(arg[f].good, count[f])
  /\ offp' = [offp EXCEPT ![f] = @ + done[f]]
  /\ Return(f)
  /\ UNCHANGED <<foo_data, foo_size, out, stale, settled>>

-----------------------------------------------------------------------------
Next ==
  \E f \in File :
    \/ Open(f)
    \/ \E v \in Value, n \in 0 .. MaxCount : \E g \in 0 .. n : FooWriteEnter(f, v, n, g)
    \/ FooWriteCopy(f) \/ FooWriteFault(f) \/ FooWriteReturn(f)
    \/ \E n \in 0 .. PAGE_SIZE : \E g \in 0 .. n : FooReadEnter(f, n, g)
    \/ FooReadCopy(f) \/ FooReadReturn(f)

Spec == Init /\ [][Next]_vars

-----------------------------------------------------------------------------
\* The variables have their types: in particular no write runs over the page and
\* a byte is only ever found at the offset its writer gave it.
TypeOK ==
  /\ DOMAIN foo_data = 0 .. PAGE_SIZE - 1
  /\ \A i \in 0 .. PAGE_SIZE - 1 : foo_data[i] \in PageByte(i)
  /\ foo_size \in 0 .. PAGE_SIZE
  /\ offp \in [File -> 0 .. PAGE_SIZE]
  /\ op \in [File -> {"idle", "write", "read"}]
  /\ arg \in [File -> [val : Value \cup {NUL}, want : 0 .. MaxCount, good : 0 .. MaxCount]]
  /\ count \in [File -> 0 .. PAGE_SIZE]
  /\ done \in [File -> 0 .. PAGE_SIZE]
  /\ out \in [File -> Seq(Byte)]
  /\ overlap \in [File -> BOOLEAN]
  /\ stale \in [File -> BOOLEAN]
  /\ settled \in [intact : BOOLEAN, val : Value \cup {NUL}, len : 0 .. PAGE_SIZE]

\* Whenever no foo_write is running, the page and its fill level are those of the
\* last write, unless that write faulted or ran into another one.  (foo_write
\* stores the bytes and the size in separate, unlocked steps.)
SettledOnPage ==
  ~WriteInFlight /\ settled.intact =>
    /\ foo_size = settled.len
    /\ \A i \in 0 .. settled.len - 1 : foo_data[i] = UserByte(settled.val, i)

\* A caller that opens foo and reads it in chunks of any size while nobody writes
\* receives a prefix of the one stored payload, however many foo_read calls the
\* chunks take and whatever happened before the open.
SessionReadsOneWrite ==
  \A f \in Reader : ~stale[f] /\ settled.intact =>
    /\ Len(out[f]) <= settled.len
    /\ \A j \in 1 .. Len(out[f]) : out[f][j] = UserByte(settled.val, j - 1)

\* The file implements the safe register: undisturbed reads deliver exactly what
\* the last good write stored, all others at least keep every byte in its place.
\* The bytes of the running foo_read are not delivered until it returns.
Abstract == INSTANCE SafePage WITH
  stored <- settled,
  delivered <- [f \in File |-> SubSeq(out[f], 1, offp[f])]

ImplementsSafePage == Abstract!Spec

\* What ex07/README.md:21-23 asks for: "Reading should return the stored data.
\* Implement proper locking to handle concurrent read/write operations."  The
\* bytes one foo_read delivers never come from two different payloads.
ReadReturnsStoredData ==
  [][\A f \in Reader : op[f] = "read" /\ op'[f] = "idle" =>
       ~ \E i, j \in offp[f] + 1 .. offp'[f], v, w \in Value :
           v # w /\ out[f][i] = UserByte(v, i - 1) /\ out[f][j] = UserByte(w, j - 1)]_vars
=============================================================================

-------------------------------- MODULE Reverse --------------------------------
(***************************************************************************)
(* /dev/reverse, ex08/fix.c: one page, str, that is read back to front.    *)
(*                                                                         *)
(* Every read takes two pages from kmalloc, points the global tmp at them, *)
(* and writes the reversed text through tmp, which is loaded anew after    *)
(* every byte and once more for the copy to the caller (fix.o does what    *)
(* the source says).  Nothing is locked, so another read moves tmp in the  *)
(* middle, and nothing is freed.  A write stores its terminator one byte   *)
(* late, at str[size + 1].                                                 *)
(*                                                                         *)
(* An open file is used by one process; files interleave byte by byte.     *)
(* Nothing looks at the count of a write: from PAGE_SIZE - 1 on that store *)
(* falls behind str, from PAGE_SIZE on the text has no end for a strlen    *)
(* that comes before it, and above that the text runs over str itself.     *)
(* What lies behind is the linker's choice (myfd_device in the fix.ko of   *)
(* the repository): with the first access there the model stops.           *)
(*                                                                         *)
(* External: kmalloc, which hands out memory with anything in it, and NULL *)
(* when there is none left; strlen; simple_read_from_buffer and            *)
(* simple_write_to_buffer, whose copies stop at the first byte of the      *)
(* caller's buffer that is not accessible; the second zero-fills the rest. *)
(* A copy from NULL to a caller stops at once.                             *)
(***************************************************************************)
EXTENDS Integers, Sequences

CONSTANTS File,       \* open files
          Value,      \* the payloads a process may write
          NUL,        \* the zero byte
          Junk,       \* a byte of fresh memory
          PAGE_SIZE,
          Heap,       \* bound: how many reads kmalloc has memory for
          ReadBuffer, \* bound: the user buffers of a read and
          WriteBuffer,\*   of a write, [want, good]: its count, and how much is accessible
          MaxWrites   \* bound: the writes made

ASSUME ReverseAssumption ==
  /\ NUL \notin Value \X Nat /\ Junk \notin Value \X Nat /\ NUL # Junk
  /\ PAGE_SIZE \in Nat \ {0} /\ Heap \in Nat /\ MaxWrites \in Nat
  /\ ReadBuffer \subseteq [want : Nat, good : Nat]
  /\ WriteBuffer \subseteq [want : Nat, good : Nat]

NULL == 0   \* the address of no buffer; buffers are numbered from 1

VARIABLES
  str,      \* the page
  tmp,      \* the buffer the global points to
  heap,     \* heap[b]: the two pages of buffer b
  asked,    \* how often kmalloc was asked for a buffer, up to its first refusal
  pos,      \* pos[f]: the position of the file
  pc,       \* pc[f]: where in a handler the process on f is
  arg,      \* arg[f]: [val, want, good], the call's payload, count and buffer
  to,       \* to[f]: the buffer tmp pointed to when last loaded
  len,      \* len[f]: strlen(str), or the bytes a write will copy
  i,        \* i[f]: the bytes the running loop has dealt with
  out,      \* out[f]: the bytes copied to the caller since f was opened
  wild,     \* memory behind the page was read or written
  \* History variables, read by no handler:
  writes,   \* how many writes were made
  tainted,  \* tainted[f]: a write was in flight during the call on f
  stale,    \* stale[f]: a write, or a call that met one, since f was opened
  crowd,    \* crowd[f]: another read met one of f's since f was opened
  settled   \* [intact, val, len]: the last write, if it ran alone from position 0

vars == <<str, tmp, heap, asked, pos, pc, arg, to, len, i, out, wild,
          writes, tainted, stale, crowd, settled>>
history == <<writes, tainted, stale, crowd, settled>>

NoArg == [val |-> NUL, want |-> 0, good |-> 0]
Unsettled == [intact |-> FALSE, val |-> NUL, len |-> 0]

Least(a, b) == IF a < b THEN a ELSE b

Cell == 0 .. PAGE_SIZE - 1
Fresh == [k \in 0 .. 2 * PAGE_SIZE - 1 |-> Junk]

Reading(f) == pc[f] \in {"measure", "reverse", "give"}
Writing(f) == pc[f] = "store"
WriteInFlight == \E w \in File : Writing(w)

-----------------------------------------------------------------------------
Init ==
  /\ str = [k \in Cell |-> NUL]
  /\ tmp = NULL
  /\ heap = [b \in 1 .. Heap |-> Fresh]
  /\ asked = 0
  /\ pos = [f \in File |-> 0]
  /\ pc = [f \in File |-> "idle"]
  /\ arg = [f \in File |-> NoArg]
  /\ to = [f \in File |-> NULL]
  /\ len = [f \in File |-> 0]
  /\ i = [f \in File |-> 0]
  /\ out = [f \in File |-> <<>>]
  /\ wild = FALSE
  /\ writes = 0
  /\ tainted = [f \in File |-> FALSE]
  /\ stale = [f \in File |-> FALSE]
  /\ crowd = [f \in File |-> FALSE]
  /\ settled = [intact |-> TRUE, val |-> NUL, len |-> 0]

\* The file is closed and opened again, perhaps because the process on it was killed:
\* the misc core's open, since fix.c has none.
Open(f) ==
  /\ pc[f] \in {"idle", "oops"}
  /\ pc' = [pc EXCEPT ![f] = "idle"]
  /\ pos' = [pos EXCEPT ![f] = 0]
  /\ out' = [out EXCEPT ![f] = <<>>]
  /\ stale' = [stale EXCEPT ![f] = \E g \in File : Writing(g) \/ tainted[g]]
  /\ crowd' = [crowd EXCEPT ![f] = FALSE]
  /\ UNCHANGED <<str, tmp, heap, asked, arg, to, len, i, tainted, settled, writes>>

\* A handler is over, and its locals with it.
Leave(f) ==
  /\ arg' = [arg EXCEPT ![f] = NoArg]
  /\ to' = [to EXCEPT ![f] = NULL]
  /\ len' = [len EXCEPT ![f] = 0]
  /\ i' = [i EXCEPT ![f] = 0]
  /\ tainted' = [tainted EXCEPT ![f] = FALSE]

\* A handler returns, having moved the position by d.
Return(f, d) ==
  /\ pc' = [pc EXCEPT ![f] = "idle"]
  /\ pos' = [pos EXCEPT ![f] = @ + d]
  /\ Leave(f)

-----------------------------------------------------------------------------
(* myfd_read                                                               *)

\* kmalloc, never freed: it fails when it is asked too often.
Kmalloc == IF asked < Heap THEN asked + 1 ELSE NULL

MyfdReadEnter(f, u) ==
  /\ pc[f] = "idle"
  /\ pc' = [pc EXCEPT ![f] = "measure"]
  /\ arg' = [arg EXCEPT ![f] = [val |-> NUL, want |-> u.want, good |-> u.good]]
  /\ asked' = Least(asked + 1, Heap + 1)
  /\ tmp' = Kmalloc
  /\ to' = [to EXCEPT ![f] = Kmalloc]
  /\ tainted' = [tainted EXCEPT ![f] = WriteInFlight]
  /\ crowd' = [h \in File |-> crowd[h] \/ IF h = f THEN \E q \in File : Reading(q)
                                                   ELSE Reading(h)]
  /\ UNCHANGED <<str, heap, pos, len, i, out, stale, settled, writes>>

\* strlen looks at one byte.
Measure(f) ==
  /\ pc[f] = "measure" /\ i[f] \in Cell /\ str[i[f]] # NUL
  /\ i' = [i EXCEPT ![f] = @ + 1]
  /\ UNCHANGED <<str, tmp, heap, asked, pos, pc, arg, to, len, out, history>>

Measured(f) ==
  /\ pc[f] = "measure" /\ i[f] \in Cell /\ str[i[f]] = NUL
  /\ len' = [len EXCEPT ![f] = i[f]]
  /\ i' = [i EXCEPT ![f] = 0]
  /\ pc' = [pc EXCEPT ![f] = "reverse"]
  /\ UNCHANGED <<str, tmp, heap, asked, pos, arg, to, out, history>>

\* Mutation: t starts at strlen(str).
LastOffByOne(f) == len[f] - i[f]

\* t, the index of the byte to copy.
Last(f) == len[f] - 1 - i[f]

\* tmp[i] = str[t], through the pointer loaded before; then tmp is loaded.
ReverseByte(f) ==
  /\ pc[f] = "reverse" /\ to[f] # NULL /\ i[f] < len[f]
  /\ heap' = [heap EXCEPT ![to[f]][i[f]] = str[Last(f)]]
  /\ to' = [to EXCEPT ![f] = tmp]
  /\ i' = [i EXCEPT ![f] = @ + 1]
  /\ UNCHANGED <<str, tmp, asked, pos, pc, arg, len, out, history>>

\* Mutation: the length given to simple_read_from_buffer counts the terminator.
GivableWithEnd(f) == IF pos[f] > len[f] THEN 0 ELSE Least(arg[f].want, len[f] + 1 - pos[f])

\* What simple_read_from_buffer will copy of the len[f] bytes.
Givable(f) == IF pos[f] >= len[f] THEN 0 ELSE Least(arg[f].want, len[f] - pos[f])

\* tmp[i] = 0; tmp is loaded once more, as an argument.
ReverseEnd(f) ==
  /\ pc[f] = "reverse" /\ to[f] # NULL /\ i[f] = len[f]
  /\ heap' = [heap EXCEPT ![to[f]][len[f]] = NUL]
  /\ to' = [to EXCEPT ![f] = tmp]
  /\ len' = [len EXCEPT ![f] = Givable(f)]
  /\ i' = [i EXCEPT ![f] = 0]
  /\ pc' = [pc EXCEPT ![f] = "give"]
  /\ UNCHANGED <<str, tmp, asked, pos, arg, out, history>>

\* The process is killed in the handler by a store through NULL.
Oops(f) ==
  /\ pc[f] = "reverse" /\ to[f] = NULL
  /\ pc' = [pc EXCEPT ![f] = "oops"]
  /\ Leave(f)
  /\ UNCHANGED <<str, tmp, heap, asked, pos, out, stale, crowd, settled, writes>>

\* How far copy_to_user gets.
Reachable(f) == IF to[f] = NULL THEN 0 ELSE Least(arg[f].good, len[f])

Give(f) ==
  /\ pc[f] = "give" /\ i[f] < Reachable(f)
  /\ out' = [out EXCEPT ![f] = Append(@, heap[to[f]][pos[f] + i[f]])]
  /\ i' = [i EXCEPT ![f] = @ + 1]
  /\ UNCHANGED <<str, tmp, heap, asked, pos, pc, arg, to, len, history>>

\* Mutation: the read clears tmp behind itself, as if it had freed the buffer.
MyfdReadReturnClearing(f) ==
  /\ pc[f] = "give" /\ i[f] = Reachable(f)
  /\ tmp' = NULL
  /\ Return(f, i[f])
  /\ UNCHANGED <<str, heap, asked, out, stale, crowd, settled, writes>>

MyfdReadReturn(f) ==
  /\ pc[f] = "give" /\ i[f] = Reachable(f)
  /\ Return(f, i[f])
  /\ UNCHANGED <<str, tmp, heap, asked, out, stale, crowd, settled, writes>>

-----------------------------------------------------------------------------
(* myfd_write                                                              *)

\* Mutation: the whole count is stored, wherever the position is.
StorableAnywhere(f, n) == n

\* simple_write_to_buffer is told that str holds size bytes, size being the count: it
\* stores what of the count lies behind the position, and nothing if that is past it.
Storable(f, n) == IF pos[f] >= n THEN 0 ELSE n - pos[f]

MyfdWriteEnter(f, v, u) ==
  /\ pc[f] = "idle" /\ writes < MaxWrites
  /\ writes' = writes + 1
  /\ pc' = [pc EXCEPT ![f] = "store"]
  /\ arg' = [arg EXCEPT ![f] = [val |-> v, want |-> u.want, good |-> u.good]]
  /\ len' = [len EXCEPT ![f] = Storable(f, u.want)]
  /\ tainted' = [h \in File |-> IF h = f THEN WriteInFlight ELSE pc[h] \notin {"idle", "oops"}]
  /\ stale' = [h \in File |-> TRUE]
  /\ UNCHANGED <<str, tmp, heap, asked, pos, to, i, out, crowd, settled>>

\* The caller's byte, or zero from the first inaccessible one on.
Copied(f) == IF i[f] < arg[f].good THEN <<arg[f].val, i[f]>> ELSE NUL

Store(f) ==
  /\ pc[f] = "store" /\ i[f] < len[f] /\ pos[f] + i[f] \in Cell
  /\ str' = [str EXCEPT ![pos[f] + i[f]] = Copied(f)]
  /\ i' = [i EXCEPT ![f] = @ + 1]
  /\ UNCHANGED <<tmp, heap, asked, pos, pc, arg, to, len, out, history>>

\* Mutation: the terminator over the last byte, as if that were a newline.
TerminatorEarly(f) == IF arg[f].want = 0 THEN 0 ELSE arg[f].want - 1

\* Mutation: the terminator yet one byte later.
TerminatorLater(f) == arg[f].want + 2

\* Where the terminator goes.
Terminator(f) == arg[f].want + 1

\* str[size + 1] = 0, and the return: one more than was stored, or EFAULT plus one.
MyfdWriteReturn(f) ==
  /\ pc[f] = "store" /\ i[f] = len[f] /\ Terminator(f) \in Cell
  /\ str' = [str EXCEPT ![Terminator(f)] = NUL]
  /\ settled' = IF ~tainted[f] /\ pos[f] = 0 /\ arg[f].good >= len[f]
                THEN [intact |-> TRUE, val |-> arg[f].val, len |-> len[f]] ELSE Unsettled
  /\ Return(f, Least(arg[f].good, len[f]))
  /\ UNCHANGED <<tmp, heap, asked, out, stale, crowd, writes>>

-----------------------------------------------------------------------------
(* The first access behind the page: by strlen, by a store, by the         *)
(* terminator.  Whatever comes of it, the model ends here.                 *)

LeavePage(f) ==
  /\ \/ pc[f] = "measure" /\ i[f] \notin Cell
     \/ pc[f] = "store" /\ i[f] < len[f] /\ pos[f] + i[f] \notin Cell
     \/ pc[f] = "store" /\ i[f] = len[f] /\ Terminator(f) \notin Cell
  /\ wild' = TRUE
  /\ UNCHANGED <<str, tmp, heap, asked, pos, pc, arg, to, len, i, out, history>>

Undefined == wild /\ UNCHANGED vars

Step(f) ==
  \/ Measure(f) \/ Measured(f) \/ ReverseByte(f) \/ ReverseEnd(f) \/ Oops(f)
  \/ Give(f) \/ MyfdReadReturn(f)
  \/ Store(f) \/ MyfdWriteReturn(f)

Defined(f) ==
  \/ Open(f)
  \/ \E u \in ReadBuffer : MyfdReadEnter(f, u)
  \/ \E v \in Value, u \in WriteBuffer : MyfdWriteEnter(f, v, u)
  \/ Step(f)

Next ==
  \/ \E f \in File : ~wild /\ ((Defined(f) /\ UNCHANGED wild) \/ LeavePage(f))
  \/ Undefined

Spec == Init /\ [][Next]_vars

-----------------------------------------------------------------------------
Byte == {NUL} \cup (Value \X Nat)

\* The variables have their types: the reversed text fits in its buffer, and no position
\* lies behind the page.
TypeOK ==
  /\ str \in [Cell -> Byte]
  /\ asked \in 0 .. Heap + 1 /\ tmp \in 0 .. Heap
  /\ heap \in [1 .. Heap -> [0 .. 2 * PAGE_SIZE - 1 -> Byte \cup {Junk}]]
  /\ pos \in [File -> Cell]
  /\ pc \in [File -> {"idle", "measure", "reverse", "give", "store", "oops"}]
  /\ arg \in [File -> [val : Value \cup {NUL}, want : Nat, good : Nat]]
  /\ to \in [File -> 0 .. Heap]
  /\ len \in [File -> Nat] /\ i \in [File -> 0 .. PAGE_SIZE]
  /\ out \in [File -> Seq(Byte \cup {Junk})]
  /\ wild \in BOOLEAN
  /\ tainted \in [File -> BOOLEAN] /\ stale \in [File -> BOOLEAN] /\ crowd \in [File -> BOOLEAN]
  /\ writes \in 0 .. MaxWrites
  /\ settled \in [intact : BOOLEAN, val : Value \cup {NUL}, len : Cell]

\* Neither strlen nor a store leaves the page but while a write goes on whose text and
\* late terminator are longer than the page, whichever other calls it meets.
OnlyLongWritesLeave ==
  wild => \E w \in File : Writing(w) /\ arg[w].want + 2 > PAGE_SIZE

\* The text on the page is n bytes long.
TextLen(n) == str[n] = NUL /\ \A k \in 0 .. n - 1 : str[k] # NUL

\* While nobody writes, reads that move tmp under each other deliver no wrong byte:
\* each is the one the reversed text has at its place, or was never written at all.
NoWrongByte ==
  \A f \in File, n \in Cell : ~stale[f] /\ TextLen(n) =>
    /\ Len(out[f]) <= n
    /\ \A j \in 1 .. Len(out[f]) : out[f][j] \in {Junk, str[n - j]}

\* A process that reads the file in chunks, with no other call in between its own,
\* is given the text from back to front.
AloneReversed ==
  \A f \in File, n \in Cell : ~stale[f] /\ ~crowd[f] /\ TextLen(n) =>
    \A j \in 1 .. Len(out[f]) : out[f][j] = str[n - j]

\* What a write that ran alone on a fresh file stored is the text, with at most one
\* byte of an older text behind it, which the late terminator leaves.
OneStaleByte ==
  settled.intact /\ ~WriteInFlight =>
    /\ \A k \in 0 .. settled.len - 1 : str[k] = <<settled.val, k>>
    /\ TextLen(settled.len) \/ TextLen(settled.len + 1)

\* No read dies before kmalloc has refused one, whatever other reads do to tmp.
OopsOnlyWhenOut == asked <= Heap => \A f \in File : pc[f] # "oops"
=============================================================================

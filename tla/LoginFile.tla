------------------------------- MODULE LoginFile -------------------------------
(***************************************************************************)
(* The two files that hold the login: /dev/fortytwo (misc_device.c, the    *)
(* device "misc") and id (debugfs.c, the device "id").  One open file is   *)
(* shared by processes that read it to its end, as cat does, and by others *)
(* that write to it.                                                       *)
(*                                                                         *)
(* A call is given a copy of the position of the file and the position is  *)
(* stored when the call returns.  id is a regular file, whose position the *)
(* kernel guards with a lock while the file is shared; /dev/fortytwo is a  *)
(* character device, for which it does not, so calls overlap.              *)
(*                                                                         *)
(* The bytes are abstracted to their offsets in the string they come from. *)
(* A buffer given to write holds the login with a newline or a NUL behind  *)
(* it, or something else.  With a count of 0, fortytwo_write looks at the  *)
(* byte before its array; no such byte changes what the call returns, and  *)
(* none is modelled.                                                       *)
(*                                                                         *)
(* External: the system calls that load and store the position,            *)
(* simple_read_from_buffer, and the copies from and to user space, which   *)
(* may stop at a byte that is not mapped.                                  *)
(***************************************************************************)
EXTENDS Integers

CONSTANTS Reader, Writer,
          LoginLen,     \* length of "estruckm\n"
          SuccessLen,   \* length of "write was successful"
          DataSize,     \* sizeof(data), the array a write is copied to
          MaxCount      \* bound: the largest count of a call

ASSUME LoginFileAssumption ==
  /\ Reader \cap Writer = {}
  /\ LoginLen \in Nat /\ SuccessLen \in Nat /\ DataSize \in Nat /\ MaxCount \in Nat
  /\ 1 < LoginLen /\ LoginLen <= SuccessLen /\ LoginLen < DataSize

Proc == Reader \cup Writer

EFAULT == -14
EINVAL == -22

VARIABLES
  dev,     \* the file that is open
  pos,     \* its position
  call,    \* call[p]: the count p called with, and the position it was given
  buf,     \* buf[w]: what is in the buffer writer w sends
  ended,   \* the readers that were told the end of the file, or an error
  got,     \* the bytes of the login that some reader was given (history)
  again,   \* a byte was given once more (history)
  moved,   \* a write moved the position (history)
  ignored  \* a write of the login was answered with 0 (history)

vars == <<dev, pos, call, buf, ended, got, again, moved, ignored>>

Idle == [count |-> -1, start |-> 0]
Calls == [count : 0 .. MaxCount, start : 0 .. SuccessLen]
Text == {"newline", "nul", "other"}   \* what follows the login; "other" is no login

Least(m, n) == IF m <= n THEN m ELSE n

\* A fresh open.  misc_open also has fill_data fill msg, len and size, which nobody reads.
Init ==
  /\ dev \in {"misc", "id"}
  /\ pos = 0
  /\ call = [p \in Proc |-> Idle]
  /\ buf \in [Writer -> Text]
  /\ ended = {} /\ got = {} /\ again = FALSE /\ moved = FALSE
  /\ ignored = FALSE

-----------------------------------------------------------------------------
(* Entering and leaving a call.                                            *)

\* The position of a shared regular file is locked while a call is under way.
MayEnter(p) == call[p] = Idle /\ (dev = "id" => \A q \in Proc : call[q] = Idle)

Enter(p, count) ==
  /\ MayEnter(p)
  /\ call' = [call EXCEPT ![p] = [count |-> count, start |-> pos]]
  /\ UNCHANGED <<dev, pos, buf, ended, got, again, moved, ignored>>

Leave(p) == call' = [call EXCEPT ![p] = Idle]

\* Mutant of NextPos: *offp += to_copy forgotten.
NextPosKept(start, ret) == start

\* The position a call that returned ret leaves.
NextPos(start, ret) == start + ret

\* It is stored unless the call failed.
Store(start, ret) == pos' = IF ret < 0 THEN pos ELSE NextPos(start, ret)

\* Mutant of Available: to_copy = count.
AvailableAll(size, start, count) == IF start >= size THEN 0 ELSE count

\* What a read of count bytes from start can give of a string of size bytes.
Available(size, start, count) == IF start >= size THEN 0 ELSE Least(count, size - start)

\* simple_read_from_buffer of n bytes, k of which could be copied.
SimpleRead(n, k) == IF n > 0 /\ k = 0 THEN EFAULT ELSE k

\* Mutant of IdRead: the result of copy_to_user is not looked at.
IdReadUnchecked(n, k) == n

\* id_read, which fails unless all was copied.
IdRead(n, k) == IF k < n THEN EFAULT ELSE n

-----------------------------------------------------------------------------
(* misc_read and id_read.                                                  *)

ReadCall(r) ==
  /\ r \notin ended
  /\ \E count \in 1 .. MaxCount : Enter(r, count)

ReadReturn(r) ==
  /\ call[r] # Idle
  /\ LET start == call[r].start
         n == Available(LoginLen, start, call[r].count)
     IN  \E k \in 0 .. n :
           LET ret == IF dev = "misc" THEN SimpleRead(n, k) ELSE IdRead(n, k)
               given == IF ret < 0 THEN {} ELSE start .. start + k - 1
           IN  /\ Store(start, ret)
               /\ ended' = IF ret <= 0 THEN ended \cup {r} ELSE ended
               /\ got' = got \cup given
               /\ again' = (again \/ given \cap got # {})
  /\ Leave(r)
  /\ UNCHANGED <<dev, buf, moved, ignored>>

-----------------------------------------------------------------------------
(* fortytwo_write and id_write.                                            *)

WriteCall(w, count) == Enter(w, count)

\* What fortytwo_write finds equal to the login, having replaced a last newline.
IsLogin(text, count) ==
  \/ text = "nul" /\ count >= LoginLen - 1
  \/ text = "newline" /\ count \in {LoginLen - 1, LoginLen}

\* Writer w is told ret.
Answer(w, ret) ==
  ignored' = (ignored \/ (IsLogin(buf[w], call[w].count) /\ ret = 0))

\* More than fits in data, or a buffer that cannot be read.
WriteRefused(w) ==
  /\ call[w] # Idle
  /\ \/ call[w].count >= DataSize /\ Answer(w, EINVAL)
     \/ call[w].count \in 1 .. DataSize - 1 /\ Answer(w, EFAULT)
  /\ Leave(w)
  /\ UNCHANGED <<dev, pos, buf, ended, got, again, moved>>

FortytwoWriteMismatch(w) ==
  /\ call[w] # Idle /\ dev = "misc"
  /\ call[w].count < DataSize /\ ~IsLogin(buf[w], call[w].count)
  /\ Answer(w, EINVAL)
  /\ Leave(w)
  /\ UNCHANGED <<dev, pos, buf, ended, got, again, moved>>

\* The answer is read into the buffer the login came from, and counted as read: the
\* writer's buffer is overwritten and the position moves.
FortytwoWriteMatch(w) ==
  /\ call[w] # Idle /\ dev = "misc"
  /\ call[w].count < DataSize /\ IsLogin(buf[w], call[w].count)
  /\ LET start == call[w].start
         n == Available(SuccessLen, start, call[w].count)
     IN  \E k \in 0 .. n :
           /\ Store(start, SimpleRead(n, k))
           /\ buf' = [buf EXCEPT ![w] = IF k > 0 THEN "other" ELSE @]
           /\ moved' = (moved \/ k > 0)
           /\ Answer(w, SimpleRead(n, k))
  /\ Leave(w)
  /\ UNCHANGED <<dev, ended, got, again>>

\* id_write returns the count, whatever was sent.
IdWrite(w) ==
  /\ call[w] # Idle /\ dev = "id"
  /\ call[w].count < DataSize
  /\ Answer(w, call[w].count)
  /\ Leave(w)
  /\ UNCHANGED <<dev, pos, buf, ended, got, again, moved>>

\* The writer fills its buffer anew.
Fill(w, text) ==
  /\ call[w] = Idle
  /\ buf' = [buf EXCEPT ![w] = text]
  /\ UNCHANGED <<dev, pos, call, ended, got, again, moved, ignored>>

-----------------------------------------------------------------------------
WriteReturn(w) ==
  \/ WriteRefused(w) \/ FortytwoWriteMismatch(w) \/ FortytwoWriteMatch(w) \/ IdWrite(w)

Next ==
  \/ \E r \in Reader : ReadCall(r) \/ ReadReturn(r)
  \/ \E w \in Writer : \/ \E count \in 0 .. MaxCount : WriteCall(w, count)
                       \/ WriteReturn(w)
                       \/ \E text \in Text : Fill(w, text)

Spec == Init /\ [][Next]_vars

\* A call returns, and a reader reads on until it is told to stop: the lock on the
\* position of a regular file is handed to whoever waits for it.
FairSpec ==
  /\ Spec
  /\ \A r \in Reader : SF_vars(ReadCall(r)) /\ WF_vars(ReadReturn(r))
  /\ \A w \in Writer : WF_vars(WriteReturn(w))

-----------------------------------------------------------------------------
TypeOK ==
  /\ dev \in {"misc", "id"}
  /\ pos \in 0 .. SuccessLen
  /\ call \in [Proc -> Calls \cup {Idle}]
  /\ buf \in [Writer -> Text]
  /\ ended \subseteq Reader
  /\ got \subseteq 0 .. LoginLen - 1
  /\ again \in BOOLEAN /\ moved \in BOOLEAN /\ ignored \in BOOLEAN

\* However reads of one open file overlap and stop early, they skip no byte of the
\* login: what lies before the position was given to some reader.  Only the answer of
\* fortytwo_write moves the position past bytes nobody was given.
NoByteSkipped == ~moved => \A i \in 0 .. pos - 1 : i \in got

\* id gives every byte of the login at most once, to whichever reader comes first,
\* even if it had failed a reader in between.
IdGivesOnce == dev = "id" => ~again

\* Every reader is told the end of the file or an error at last, even if overlapping
\* calls set the position of /dev/fortytwo back under it, and writers never rest.
ReadersFinish == \A r \in Reader : <>(r \in ended)

\* ex05/README.md:15-16: "When written to, the input data should be compared to your
\* student login. If it matches, return a successful write response."
LoginIsAcknowledged == ~ignored
=============================================================================

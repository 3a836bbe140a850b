------------------------------ MODULE JiffiesFile ------------------------------
(***************************************************************************)
(* jiffies, the clock file of ex07/debugfs.c.  A read prints the clock and *)
(* gives what of that text lies at the position, so a process that reads   *)
(* the file in pieces puts together the front of an older text and the     *)
(* back of a newer one.                                                    *)
(*                                                                         *)
(* One open file and the process that reads it to its end, as cat does,    *)
(* with buffers of any size; then the file is opened anew.  Open files     *)
(* have nothing in common but the clock.                                   *)
(*                                                                         *)
(* External: the timer interrupt that moves jiffies, an unsigned long;     *)
(* simple_read_from_buffer, whose copy may stop at a byte that is not      *)
(* accessible.                                                             *)
(***************************************************************************)
EXTENDS Integers, Sequences, FiniteSets

CONSTANTS Base,      \* 10: the text is decimal
          Word,      \* how many values an unsigned long has
          DataSize,  \* sizeof(data), the array the text is printed to
          MaxCount   \* bound: the largest count of a read

Power[k \in Nat] == IF k = 0 THEN 1 ELSE Base * Power[k - 1]

\* A word is printed with room left for the newline and what ends a string.
ASSUME JiffiesFileAssumption ==
  /\ Base \in Nat /\ Word \in Nat /\ DataSize \in Nat /\ MaxCount \in Nat
  /\ 1 < Base /\ 0 < Word /\ 3 <= DataSize
  /\ Word <= Power[DataSize - 2]

Newline == Base   \* the byte behind the digits

NoCall == [count |-> 0, shown |-> 0]

VARIABLES
  jiffies,  \* the clock
  pos,      \* the position of the file
  call,     \* the read under way: its count and the clock it printed
  out,      \* the bytes the process was given since it opened the file
  state,    \* "reading", then "ended" (it was told the end) or "failed" (EFAULT)
  \* History variables, read by no handler:
  first,    \* the clock that the first piece was printed from
  last,     \* the clock that the last piece was printed from
  grown,    \* how often the number of digits grew between two pieces
  wrapped   \* the clock wrapped around since the file was opened

vars == <<jiffies, pos, call, out, state, first, last, grown, wrapped>>

Least(a, b) == IF a < b THEN a ELSE b

\* How many digits n has.
Digits(n) ==
  CHOOSE d \in 1 .. DataSize - 1 : n < Power[d] /\ \A c \in 1 .. d - 1 : Power[c] <= n

\* The number that the first k digits of n form.
Leading(n, k) == n \div Power[Digits(n) - k]

\* snprintf of "%lu\n".
Text(n) == [k \in 1 .. Digits(n) + 1 |-> IF k <= Digits(n) THEN Leading(n, k) % Base ELSE Newline]

-----------------------------------------------------------------------------
Init ==
  /\ jiffies \in 0 .. Word - 1
  /\ pos = 0
  /\ call = NoCall
  /\ out = <<>>
  /\ state = "reading"
  /\ first = 0
  /\ last = 0
  /\ grown = 0
  /\ wrapped = FALSE

Tick ==
  /\ jiffies' = (jiffies + 1) % Word
  /\ wrapped' = (wrapped \/ jiffies = Word - 1)
  /\ UNCHANGED <<pos, call, out, state, first, last, grown>>

\* The file is closed and opened again: open keeps what the position starts with.
Open ==
  /\ state # "reading"
  /\ pos' = 0
  /\ out' = <<>>
  /\ state' = "reading"
  /\ first' = 0
  /\ last' = 0
  /\ grown' = 0
  /\ wrapped' = FALSE
  /\ UNCHANGED <<jiffies, call>>

\* The call prints the clock.
JiffiesReadEnter(count) ==
  /\ state = "reading" /\ call = NoCall
  /\ call' = [count |-> count, shown |-> jiffies]
  /\ UNCHANGED <<jiffies, pos, out, state, first, last, grown, wrapped>>

\* Mutant of Available: the last byte of the text is taken for a terminator.
AvailableButLast ==
  LET len == Digits(call.shown)
  IN  IF pos >= len THEN 0 ELSE Least(call.count, len - pos)

\* Mutant of Available: a position behind the text is not provided for.
AvailableUnchecked == Least(call.count, Digits(call.shown) + 1 - pos)

\* What the call can give of the text.
Available ==
  LET len == Digits(call.shown) + 1
  IN  IF pos >= len THEN 0 ELSE Least(call.count, len - pos)

\* Mutant of NextPos: the position stays.
NextPosKept(k) == pos

\* Mutant of NextPos: the position moves by what was asked for.
NextPosByCount(k) == pos + call.count

NextPos(k) == pos + k

\* k of the bytes are copied to the process.
JiffiesReadReturn(k) ==
  /\ call # NoCall
  /\ call' = NoCall
  /\ out' = out \o SubSeq(Text(call.shown), pos + 1, pos + k)
  /\ pos' = NextPos(k)
  /\ state' = IF k > 0 THEN state ELSE IF Available = 0 THEN "ended" ELSE "failed"
  /\ IF k = 0 THEN UNCHANGED <<first, last, grown>>
     ELSE /\ first' = IF out = <<>> THEN call.shown ELSE first
          /\ last' = call.shown
          /\ grown' = IF out # <<>> /\ Digits(last) < Digits(call.shown) THEN grown + 1 ELSE grown
  /\ UNCHANGED <<jiffies, wrapped>>

Read ==
  \/ \E count \in 1 .. MaxCount : JiffiesReadEnter(count)
  \/ \E k \in 0 .. Available : JiffiesReadReturn(k)

Next == Tick \/ Open \/ Read

Spec == Init /\ [][Next]_vars

\* The process goes on reading until it is told the end.
FairSpec == Spec /\ WF_vars(Read)

-----------------------------------------------------------------------------
(* The properties.                                                         *)

\* The variables have their types: in particular the text fits in its array.
TypeOK ==
  /\ jiffies \in 0 .. Word - 1
  /\ pos \in 0 .. DataSize - 1
  /\ call = NoCall \/ call \in [count : 1 .. MaxCount, shown : 0 .. Word - 1]
  /\ out \in Seq(0 .. Base)
  /\ state \in {"reading", "ended", "failed"}
  /\ first \in 0 .. Word - 1 /\ last \in 0 .. Word - 1
  /\ grown \in Nat
  /\ wrapped \in BOOLEAN

\* The number that the first k of these digits form.
Number(digits) ==
  LET value[k \in 0 .. Len(digits)] == IF k = 0 THEN 0 ELSE value[k - 1] * Base + digits[k]
  IN  value

\* The clock had as many digits at the first piece as at the last, and did not wrap.
Steady == ~wrapped /\ out # <<>> /\ Digits(first) = Digits(last)

\* Read in pieces of any size, the clock never shows a time that has not come: the process
\* has digits and then at most a newline, and the number put together of them is at most
\* the clock that jiffies_read printed for the last piece.
NeverAhead ==
  Steady => LET given == Least(Len(out), Digits(last))
            IN  /\ Len(out) <= Digits(last) + 1
                /\ \A k \in 1 .. given : out[k] # Newline
                /\ Number(out)[given] <= Leading(last, given)

Newlines == {k \in 1 .. Len(out) : out[k] = Newline}

\* While the clock does not wrap, the process is told the end only behind a newline,
\* and each newline but the last is there because the number of digits has grown.
NewlineAtEnd ==
  ~wrapped =>
    /\ Cardinality(Newlines) <= 1 + grown
    /\ state = "ended" => out # <<>> /\ out[Len(out)] = Newline

\* The process comes to an end of the file, though every piece is of another text.
ReaderFinishes == (state = "reading") ~> (state # "reading")
=============================================================================

--------------------------- MODULE FooFileProofs ---------------------------
(***************************************************************************)
(* The invariants of FooFile and its refinement of SafePage, for every set *)
(* of readers and writers, every payload and every page size.              *)
(*                                                                         *)
(* SettledOnPage is not inductive: that the page holds the last lone write *)
(* when it returns needs the bytes a lone writer has copied so far to be   *)
(* still there (LoneWriter), and that a write which believes itself alone  *)
(* is alone (TwoWritersKnow).  The session property needs, besides, that a *)
(* read which met no write still sees the size it sampled (QuietRead).     *)
(***************************************************************************)
EXTENDS FooFile, TLAPS

Idle(f) == op[f] = "idle"
Reading(f) == op[f] = "read"

\* The locals of a running handler.
Locals ==
  \A f \in File :
    /\ done[f] <= count[f]
    /\ Idle(f) => count[f] = 0 /\ done[f] = 0
    /\ Writing(f) => arg[f].val \in Value /\ count[f] = arg[f].want
    /\ Reading(f) => offp[f] + count[f] <= PAGE_SIZE /\ count[f] <= arg[f].want

\* The bytes a file has delivered, and those of the read in progress.
OutOf(f) ==
  /\ Len(out[f]) = offp[f] + (IF Reading(f) THEN done[f] ELSE 0)
  /\ \A j \in 1 .. Len(out[f]) : out[f][j] \in PageByte(j - 1)

Delivered == \A f \in File : OutOf(f)

TwoWritersKnow ==
  \A f, g \in File : f # g /\ Writing(f) /\ Writing(g) => overlap[f]

LoneWriter ==
  \A f \in File : Writing(f) /\ ~overlap[f] =>
    \A i \in 0 .. done[f] - 1 : foo_data[i] = Copied(f, i)

QuietRead ==
  \A f \in File : Reading(f) /\ ~overlap[f] =>
    /\ ~WriteInFlight
    /\ count[f] = Available(f, arg[f].want)

QuietBytesOf(f) ==
  Reading(f) /\ ~overlap[f] /\ settled.intact =>
    \A j \in offp[f] + 1 .. Len(out[f]) : out[f][j] = UserByte(settled.val, j - 1)

QuietBytes == \A f \in File : QuietBytesOf(f)

QuietSession ==
  \A f \in File : ~stale[f] =>
    /\ ~WriteInFlight
    /\ Reading(f) => ~overlap[f]

SessionOf(f) ==
  ~stale[f] /\ settled.intact =>
    /\ Len(out[f]) <= settled.len
    /\ \A j \in 1 .. Len(out[f]) : out[f][j] = UserByte(settled.val, j - 1)

Sessions == \A f \in File : SessionOf(f)

Base == TypeOK /\ Locals /\ Delivered
IInv == Base /\ TwoWritersKnow /\ LoneWriter /\ SettledOnPage
             /\ QuietRead /\ QuietBytes /\ QuietSession /\ Sessions


-----------------------------------------------------------------------------
\* The initial state satisfies the invariant.
LEMMA InitIInv == Init => IInv
<1> SUFFICES ASSUME Init PROVE IInv
  OBVIOUS
<1> USE FooAssumption DEF Init
<1>1. Base
  BY DEF Base, TypeOK, Byte, PageByte, Locals, Delivered, OutOf, Idle, Reading, Writing, NoArg, Empty
<1>2. TwoWritersKnow /\ LoneWriter /\ SettledOnPage
  BY DEF TwoWritersKnow, LoneWriter, SettledOnPage, Writing, Empty
<1>3. QuietRead /\ QuietBytes /\ QuietSession /\ Sessions
  BY DEF QuietRead, QuietBytes, QuietBytesOf, QuietSession, Sessions, SessionOf, Reading, WriteInFlight, Writing, Empty
<1> QED
  BY <1>1, <1>2, <1>3 DEF IInv

\* Opening a file gives it a fresh position and a fresh session.
LEMMA OpenStep == ASSUME IInv, NEW f \in File, Open(f) PROVE IInv'
<1> USE FooAssumption DEF IInv, Base, Open
<1>1. TypeOK'
  <2>1. stale' \in [File -> BOOLEAN]
    BY DEF TypeOK, WriteInFlight
  <2>2. offp' \in [File -> 0 .. PAGE_SIZE]
    BY DEF TypeOK
  <2>3. out' \in [File -> Seq(Byte)]
    <3>1. <<>> \in Seq(Byte)
      OBVIOUS
    <3>2. QED
      BY <3>1 DEF TypeOK
  <2>4. QED
    BY <2>1, <2>2, <2>3 DEF TypeOK
<1>2. Locals'
  BY DEF TypeOK, Locals, Idle, Writing, Reading
<1>3. Delivered'
  BY DEF TypeOK, Delivered, OutOf, Reading
<1>4. TwoWritersKnow' /\ LoneWriter' /\ SettledOnPage'
  BY DEF TwoWritersKnow, LoneWriter, SettledOnPage, Writing, WriteInFlight, Copied
<1>5. QuietRead' /\ QuietBytes' /\ QuietSession'
  BY DEF TypeOK, QuietRead, QuietBytes, QuietBytesOf, QuietSession, Reading, WriteInFlight, Writing, Available
<1>6. Sessions'
  BY DEF TypeOK, Sessions, SessionOf
<1> QED
  BY <1>1, <1>2, <1>3, <1>4, <1>5, <1>6

\* A starting write makes every call in flight overlapped and every session stale.
LEMMA WriteEnterStep ==
  ASSUME IInv, NEW f \in File, NEW v \in Value, NEW n \in 0 .. MaxCount, NEW g \in 0 .. n,
         FooWriteEnter(f, v, n, g)
  PROVE  IInv'
<1> USE FooAssumption DEF IInv, Base, FooWriteEnter
<1>1. TypeOK'
  <2>1. overlap' \in [File -> BOOLEAN] /\ stale' \in [File -> BOOLEAN]
    BY DEF WriteInFlight
  <2>2. op' \in [File -> {"idle", "write", "read"}]
    BY DEF TypeOK
  <2>3. n \in 0 .. PAGE_SIZE /\ g \in 0 .. MaxCount
    BY DEF Fits
  <2>4. arg' \in [File -> [val : Value \cup {NUL}, want : 0 .. MaxCount, good : 0 .. MaxCount]]
    BY <2>3 DEF TypeOK
  <2>5. count' \in [File -> 0 .. PAGE_SIZE]
    BY <2>3 DEF TypeOK
  <2> QED
    BY <2>1, <2>2, <2>4, <2>5 DEF TypeOK
<1>2. Locals'
  BY DEF TypeOK, Locals, Idle, Writing, Reading, Fits
<1>3. Delivered'
  BY DEF TypeOK, Delivered, OutOf, Reading
<1>4. TwoWritersKnow'
  BY DEF TypeOK, TwoWritersKnow, Writing, WriteInFlight
<1>5. LoneWriter'
  <2> SUFFICES ASSUME NEW h \in File, Writing(h)', ~overlap'[h]
               PROVE  \A i \in 0 .. done'[h] - 1 : foo_data'[i] = Copied(h, i)'
    BY DEF LoneWriter
  <2>1. CASE h = f
    BY <2>1 DEF Locals, Idle
  <2>2. CASE h # f
    BY <2>2 DEF TypeOK, Writing
  <2> QED
    BY <2>1, <2>2
<1>6. SettledOnPage' /\ QuietRead' /\ QuietBytes' /\ QuietSession' /\ Sessions'
  BY DEF TypeOK, SettledOnPage, QuietRead, QuietBytes, QuietBytesOf, QuietSession, Sessions, SessionOf,
         Reading, WriteInFlight, Writing
<1> QED
  BY <1>1, <1>2, <1>3, <1>4, <1>5, <1>6

\* One byte of a foo_write: nothing but the page and the writer's own count.
LEMMA WriteCopyStep == ASSUME IInv, NEW f \in File, FooWriteCopy(f) PROVE IInv'
<1> USE FooAssumption DEF IInv, Base, FooWriteCopy
<1>1. done[f] \in 0 .. PAGE_SIZE - 1 /\ done[f] + 1 <= count[f]
  BY DEF TypeOK
<1>2. Copied(f, done[f]) \in PageByte(done[f])
  BY DEF Copied, PageByte, Locals, Writing
<1>3. TypeOK'
  BY <1>1, <1>2 DEF TypeOK
<1>4. Locals'
  BY <1>1 DEF TypeOK, Locals, Idle, Writing, Reading
<1>5. Delivered'
  BY DEF TypeOK, Delivered, OutOf, Reading
<1>6. TwoWritersKnow'
  BY DEF TwoWritersKnow, Writing
<1>7. LoneWriter'
  BY <1>1 DEF TypeOK, LoneWriter, TwoWritersKnow, Writing, Copied
<1>8. SettledOnPage' /\ QuietRead' /\ QuietBytes' /\ QuietSession' /\ Sessions'
  BY DEF SettledOnPage, QuietRead, QuietBytes, QuietBytesOf, QuietSession, Sessions, SessionOf,
         Reading, WriteInFlight, Writing, Available
<1> QED
  BY <1>3, <1>4, <1>5, <1>6, <1>7, <1>8

\* A write that faulted leaves the page unsettled.
LEMMA WriteFaultStep == ASSUME IInv, NEW f \in File, FooWriteFault(f) PROVE IInv'
<1> USE FooAssumption DEF IInv, Base, FooWriteFault, Return
<1>1. TypeOK'
  BY DEF TypeOK, Unsettled, NoArg
<1>2. Locals' /\ Delivered'
  BY DEF TypeOK, Locals, Delivered, OutOf, Idle, Writing, Reading
<1>3. TwoWritersKnow' /\ LoneWriter'
  BY DEF TypeOK, TwoWritersKnow, LoneWriter, Writing, Copied
<1>4. SettledOnPage' /\ QuietBytes' /\ Sessions'
  BY DEF SettledOnPage, QuietBytes, QuietBytesOf, Sessions, SessionOf, Unsettled
<1>5. QuietRead' /\ QuietBytes' /\ QuietSession'
  BY DEF TypeOK, QuietRead, QuietBytes, QuietBytesOf, QuietSession, Reading, WriteInFlight, Writing, Available
<1> QED
  BY <1>1, <1>2, <1>3, <1>4, <1>5

\* A lone, complete write settles the page: all its bytes are in place.
LEMMA WriteReturnStep == ASSUME IInv, NEW f \in File, FooWriteReturn(f) PROVE IInv'
<1> USE FooAssumption DEF IInv, Base, FooWriteReturn, Return
<1>1. TypeOK'
  BY DEF TypeOK, Unsettled, NoArg, Locals, Writing
<1>2. Locals' /\ Delivered'
  BY DEF TypeOK, Locals, Delivered, OutOf, Idle, Writing, Reading
<1>3. TwoWritersKnow' /\ LoneWriter'
  BY DEF TypeOK, TwoWritersKnow, LoneWriter, Writing, Copied
<1>4. SettledOnPage'
  BY DEF TypeOK, SettledOnPage, LoneWriter, Writing, Copied, Unsettled
<1>5. \A g \in File : stale[g] /\ (Reading(g) => overlap[g])
  BY DEF TypeOK, QuietRead, QuietSession, WriteInFlight, Writing
<1>6. QuietRead' /\ QuietBytes' /\ QuietSession' /\ Sessions'
  BY <1>5 DEF TypeOK, QuietRead, QuietBytes, QuietBytesOf, QuietSession, Sessions, SessionOf, Reading
<1> QED
  BY <1>1, <1>2, <1>3, <1>4, <1>6

\* A read that starts while nobody writes samples the settled size.
LEMMA ReadEnterStep ==
  ASSUME IInv, NEW f \in File, NEW n \in 0 .. PAGE_SIZE, NEW g \in 0 .. n,
         FooReadEnter(f, n, g)
  PROVE  IInv'
<1> USE FooAssumption DEF IInv, Base, FooReadEnter
<1>1. /\ Available(f, n) \in 0 .. PAGE_SIZE
      /\ Available(f, n) <= n
      /\ offp[f] + Available(f, n) <= PAGE_SIZE
  BY DEF TypeOK, Available, Least
<1>2. TypeOK'
  <2>1. overlap' \in [File -> BOOLEAN]
    BY DEF TypeOK, WriteInFlight
  <2>2. op' \in [File -> {"idle", "write", "read"}]
    BY DEF TypeOK
  <2>3. n \in 0 .. MaxCount /\ g \in 0 .. MaxCount
    OBVIOUS
  <2>4. arg' \in [File -> [val : Value \cup {NUL}, want : 0 .. MaxCount, good : 0 .. MaxCount]]
    BY <2>3 DEF TypeOK
  <2>5. count' \in [File -> 0 .. PAGE_SIZE]
    BY <1>1 DEF TypeOK
  <2> QED
    BY <2>1, <2>2, <2>4, <2>5 DEF TypeOK
<1>3. Locals'
  BY <1>1 DEF TypeOK, Locals, Idle, Writing, Reading
<1>4. Delivered'
  BY DEF TypeOK, Locals, Delivered, OutOf, Idle, Reading
<1>5. TwoWritersKnow' /\ LoneWriter' /\ SettledOnPage'
  BY DEF TypeOK, TwoWritersKnow, LoneWriter, SettledOnPage, Writing, WriteInFlight, Copied
<1>6. WriteInFlight' <=> WriteInFlight
  BY DEF TypeOK, WriteInFlight, Writing
<1>7. QuietRead'
  BY <1>6 DEF TypeOK, QuietRead, Reading, Available
<1>8. QuietSession'
  BY <1>6 DEF TypeOK, QuietSession, Reading
<1>9. Sessions'
  BY DEF Sessions, SessionOf
<1>10. QuietBytes'
  <2>1. Len(out[f]) = offp[f]
    <3>1. ~Reading(f) /\ offp[f] \in Nat
      BY DEF TypeOK, Reading
    <3> QED
      BY <3>1 DEF Delivered, OutOf
  <2>2. QuietBytesOf(f)'
    BY <2>1 DEF TypeOK, QuietBytesOf
  <2>3. \A h \in File \ {f} : QuietBytesOf(h)'
    BY DEF TypeOK, QuietBytes, QuietBytesOf, Reading
  <2> QED
    BY <2>2, <2>3 DEF QuietBytes
<1> QED
  BY <1>2, <1>3, <1>4, <1>5, <1>7, <1>8, <1>9, <1>10

\* One byte of a foo_read goes to the offset after those already delivered.
LEMMA ReadCopyStep == ASSUME IInv, NEW f \in File, FooReadCopy(f) PROVE IInv'
<1> USE FooAssumption DEF IInv, Base, FooReadCopy
<1> DEFINE at == offp[f] + done[f]
<1>1. /\ done[f] + 1 \in 0 .. PAGE_SIZE /\ done[f] + 1 <= count[f]
      /\ at \in 0 .. PAGE_SIZE - 1
  BY DEF TypeOK, Locals, Reading, Least
<1>2. foo_data[at] \in PageByte(at) /\ foo_data[at] \in Byte
  BY <1>1 DEF TypeOK, Byte
<1>3. /\ out'[f] = Append(out[f], foo_data[at])
      /\ Len(out[f]) = at
      /\ Len(out'[f]) = at + 1
      /\ \A j \in 1 .. at : out'[f][j] = out[f][j]
      /\ out'[f][at + 1] = foo_data[at]
  <2>1. out[f] \in Seq(Byte) /\ out'[f] = Append(out[f], foo_data[at])
    BY DEF TypeOK
  <2>2. Len(out[f]) = at /\ at \in Nat
    BY <1>1 DEF Delivered, OutOf, Reading
  <2> QED
    BY <1>2, <2>1, <2>2
<1>4. TypeOK'
  BY <1>1, <1>2 DEF TypeOK
<1>5. Locals'
  BY <1>1 DEF TypeOK, Locals, Idle, Writing, Reading
<1>6. Delivered'
  <2>1. OutOf(f)'
    <3>1. Len(out'[f]) = offp'[f] + done'[f]
      BY <1>1, <1>3 DEF TypeOK
    <3>2. \A j \in 1 .. at : out'[f][j] \in PageByte(j - 1)
      BY <1>3 DEF Delivered, OutOf
    <3>3. out'[f][at + 1] \in PageByte(at + 1 - 1)
      BY <1>1, <1>2, <1>3
    <3> QED
      BY <1>1, <1>3, <3>1, <3>2, <3>3 DEF OutOf, Reading
  <2>2. \A h \in File \ {f} : OutOf(h)'
    BY DEF TypeOK, Delivered, OutOf, Reading
  <2> QED
    BY <2>1, <2>2 DEF Delivered
<1>7. TwoWritersKnow' /\ LoneWriter' /\ SettledOnPage'
  BY DEF TypeOK, TwoWritersKnow, LoneWriter, SettledOnPage, Writing, WriteInFlight, Copied
<1>8. QuietRead' /\ QuietSession'
  BY DEF TypeOK, QuietRead, QuietSession, Reading, WriteInFlight, Writing, Available
<1>9. ~overlap[f] /\ settled.intact =>
        at < settled.len /\ foo_data[at] = UserByte(settled.val, at)
  <2> SUFFICES ASSUME ~overlap[f], settled.intact
               PROVE  at < settled.len /\ foo_data[at] = UserByte(settled.val, at)
    OBVIOUS
  <2>1. ~WriteInFlight /\ count[f] = Available(f, arg[f].want)
    BY DEF QuietRead, Reading
  <2>2. foo_size = settled.len
    BY <2>1 DEF SettledOnPage
  <2>3. at < settled.len
    BY <1>1, <2>1, <2>2 DEF TypeOK, Available, Least
  <2> QED
    BY <1>1, <2>1, <2>3 DEF TypeOK, SettledOnPage
<1>10. QuietBytes'
  <2>1. QuietBytesOf(f)'
    <3> SUFFICES ASSUME ~overlap[f], settled.intact,
                        NEW j \in offp[f] + 1 .. at + 1
                 PROVE  out'[f][j] = UserByte(settled.val, j - 1)
      BY <1>1, <1>3 DEF TypeOK, QuietBytesOf
    <3>1. CASE j = at + 1
      BY <1>1, <1>3, <1>9, <3>1
    <3>2. CASE j # at + 1
      <4>1. offp[f] \in Nat /\ at \in Nat
        BY <1>1 DEF TypeOK
      <4>2. j \in offp[f] + 1 .. at /\ j \in 1 .. at
        BY <3>2, <4>1
      <4>3. out[f][j] = UserByte(settled.val, j - 1)
        BY <1>3, <4>2 DEF QuietBytes, QuietBytesOf, Reading
      <4> QED
        BY <1>3, <4>2, <4>3
    <3> QED
      BY <3>1, <3>2
  <2>2. \A h \in File \ {f} : QuietBytesOf(h)'
    BY DEF TypeOK, QuietBytes, QuietBytesOf, Reading
  <2> QED
    BY <2>1, <2>2 DEF QuietBytes
<1>11. Sessions'
  <2>1. SessionOf(f)'
    <3> SUFFICES ASSUME ~stale[f], settled.intact
                 PROVE  /\ Len(out'[f]) <= settled.len
                        /\ \A j \in 1 .. Len(out'[f]) :
                             out'[f][j] = UserByte(settled.val, j - 1)
      BY DEF SessionOf
    <3>1. at < settled.len /\ foo_data[at] = UserByte(settled.val, at)
      BY <1>9 DEF QuietSession, Reading
    <3>2. \A j \in 1 .. at : out[f][j] = UserByte(settled.val, j - 1)
      BY <1>3 DEF Sessions, SessionOf
    <3> QED
      BY <1>1, <1>3, <3>1, <3>2 DEF TypeOK
  <2>2. \A h \in File \ {f} : SessionOf(h)'
    BY DEF TypeOK, Sessions, SessionOf
  <2> QED
    BY <2>1, <2>2 DEF Sessions
<1> QED
  BY <1>4, <1>5, <1>6, <1>7, <1>8, <1>10, <1>11

\* The position catches up with the bytes delivered.
LEMMA ReadReturnStep == ASSUME IInv, NEW f \in File, FooReadReturn(f) PROVE IInv'
<1> USE FooAssumption DEF IInv, Base, FooReadReturn, Return
<1>1. offp[f] + done[f] \in 0 .. PAGE_SIZE
  BY DEF TypeOK, Locals, Reading
<1>2. TypeOK'
  BY <1>1 DEF TypeOK, NoArg
<1>3. Locals' /\ Delivered'
  BY DEF TypeOK, Locals, Delivered, OutOf, Idle, Writing, Reading
<1>4. TwoWritersKnow' /\ LoneWriter' /\ SettledOnPage'
  BY DEF TypeOK, TwoWritersKnow, LoneWriter, SettledOnPage, Writing, WriteInFlight, Copied
<1>5. QuietRead' /\ QuietBytes' /\ QuietSession'
  BY DEF TypeOK, QuietRead, QuietBytes, QuietBytesOf, QuietSession, Reading, WriteInFlight, Writing, Available
<1>6. Sessions'
  BY DEF Sessions, SessionOf
<1> QED
  BY <1>2, <1>3, <1>4, <1>5, <1>6

-----------------------------------------------------------------------------
\* Every step of the module preserves the invariant.
LEMMA NextIInv == IInv /\ [Next]_vars => IInv'
<1> SUFFICES ASSUME IInv, [Next]_vars PROVE IInv'
  OBVIOUS
<1>1. CASE UNCHANGED vars
  BY <1>1 DEF IInv, Base, vars, TypeOK, Locals, Delivered, OutOf, TwoWritersKnow,
     LoneWriter, SettledOnPage, QuietRead, QuietBytes, QuietBytesOf, QuietSession, Sessions, SessionOf,
     Idle, Reading, Writing, WriteInFlight, Copied, Available
<1>2. CASE Next
  <2> PICK f \in File :
        \/ Open(f)
        \/ \E v \in Value, n \in 0 .. MaxCount : \E g \in 0 .. n : FooWriteEnter(f, v, n, g)
        \/ FooWriteCopy(f) \/ FooWriteFault(f) \/ FooWriteReturn(f)
        \/ \E n \in 0 .. PAGE_SIZE : \E g \in 0 .. n : FooReadEnter(f, n, g)
        \/ FooReadCopy(f) \/ FooReadReturn(f)
    BY <1>2 DEF Next
  <2> QED
    BY OpenStep, WriteEnterStep, WriteCopyStep, WriteFaultStep, WriteReturnStep,
       ReadEnterStep, ReadCopyStep, ReadReturnStep
<1> QED
  BY <1>1, <1>2

\* The invariant holds in every reachable state.
THEOREM Invariance == Spec => []IInv
<1>1. IInv /\ [Next]_vars => IInv'
  BY NextIInv
<1> QED
  BY InitIInv, <1>1, PTL DEF Spec

\* No foo_write runs over the page, no foo_read runs past it, and a byte is only
\* ever found at its own offset.
THEOREM TypeCorrect == Spec => []TypeOK
<1>1. IInv => TypeOK
  BY DEF IInv, Base
<1> QED
  BY Invariance, <1>1, PTL

\* Between writes the page and foo_size are those of the last lone good write.
THEOREM Settled == Spec => []SettledOnPage
<1>1. IInv => SettledOnPage
  BY DEF IInv
<1> QED
  BY Invariance, <1>1, PTL

\* A session that meets no write reads a prefix of one payload.
THEOREM SessionConsistent == Spec => []SessionReadsOneWrite
<1>1. IInv => SessionReadsOneWrite
  BY DEF IInv, Sessions, SessionOf, SessionReadsOneWrite, File
<1> QED
  BY Invariance, <1>1, PTL

-----------------------------------------------------------------------------
(* The refinement of SafePage.                                             *)

\* The bytes handed to the caller by the reads that have returned.
Seen == [f \in File |-> SubSeq(out[f], 1, offp[f])]

\* A file has delivered at least the bytes before its position.
LEMMA PositionInOut ==
  ASSUME TypeOK, Delivered, NEW f \in File
  PROVE  offp[f] \in Nat /\ out[f] \in Seq(Byte) /\ offp[f] <= Len(out[f])
<1>1. offp[f] \in Nat /\ done[f] \in Nat /\ out[f] \in Seq(Byte)
  BY FooAssumption DEF TypeOK
<1>2. Len(out[f]) = offp[f] + (IF Reading(f) THEN done[f] ELSE 0)
  BY DEF Delivered, OutOf
<1>3. CASE Reading(f)
  BY <1>1, <1>2, <1>3
<1>4. CASE ~Reading(f)
  BY <1>1, <1>2, <1>4
<1> QED
  BY <1>3, <1>4

\* What a file has delivered is a sequence as long as its position.
LEMMA SeenFacts ==
  ASSUME TypeOK, Delivered, NEW f \in File
  PROVE  /\ Seen[f] = SubSeq(out[f], 1, offp[f])
         /\ Len(Seen[f]) = offp[f]
         /\ \A j \in 1 .. offp[f] : Seen[f][j] = out[f][j]
<1>1. offp[f] \in Nat /\ out[f] \in Seq(Byte) /\ offp[f] <= Len(out[f])
  BY PositionInOut
<1> QED
  BY <1>1 DEF Seen

\* Two positions that agree, over buffers that agree up to them, look the same.
LEMMA SeenSame ==
  ASSUME TypeOK, Delivered, TypeOK', Delivered',
         NEW f \in File, offp'[f] = offp[f],
         \A j \in 1 .. offp[f] : out'[f][j] = out[f][j]
  PROVE  Seen'[f] = Seen[f]
<1>1. /\ offp[f] \in Nat /\ out[f] \in Seq(Byte) /\ out'[f] \in Seq(Byte)
      /\ offp[f] <= Len(out[f]) /\ offp[f] <= Len(out'[f])
  <2>1. Len(out'[f]) = offp'[f] + (IF Reading(f)' THEN done'[f] ELSE 0)
    BY DEF Delivered, OutOf
  <2>2. offp'[f] \in Nat /\ done'[f] \in Nat /\ out'[f] \in Seq(Byte)
    BY FooAssumption DEF TypeOK
  <2>3. CASE Reading(f)'
    BY <2>1, <2>2, <2>3, PositionInOut
  <2>4. CASE ~Reading(f)'
    BY <2>1, <2>2, <2>4, PositionInOut
  <2> QED
    BY <2>3, <2>4
<1>2. Seen[f] \in Seq(Byte) /\ Seen'[f] \in Seq(Byte)
  BY <1>1 DEF Seen
<1>3. Len(Seen[f]) = offp[f] /\ Len(Seen'[f]) = offp[f]
  BY <1>1 DEF Seen
<1>4. \A j \in 1 .. offp[f] : Seen[f][j] = Seen'[f][j]
  BY <1>1 DEF Seen
<1> QED
  BY <1>2, <1>3, <1>4

\* Initially nothing is stored and nothing is delivered.
LEMMA InitRefines == Init => Abstract!Init
<1> SUFFICES ASSUME Init PROVE Abstract!Init
  OBVIOUS
<1>1. \A f \in File : SubSeq(out[f], 1, offp[f]) = <<>>
  BY DEF Init
<1> QED
  BY <1>1 DEF Init, Abstract!Init, Abstract!NoArg, NoArg, Empty

\* open() is the abstract Open.
LEMMA OpenRefines ==
  ASSUME IInv, IInv', NEW f \in File, Open(f)
  PROVE  Abstract!Open(f)
<1> USE DEF IInv, Base
<1>1. Seen' = [Seen EXCEPT ![f] = <<>>]
  <2>1. Seen'[f] = <<>>
    BY DEF Seen, Open, TypeOK
  <2>2. \A g \in File \ {f} : Seen'[g] = Seen[g]
    BY DEF Seen, Open, TypeOK
  <2> QED
    BY <2>1, <2>2 DEF Seen
<1> QED
  BY <1>1 DEF Open, Abstract!Open, Seen

\* Entering foo_write begins the abstract write.
LEMMA WriteEnterRefines ==
  ASSUME IInv, IInv', NEW f \in File, NEW v \in Value, NEW n \in 0 .. MaxCount,
         NEW g \in 0 .. n, FooWriteEnter(f, v, n, g)
  PROVE  n \in 0 .. PAGE_SIZE /\ g \in 0 .. PAGE_SIZE /\ Abstract!BeginWrite(f, v, n, g)
<1>1. n \in 0 .. PAGE_SIZE /\ g \in 0 .. PAGE_SIZE
  BY FooAssumption DEF FooWriteEnter, Fits
<1>2. WriteInFlight <=> \E w \in File : Abstract!Writing(w)
  BY DEF WriteInFlight, Writing, Abstract!Writing
<1> QED
  BY <1>1, <1>2 DEF FooWriteEnter, Abstract!BeginWrite, WriteInFlight, Writing, Abstract!Writing

\* Copying a byte is invisible, in either direction.
LEMMA CopyRefines ==
  ASSUME IInv, IInv', NEW f \in File, FooWriteCopy(f) \/ FooReadCopy(f)
  PROVE  UNCHANGED <<settled, op, arg, overlap, Seen>>
<1> USE DEF IInv, Base
<1>1. CASE FooWriteCopy(f)
  BY <1>1 DEF FooWriteCopy, Seen
<1>2. CASE FooReadCopy(f)
  <2>1. offp' = offp
    BY <1>2 DEF FooReadCopy
  <2>2. \A g \in File : \A j \in 1 .. offp[g] : out'[g][j] = out[g][j]
    <3>1. offp[f] \in Nat /\ out[f] \in Seq(Byte) /\ offp[f] <= Len(out[f])
      BY PositionInOut
    <3>2. \E b : out'[f] = Append(out[f], b)
      BY <1>2 DEF FooReadCopy, TypeOK
    <3>3. \A j \in 1 .. offp[f] : out'[f][j] = out[f][j]
      BY <3>1, <3>2
    <3>4. \A g \in File \ {f} : out'[g] = out[g]
      BY <1>2 DEF FooReadCopy, TypeOK
    <3> QED
      BY <3>3, <3>4
  <2>3. \A g \in File : Seen'[g] = Seen[g]
    BY <2>1, <2>2, SeenSame
  <2> QED
    BY <1>2, <2>3 DEF FooReadCopy, Seen
<1> QED
  BY <1>1, <1>2

\* A foo_write that returns ends the abstract write, settled or not.
LEMMA WriteEndRefines ==
  ASSUME IInv, IInv', NEW f \in File, FooWriteFault(f) \/ FooWriteReturn(f)
  PROVE  Abstract!EndWrite(f)
<1> USE DEF IInv, Base
<1>1. count[f] = arg[f].want
  BY DEF FooWriteFault, FooWriteReturn, Locals, Writing
<1>2. /\ arg[f].good \in Nat /\ count[f] \in Nat
      /\ arg[f].good < count[f] <=> ~ (arg[f].good >= count[f])
  BY FooAssumption DEF TypeOK
<1>3. CASE FooWriteFault(f)
  BY <1>1, <1>2, <1>3 DEF FooWriteFault, Return, Abstract!EndWrite, Abstract!End,
     Abstract!NoArg, NoArg, Unsettled
<1>4. CASE FooWriteReturn(f)
  BY <1>1, <1>2, <1>4 DEF FooWriteReturn, Return, Abstract!EndWrite, Abstract!End,
     Abstract!NoArg, NoArg, Unsettled
<1> QED
  BY <1>3, <1>4

\* Entering foo_read begins the abstract read.
LEMMA ReadEnterRefines ==
  ASSUME IInv, IInv', NEW f \in File, NEW n \in 0 .. PAGE_SIZE, NEW g \in 0 .. n,
         FooReadEnter(f, n, g)
  PROVE  g \in 0 .. PAGE_SIZE /\ Abstract!BeginRead(f, n, g)
<1>1. g \in 0 .. PAGE_SIZE
  BY FooAssumption
<1>2. WriteInFlight <=> \E w \in File : Abstract!Writing(w)
  BY DEF WriteInFlight, Writing, Abstract!Writing
<1> QED
  BY <1>1, <1>2 DEF FooReadEnter, Abstract!BeginRead, WriteInFlight, Writing, Abstract!Writing

\* A foo_read that returns ends the abstract read: what it delivered is due, if no
\* write met it and the page is settled, and in its place in any case.
LEMMA ReadReturnRefines ==
  ASSUME IInv, IInv', NEW f \in File, FooReadReturn(f)
  PROVE  Abstract!EndRead(f)
<1> USE FooAssumption DEF IInv, Base
<1> DEFINE old == offp[f]
           new == offp[f] + done[f]
           certain == settled.intact /\ ~overlap[f]
<1>1. /\ old \in Nat /\ done[f] \in Nat /\ new \in Nat
      /\ arg[f].want \in Nat /\ arg[f].good \in Nat /\ count[f] \in Nat
      /\ settled.len \in Nat /\ foo_size \in Nat
  BY DEF TypeOK
<1>2. Reading(f) /\ done[f] = Least(arg[f].good, count[f]) /\ offp'[f] = new /\ out' = out
  BY DEF FooReadReturn, Reading, TypeOK
<1>3. /\ Len(Seen[f]) = old
      /\ \A j \in 1 .. old : Seen[f][j] = out[f][j]
  BY SeenFacts
<1>4. /\ Len(Seen'[f]) = new
      /\ \A j \in 1 .. new : Seen'[f][j] = out[f][j]
  <2>1. Seen'[f] = SubSeq(out[f], 1, new) /\ out[f] \in Seq(Byte)
    BY <1>2 DEF Seen, TypeOK
  <2>2. Len(out[f]) = new
    BY <1>2 DEF Delivered, OutOf
  <2> QED
    BY <1>1, <2>1, <2>2
<1>5. certain => /\ ~WriteInFlight
                 /\ foo_size = settled.len
                 /\ \A i \in 0 .. settled.len - 1 : foo_data[i] = UserByte(settled.val, i)
                 /\ count[f] = Available(f, arg[f].want)
  BY <1>2 DEF QuietRead, SettledOnPage
<1>6. certain => new = old + Abstract!Due(f)
  BY <1>1, <1>2, <1>3, <1>5 DEF Available, Least, Abstract!Due, Abstract!Least, Seen
<1>7. new \in old .. old + arg[f].want
  BY <1>1, <1>2 DEF Locals, Least
<1>8. \A j \in old + 1 .. new :
        /\ Seen'[f][j] = out[f][j]
        /\ out[f][j] \in PageByte(j - 1)
        /\ certain => out[f][j] = <<settled.val, j - 1>>
  <2>1. Len(out[f]) = new
    BY <1>2 DEF Delivered, OutOf
  <2>2. \A j \in old + 1 .. new : j \in 1 .. new
    BY <1>1
  <2>3. \A j \in 1 .. new : out[f][j] \in PageByte(j - 1)
    BY <2>1 DEF Delivered, OutOf
  <2>4. certain => \A j \in old + 1 .. new : out[f][j] = UserByte(settled.val, j - 1)
    BY <1>2, <2>1 DEF QuietBytes, QuietBytesOf
  <2> QED
    BY <1>4, <2>2, <2>3, <2>4 DEF UserByte
<1>9. \A j \in 1 .. old : Seen'[f][j] = Seen[f][j]
  <2> SUFFICES ASSUME NEW j \in 1 .. old PROVE Seen'[f][j] = Seen[f][j]
    OBVIOUS
  <2>1. j \in 1 .. new
    BY <1>1
  <2> QED
    BY <1>3, <1>4, <2>1
<1>10. \A h \in File \ {f} : Seen'[h] = Seen[h]
  BY DEF FooReadReturn, TypeOK, Seen
<1>11. \A j \in Nat : Abstract!PageByte(j) = PageByte(j)
  BY DEF Abstract!PageByte, PageByte, UserByte
<1>12. Abstract!End(f) /\ UNCHANGED settled
  BY DEF FooReadReturn, Return, Abstract!End, Abstract!NoArg, NoArg
<1>13. \A j \in old + 1 .. new :
         IF certain THEN Seen'[f][j] = <<settled.val, j - 1>>
         ELSE Seen'[f][j] \in Abstract!PageByte(j - 1)
  BY <1>1, <1>8, <1>11
<1> QED
  BY <1>2, <1>3, <1>4, <1>6, <1>7, <1>9, <1>10, <1>12, <1>13
     DEF Abstract!EndRead, Seen, Reading

\* Every step is a step of SafePage or leaves its variables alone.
LEMMA NextRefines ==
  IInv /\ IInv' /\ [Next]_vars => [Abstract!Next]_(Abstract!vars)
<1> SUFFICES ASSUME IInv, IInv', [Next]_vars
             PROVE  Abstract!Next \/ UNCHANGED <<settled, op, arg, overlap, Seen>>
  BY DEF Abstract!vars, Seen
<1>1. CASE UNCHANGED vars
  BY <1>1 DEF vars, Seen
<1>2. CASE Next
  <2> PICK f \in File :
        \/ Open(f)
        \/ \E v \in Value, n \in 0 .. MaxCount : \E g \in 0 .. n : FooWriteEnter(f, v, n, g)
        \/ FooWriteCopy(f) \/ FooWriteFault(f) \/ FooWriteReturn(f)
        \/ \E n \in 0 .. PAGE_SIZE : \E g \in 0 .. n : FooReadEnter(f, n, g)
        \/ FooReadCopy(f) \/ FooReadReturn(f)
    BY <1>2 DEF Next
  <2>1. CASE Open(f)
    BY <2>1, OpenRefines DEF Abstract!Next
  <2>2. CASE \E v \in Value, n \in 0 .. MaxCount : \E g \in 0 .. n : FooWriteEnter(f, v, n, g)
    BY <2>2, WriteEnterRefines DEF Abstract!Next
  <2>3. CASE FooWriteFault(f) \/ FooWriteReturn(f)
    BY <2>3, WriteEndRefines DEF Abstract!Next
  <2>4. CASE \E n \in 0 .. PAGE_SIZE : \E g \in 0 .. n : FooReadEnter(f, n, g)
    BY <2>4, ReadEnterRefines DEF Abstract!Next
  <2>5. CASE FooReadReturn(f)
    BY <2>5, ReadReturnRefines DEF Abstract!Next
  <2>6. CASE FooWriteCopy(f) \/ FooReadCopy(f)
    BY <2>6, CopyRefines
  <2> QED
    BY <2>1, <2>2, <2>3, <2>4, <2>5, <2>6
<1> QED
  BY <1>1, <1>2

\* foo implements the safe register SafePage, whatever the readers and writers do.
THEOREM Refinement == Spec => ImplementsSafePage
<1>1. IInv /\ IInv' /\ [Next]_vars => [Abstract!Next]_(Abstract!vars)
  BY NextRefines
<1> QED
  BY InitRefines, Invariance, <1>1, PTL DEF Spec, ImplementsSafePage, Abstract!Spec
=============================================================================

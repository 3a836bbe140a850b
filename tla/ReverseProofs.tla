---------------------------- MODULE ReverseProofs ----------------------------
(***************************************************************************)
(* Proofs about Reverse, for any number of open files, payloads and        *)
(* buffers, a page of any size and any amount of memory.  IInv bounds the  *)
(* loops and says what kmalloc has handed out; PageInv adds to it that the *)
(* page keeps its last NUL but under long writes, and TInv what the page,  *)
(* the buffers and the callers hold while no write meets a call.           *)
(***************************************************************************)
EXTENDS Reverse, TLAPS

LEMMA Constants ==
  /\ NUL \notin Value \X Nat /\ Junk \notin Value \X Nat /\ NUL # Junk
  /\ PAGE_SIZE \in Nat /\ PAGE_SIZE # 0 /\ Heap \in Nat /\ MaxWrites \in Nat
  /\ \A u \in ReadBuffer : u.want \in Nat /\ u.good \in Nat
  /\ \A u \in WriteBuffer : u.want \in Nat /\ u.good \in Nat
BY ReverseAssumption

-----------------------------------------------------------------------------
(* The bounds of the loops, and what kmalloc has handed out.               *)

\* How far the loop of the handler on f goes, and where that leads it in its buffer.
Bounds(f) ==
  /\ pc[f] \in {"idle", "oops"} => i[f] = 0
  /\ pc[f] \in {"reverse", "give", "store"} => i[f] <= len[f]
  /\ pc[f] \in {"reverse", "give"} => len[f] \in Cell
  /\ pc[f] = "give" => len[f] = 0 \/ pos[f] + len[f] < PAGE_SIZE
  /\ pc[f] = "store" => /\ arg[f].val \in Value
                        /\ len[f] <= arg[f].want
                        /\ len[f] = 0 \/ pos[f] + len[f] = arg[f].want

Bounded == \A f \in File : Bounds(f)

\* tmp is the buffer handed out last; those not handed out yet are untouched.
Memory ==
  /\ tmp = IF asked <= Heap THEN asked ELSE NULL
  /\ \A f \in File : to[f] <= asked
  /\ \A b \in 1 .. Heap : asked < b => heap[b] = Fresh

\* As long as kmalloc has refused nobody, every read has a buffer.
Served ==
  asked <= Heap => \A f \in File : pc[f] # "oops" /\ (Reading(f) => to[f] # NULL)

IInv == TypeOK /\ Bounded /\ Memory /\ Served

\* A read that has measured the text keeps to the page.
LEMMA ReadingBounds ==
  ASSUME TypeOK, Bounded, NEW f \in File, pc[f] \in {"reverse", "give"}
  PROVE  len[f] \in Cell /\ i[f] \in Cell /\ i[f] <= len[f]
<1>1. len[f] \in Cell /\ i[f] <= len[f] BY DEF Bounded, Bounds
<1>2. i[f] \in Nat BY Constants DEF TypeOK
<1>3. QED BY <1>1, <1>2, Constants DEF Cell

LEMMA InitInv == Init => IInv
<1> SUFFICES ASSUME Init PROVE IInv OBVIOUS
<1>1. TypeOK
  <2>1. 0 \in Cell /\ 0 \in 0 .. PAGE_SIZE /\ NUL \in Byte BY Constants DEF Cell, Byte
  <2>2. str \in [Cell -> Byte] /\ pos \in [File -> Cell] /\ i \in [File -> 0 .. PAGE_SIZE]
    BY <2>1 DEF Init
  <2>3. heap \in [1 .. Heap -> [0 .. 2 * PAGE_SIZE - 1 -> Byte \cup {Junk}]]
    BY DEF Init, Fresh
  <2>4. /\ asked \in 0 .. Heap + 1 /\ tmp \in 0 .. Heap /\ to \in [File -> 0 .. Heap]
        /\ writes \in 0 .. MaxWrites /\ len \in [File -> Nat]
    BY Constants DEF Init, NULL
  <2>5. out \in [File -> Seq(Byte \cup {Junk})] BY DEF Init
  <2>6. /\ pc \in [File -> {"idle", "measure", "reverse", "give", "store", "oops"}]
        /\ arg \in [File -> [val : Value \cup {NUL}, want : Nat, good : Nat]]
        /\ wild \in BOOLEAN
        /\ settled \in [intact : BOOLEAN, val : Value \cup {NUL}, len : Cell]
    BY <2>1 DEF Init, NoArg
  <2>7. /\ tainted \in [File -> BOOLEAN] /\ stale \in [File -> BOOLEAN]
        /\ crowd \in [File -> BOOLEAN]
    BY DEF Init
  <2>8. QED BY <2>2, <2>3, <2>4, <2>5, <2>6, <2>7 DEF TypeOK
<1>2. Bounded BY Constants DEF Init, Bounded, Bounds, Cell
<1>3. Memory /\ Served BY Constants DEF Init, Memory, Served, Reading, NULL
<1>4. QED BY <1>1, <1>2, <1>3 DEF IInv

LEMMA Zero == 0 \in Cell /\ <<>> \in Seq(Byte \cup {Junk}) /\ NUL \in Byte
BY Constants DEF Cell, Byte

\* What a handler leaves behind.
LEMMA LeaveTypes ==
  ASSUME TypeOK, NEW f \in File, Leave(f)
  PROVE  /\ arg' \in [File -> [val : Value \cup {NUL}, want : Nat, good : Nat]]
         /\ to' \in [File -> 0 .. Heap] /\ len' \in [File -> Nat] /\ i' \in [File -> 0 .. PAGE_SIZE]
         /\ tainted' \in [File -> BOOLEAN]
         /\ Memory => \A g \in File : to'[g] <= asked
<1>1. \A g \in File : to'[g] \in {to[g], NULL} BY DEF TypeOK, Leave
<1>2. ASSUME Memory, NEW g \in File PROVE to'[g] <= asked
  <2>1. to[g] <= asked BY <1>2 DEF Memory
  <2>2. 0 <= asked BY Constants DEF TypeOK
  <2>3. QED BY <1>1, <2>1, <2>2 DEF NULL
<1>3. QED BY <1>2, Zero, Constants DEF TypeOK, Leave, NoArg, NULL

LEMMA OpenStep ==
  ASSUME IInv, UNCHANGED wild, NEW f \in File, Open(f)
  PROVE  IInv'
<1>0. TypeOK /\ Bounded /\ Memory /\ Served BY DEF IInv
<1>1. stale' \in [File -> BOOLEAN] /\ crowd' \in [File -> BOOLEAN] BY <1>0 DEF TypeOK, Open
<1>2. TypeOK'
  <2>1. /\ pos' \in [File -> Cell] /\ out' \in [File -> Seq(Byte \cup {Junk})]
        /\ pc' \in [File -> {"idle", "measure", "reverse", "give", "store", "oops"}]
    BY <1>0, Zero DEF TypeOK, Open
  <2>2. UNCHANGED <<str, tmp, heap, asked, arg, to, len, i, tainted, settled, writes>> BY DEF Open
  <2>3. QED BY <1>0, <1>1, <2>1, <2>2 DEF TypeOK
<1>3. Bounded' BY <1>0 DEF TypeOK, Open, Bounded, Bounds
<1>4. Memory' BY <1>0 DEF Open, Memory
<1>5. Served' BY <1>0 DEF TypeOK, Open, Served, Reading
<1>6. QED BY <1>2, <1>3, <1>4, <1>5 DEF IInv

LEMMA MyfdReadEnterStep ==
  ASSUME IInv, UNCHANGED wild, NEW f \in File, NEW u \in ReadBuffer, MyfdReadEnter(f, u)
  PROVE  IInv'
<1>0. TypeOK /\ Bounded /\ Memory /\ Served BY DEF IInv
<1>1. Kmalloc \in 0 .. Heap /\ Least(asked + 1, Heap + 1) \in 0 .. Heap + 1
  BY <1>0, Constants DEF TypeOK, Kmalloc, Least, NULL
<1>2. TypeOK'
  <2>1. tainted' \in [File -> BOOLEAN] BY <1>0 DEF TypeOK, MyfdReadEnter, WriteInFlight
  <2>2. crowd' \in [File -> BOOLEAN] BY <1>0 DEF TypeOK, MyfdReadEnter
  <2>3. arg' \in [File -> [val : Value \cup {NUL}, want : Nat, good : Nat]]
    BY <1>0, Constants DEF TypeOK, MyfdReadEnter
  <2>4. /\ pc' \in [File -> {"idle", "measure", "reverse", "give", "store", "oops"}]
        /\ asked' \in 0 .. Heap + 1 /\ tmp' \in 0 .. Heap /\ to' \in [File -> 0 .. Heap]
    BY <1>0, <1>1 DEF TypeOK, MyfdReadEnter
  <2>5. UNCHANGED <<str, heap, pos, len, i, out, stale, settled, writes>> BY DEF MyfdReadEnter
  <2>6. QED BY <1>0, <2>1, <2>2, <2>3, <2>4, <2>5 DEF TypeOK
<1>3. Bounded'
  <2>1. /\ UNCHANGED <<pos, len, i>> /\ pc[f] = "idle" /\ pc'[f] = "measure"
        /\ \A g \in File \ {f} : pc'[g] = pc[g] /\ arg'[g] = arg[g]
    BY <1>0 DEF TypeOK, MyfdReadEnter
  <2>2. ASSUME NEW g \in File PROVE Bounds(g)'
    <3>1. CASE g = f BY <2>1, <3>1 DEF Bounds
    <3>2. CASE g # f BY <1>0, <2>1, <3>2 DEF Bounded, Bounds
    <3>3. QED BY <3>1, <3>2
  <2>3. QED BY <2>2 DEF Bounded
<1>4. Memory'
  <2>1. /\ asked \in Nat /\ Heap \in Nat /\ asked' = Least(asked + 1, Heap + 1)
        /\ tmp' = Kmalloc /\ heap' = heap /\ \A g \in File : to'[g] \in {to[g], Kmalloc}
    BY <1>0, Constants DEF TypeOK, MyfdReadEnter
  <2>2. asked <= asked' /\ Kmalloc <= asked' /\ asked' \in Nat
    BY <1>0, <2>1 DEF TypeOK, Kmalloc, Least, NULL
  <2>3. tmp' = IF asked' <= Heap THEN asked' ELSE NULL BY <2>1 DEF Kmalloc, Least
  <2>4. ASSUME NEW g \in File PROVE to'[g] <= asked'
    <3>1. to[g] \in Nat /\ to[g] <= asked /\ Kmalloc \in Nat BY <1>0, <1>1, <2>1 DEF TypeOK, Memory
    <3>2. QED BY <2>1, <2>2, <3>1
  <2>5. ASSUME NEW b \in 1 .. Heap, asked' < b PROVE heap'[b] = Fresh
    <3>1. asked < b BY <2>1, <2>2, <2>5
    <3>2. QED BY <1>0, <2>1, <3>1 DEF Memory
  <2>6. QED BY <2>3, <2>4, <2>5 DEF Memory
<1>5. Served' BY <1>0, Constants DEF TypeOK, MyfdReadEnter, Served, Reading, Kmalloc, Least, NULL
<1>6. QED BY <1>2, <1>3, <1>4, <1>5 DEF IInv

LEMMA MeasureStep ==
  ASSUME IInv, UNCHANGED wild, NEW f \in File, Measure(f)
  PROVE  IInv'
<1>0. TypeOK /\ Bounded /\ Memory /\ Served BY DEF IInv
<1>1. i[f] + 1 \in 0 .. PAGE_SIZE BY Constants DEF Measure, Cell
<1>2. TypeOK' BY <1>0, <1>1 DEF TypeOK, Measure, history
<1>3. Bounded' BY <1>0 DEF TypeOK, Measure, Bounded, Bounds
<1>4. Memory' /\ Served' BY <1>0 DEF Measure, Memory, Served, Reading
<1>5. QED BY <1>2, <1>3, <1>4 DEF IInv

LEMMA MeasuredStep ==
  ASSUME IInv, UNCHANGED wild, NEW f \in File, Measured(f)
  PROVE  IInv'
<1>0. TypeOK /\ Bounded /\ Memory /\ Served BY DEF IInv
<1>1. TypeOK'
  <2>1. i[f] \in Nat /\ 0 \in 0 .. PAGE_SIZE BY <1>0, Constants DEF TypeOK
  <2>2. len' \in [File -> Nat] BY <1>0, <2>1 DEF TypeOK, Measured
  <2>3. i' \in [File -> 0 .. PAGE_SIZE] BY <1>0, <2>1 DEF TypeOK, Measured
  <2>4. pc' \in [File -> {"idle", "measure", "reverse", "give", "store", "oops"}]
    BY <1>0 DEF TypeOK, Measured
  <2>5. UNCHANGED <<str, tmp, heap, asked, pos, arg, to, out, history>> BY DEF Measured
  <2>6. QED BY <1>0, <2>2, <2>3, <2>4, <2>5 DEF TypeOK, history
<1>2. Bounded'
  <2>1. 0 <= i[f] /\ i[f] \in Cell BY <1>0, Constants DEF TypeOK, Measured
  <2>2. QED BY <1>0, <2>1 DEF TypeOK, Measured, Bounded, Bounds, history
<1>3. Memory' BY <1>0 DEF Measured, Memory
<1>4. Served' BY <1>0 DEF TypeOK, Measured, Served, Reading
<1>5. QED BY <1>1, <1>2, <1>3, <1>4 DEF IInv

\* A byte stored through the pointer that was loaded before, and a new load of it.
LEMMA HeapTypes ==
  ASSUME TypeOK, Memory, NEW f \in File, to[f] # NULL, NEW k \in Cell, NEW x \in Byte,
         heap' = [heap EXCEPT ![to[f]][k] = x], to' = [to EXCEPT ![f] = tmp],
         UNCHANGED <<asked, tmp>>
  PROVE  /\ heap' \in [1 .. Heap -> [0 .. 2 * PAGE_SIZE - 1 -> Byte \cup {Junk}]]
         /\ to' \in [File -> 0 .. Heap]
         /\ Memory'
<1>1. to[f] \in 1 .. Heap BY Constants DEF TypeOK, NULL
<1>2. k \in 0 .. 2 * PAGE_SIZE - 1 BY Constants DEF Cell
<1>3. heap' \in [1 .. Heap -> [0 .. 2 * PAGE_SIZE - 1 -> Byte \cup {Junk}]]
  BY <1>1, <1>2 DEF TypeOK
<1>4. to' \in [File -> 0 .. Heap] BY DEF TypeOK
<1>5. Memory'
  <2>1. tmp <= asked BY Constants DEF Memory, TypeOK, NULL
  <2>2. \A g \in File : to'[g] <= asked' BY <2>1 DEF TypeOK, Memory
  <2>3. \A b \in 1 .. Heap : asked' < b => heap'[b] = Fresh
    <3>1. ASSUME NEW b \in 1 .. Heap, asked < b PROVE heap'[b] = Fresh
      <4>1. to[f] <= asked BY DEF Memory
      <4>2. b # to[f] BY <1>1, <3>1, <4>1 DEF TypeOK
      <4>3. heap'[b] = heap[b] BY <1>1, <4>2 DEF TypeOK
      <4>4. QED BY <3>1, <4>3 DEF Memory
    <3>2. QED BY <3>1
  <2>4. QED BY <2>2, <2>3 DEF Memory
<1>6. QED BY <1>3, <1>4, <1>5

LEMMA ReverseByteStep ==
  ASSUME IInv, UNCHANGED wild, NEW f \in File, ReverseByte(f)
  PROVE  IInv'
<1>0. TypeOK /\ Bounded /\ Memory /\ Served BY DEF IInv
<1>1. len[f] \in Cell /\ i[f] \in Cell /\ i[f] < len[f] /\ to[f] # NULL
  BY <1>0, ReadingBounds DEF ReverseByte
<1>2. Last(f) \in Cell /\ i[f] + 1 \in 0 .. PAGE_SIZE BY <1>1, Constants DEF Last, Cell
<1>3. str[Last(f)] \in Byte BY <1>0, <1>2 DEF TypeOK
<1>4. /\ heap' \in [1 .. Heap -> [0 .. 2 * PAGE_SIZE - 1 -> Byte \cup {Junk}]]
      /\ to' \in [File -> 0 .. Heap] /\ Memory'
  BY <1>0, <1>1, <1>3, HeapTypes DEF ReverseByte
<1>5. TypeOK' BY <1>0, <1>2, <1>4 DEF TypeOK, ReverseByte, history
<1>6. Bounded'
  <2>1. i[f] + 1 <= len[f] BY <1>1, Constants DEF Cell
  <2>2. pc[f] = "reverse" /\ i' = [i EXCEPT ![f] = i[f] + 1] /\ UNCHANGED <<str, pos, pc, arg, len>>
    BY DEF ReverseByte
  <2>3. QED BY <1>0, <2>1, <2>2 DEF TypeOK, Bounded, Bounds
<1>7. Served' BY <1>0, <1>1, Constants DEF TypeOK, ReverseByte, Served, Memory, Reading, NULL
<1>8. QED BY <1>4, <1>5, <1>6, <1>7 DEF IInv

LEMMA ReverseEndStep ==
  ASSUME IInv, UNCHANGED wild, NEW f \in File, ReverseEnd(f)
  PROVE  IInv'
<1>0. TypeOK /\ Bounded /\ Memory /\ Served BY DEF IInv
<1>1. len[f] \in Cell /\ pos[f] \in Cell /\ arg[f].want \in Nat /\ to[f] # NULL
  BY <1>0, ReadingBounds DEF TypeOK, ReverseEnd
<1>2. Givable(f) \in Cell /\ (Givable(f) = 0 \/ pos[f] + Givable(f) < PAGE_SIZE)
  BY <1>1, Constants DEF Givable, Least, Cell
<1>3. NUL \in Byte BY DEF Byte
<1>4. /\ heap' \in [1 .. Heap -> [0 .. 2 * PAGE_SIZE - 1 -> Byte \cup {Junk}]]
      /\ to' \in [File -> 0 .. Heap] /\ Memory'
  BY <1>0, <1>1, <1>3, HeapTypes DEF ReverseEnd
<1>5. TypeOK'
  <2>1. 0 \in 0 .. PAGE_SIZE /\ Givable(f) \in Nat BY <1>2, Constants DEF Cell
  <2>2. /\ len' \in [File -> Nat] /\ i' \in [File -> 0 .. PAGE_SIZE]
        /\ pc' \in [File -> {"idle", "measure", "reverse", "give", "store", "oops"}]
    BY <1>0, <1>2, <2>1 DEF TypeOK, ReverseEnd
  <2>3. UNCHANGED <<str, tmp, asked, pos, arg, out, history>> BY DEF ReverseEnd
  <2>4. QED BY <1>0, <1>4, <2>2, <2>3 DEF TypeOK, history
<1>6. Bounded'
  <2>1. 0 <= Givable(f) /\ Givable(f) \in Cell BY <1>2, Constants DEF Cell
  <2>2. QED BY <1>0, <1>2, <2>1 DEF TypeOK, ReverseEnd, Bounded, Bounds, history
<1>7. Served' BY <1>0, <1>1, Constants DEF TypeOK, ReverseEnd, Served, Memory, Reading, NULL
<1>8. QED BY <1>4, <1>5, <1>6, <1>7 DEF IInv

LEMMA OopsStep ==
  ASSUME IInv, UNCHANGED wild, NEW f \in File, Oops(f)
  PROVE  IInv'
<1>0. TypeOK /\ Bounded /\ Memory /\ Served BY DEF IInv
<1>1. TypeOK' BY <1>0, LeaveTypes DEF TypeOK, Oops
<1>2. Bounded' BY <1>0 DEF TypeOK, Oops, Leave, Bounded, Bounds
<1>3. Memory' BY <1>0, LeaveTypes DEF Oops, Memory
<1>4. Served' BY <1>0 DEF TypeOK, Oops, Served, Reading
<1>5. QED BY <1>1, <1>2, <1>3, <1>4 DEF IInv

LEMMA GiveStep ==
  ASSUME IInv, UNCHANGED wild, NEW f \in File, Give(f)
  PROVE  IInv'
<1>0. TypeOK /\ Bounded /\ Memory /\ Served BY DEF IInv
<1>1. len[f] \in Cell /\ pos[f] \in Cell /\ i[f] \in Cell /\ to[f] \in 0 .. Heap /\ arg[f].good \in Nat
  BY <1>0, ReadingBounds DEF TypeOK, Give
<1>2. i[f] < len[f] /\ to[f] # NULL BY <1>1, Constants DEF Give, Reachable, Least, NULL, Cell
<1>3. pos[f] + i[f] \in 0 .. 2 * PAGE_SIZE - 1 /\ i[f] + 1 \in 0 .. PAGE_SIZE
  BY <1>0, <1>1, <1>2, Constants DEF Give, Bounded, Bounds, Cell
<1>4. heap[to[f]][pos[f] + i[f]] \in Byte \cup {Junk}
  BY <1>0, <1>1, <1>2, <1>3, Constants DEF TypeOK, NULL
<1>5. TypeOK'
  <2>1. out' \in [File -> Seq(Byte \cup {Junk})] BY <1>0, <1>4 DEF TypeOK, Give
  <2>2. i' \in [File -> 0 .. PAGE_SIZE] BY <1>0, <1>3 DEF TypeOK, Give
  <2>3. QED BY <1>0, <2>1, <2>2 DEF TypeOK, Give, history
<1>6. Bounded'
  <2>1. i[f] + 1 <= len[f] BY <1>1, <1>2, Constants DEF Cell
  <2>2. QED BY <1>0, <2>1 DEF TypeOK, Give, Bounded, Bounds
<1>7. Memory' /\ Served' BY <1>0 DEF Give, Memory, Served, Reading
<1>8. QED BY <1>5, <1>6, <1>7 DEF IInv

LEMMA MyfdReadReturnStep ==
  ASSUME IInv, UNCHANGED wild, NEW f \in File, MyfdReadReturn(f)
  PROVE  IInv'
<1>0. TypeOK /\ Bounded /\ Memory /\ Served BY DEF IInv
<1>1. pos[f] + i[f] \in Cell
  <2>1. pos[f] \in Cell /\ i[f] \in Cell /\ len[f] \in Cell
    BY <1>0, ReadingBounds DEF TypeOK, MyfdReadReturn
  <2>2. i[f] <= len[f] /\ (len[f] = 0 \/ pos[f] + len[f] < PAGE_SIZE)
    BY <1>0 DEF MyfdReadReturn, Bounded, Bounds
  <2>3. QED BY <2>1, <2>2, Constants DEF Cell
<1>2. TypeOK' BY <1>0, <1>1, LeaveTypes DEF TypeOK, MyfdReadReturn, Return
<1>3. Bounded' BY <1>0 DEF TypeOK, MyfdReadReturn, Return, Leave, Bounded, Bounds
<1>4. Memory' BY <1>0, LeaveTypes DEF MyfdReadReturn, Return, Memory
<1>5. Served' BY <1>0 DEF TypeOK, MyfdReadReturn, Return, Leave, Served, Reading
<1>6. QED BY <1>2, <1>3, <1>4, <1>5 DEF IInv

LEMMA MyfdWriteEnterStep ==
  ASSUME IInv, UNCHANGED wild, NEW f \in File, NEW v \in Value, NEW u \in WriteBuffer, MyfdWriteEnter(f, v, u)
  PROVE  IInv'
<1>0. TypeOK /\ Bounded /\ Memory /\ Served BY DEF IInv
<1>1. pos[f] \in Cell /\ u.want \in Nat /\ u.good \in Nat BY <1>0, Constants DEF TypeOK
<1>2. /\ Storable(f, u.want) \in Nat /\ Storable(f, u.want) <= u.want
      /\ Storable(f, u.want) = 0 \/ pos[f] + Storable(f, u.want) = u.want
  BY <1>1, Constants DEF Storable, Cell
<1>3. TypeOK'
  <2>1. arg' \in [File -> [val : Value \cup {NUL}, want : Nat, good : Nat]] /\ len' \in [File -> Nat]
    BY <1>0, <1>1, <1>2, Constants DEF TypeOK, MyfdWriteEnter
  <2>2. tainted' \in [File -> BOOLEAN]
    <3>1. WriteInFlight \in BOOLEAN BY DEF WriteInFlight
    <3>2. QED BY <3>1 DEF MyfdWriteEnter
  <2>3. stale' \in [File -> BOOLEAN] /\ writes' \in 0 .. MaxWrites
    BY <1>0, Constants DEF TypeOK, MyfdWriteEnter
  <2>4. QED BY <1>0, <2>1, <2>2, <2>3 DEF TypeOK, MyfdWriteEnter
<1>4. Bounded'
  <2>1. 0 <= Storable(f, u.want) BY <1>2
  <2>2. QED BY <1>0, <1>2, <2>1 DEF TypeOK, MyfdWriteEnter, Bounded, Bounds
<1>5. Memory' BY <1>0 DEF MyfdWriteEnter, Memory
<1>6. Served' BY <1>0 DEF TypeOK, MyfdWriteEnter, Served, Reading
<1>7. QED BY <1>3, <1>4, <1>5, <1>6 DEF IInv

LEMMA StoreStep ==
  ASSUME IInv, UNCHANGED wild, NEW f \in File, Store(f)
  PROVE  IInv'
<1>0. TypeOK /\ Bounded /\ Memory /\ Served BY DEF IInv
<1>1. /\ len[f] \in Nat /\ pos[f] \in Cell /\ i[f] \in Nat /\ i[f] < len[f]
      /\ arg[f].val \in Value /\ pos[f] + i[f] \in Cell
  BY <1>0, Constants DEF TypeOK, Store, Bounded, Bounds
<1>2. Copied(f) \in Byte BY <1>1, Constants DEF Copied, Byte
<1>3. i[f] + 1 \in 0 .. PAGE_SIZE BY <1>1, Constants DEF Cell
<1>4. TypeOK' BY <1>0, <1>1, <1>2, <1>3 DEF TypeOK, Store, history
<1>5. Bounded'
  <2>1. i[f] + 1 <= len[f] BY <1>1
  <2>2. QED BY <1>0, <2>1 DEF TypeOK, Store, Bounded, Bounds, history
<1>6. Memory' /\ Served' BY <1>0 DEF Store, Memory, Served, Reading
<1>7. QED BY <1>4, <1>5, <1>6 DEF IInv

LEMMA MyfdWriteReturnStep ==
  ASSUME IInv, UNCHANGED wild, NEW f \in File, MyfdWriteReturn(f)
  PROVE  IInv'
<1>0. TypeOK /\ Bounded /\ Memory /\ Served BY DEF IInv
<1>1. /\ len[f] \in Nat /\ pos[f] \in Cell /\ arg[f].val \in Value
      /\ arg[f].want \in Nat /\ arg[f].good \in Nat
      /\ len[f] <= arg[f].want /\ (len[f] = 0 \/ pos[f] + len[f] = arg[f].want)
  BY <1>0, Constants DEF TypeOK, MyfdWriteReturn, Bounded, Bounds
<1>2. Terminator(f) \in Cell BY DEF MyfdWriteReturn
<1>3. len[f] \in Cell /\ pos[f] + Least(arg[f].good, len[f]) \in Cell
  BY <1>1, <1>2, Constants DEF Terminator, Least, Cell
<1>4. settled' \in [intact : BOOLEAN, val : Value \cup {NUL}, len : Cell]
  BY <1>1, <1>3, Constants DEF MyfdWriteReturn, Unsettled, Cell
<1>5. str' \in [Cell -> Byte] BY <1>0, <1>2 DEF TypeOK, MyfdWriteReturn, Byte
<1>6. TypeOK'
  BY <1>0, <1>3, <1>4, <1>5, LeaveTypes DEF TypeOK, MyfdWriteReturn, Return
<1>7. Bounded' BY <1>0 DEF TypeOK, MyfdWriteReturn, Return, Leave, Bounded, Bounds
<1>8. Memory' BY <1>0, LeaveTypes DEF MyfdWriteReturn, Return, Memory
<1>9. Served' BY <1>0 DEF TypeOK, MyfdWriteReturn, Return, Leave, Served, Reading
<1>10. QED BY <1>6, <1>7, <1>8, <1>9 DEF IInv

\* Nothing but wild changes when the page is left, and nothing at all later.
LEMMA LeaveStep ==
  ASSUME IInv, NEW f \in File, LeavePage(f)
  PROVE  IInv'
<1>1. TypeOK' BY DEF IInv, TypeOK, LeavePage, history
<1>2. Bounded' /\ Memory' BY DEF IInv, Bounded, Bounds, Memory, LeavePage
<1>3. Served' BY DEF IInv, Served, Reading, LeavePage
<1>4. QED BY <1>1, <1>2, <1>3 DEF IInv

LEMMA NextInv ==
  ASSUME IInv, [Next]_vars
  PROVE  IInv'
<1>1. ASSUME NEW f \in File, Step(f), UNCHANGED wild PROVE IInv'
  BY <1>1, MeasureStep, MeasuredStep, ReverseByteStep, ReverseEndStep, OopsStep, GiveStep,
     MyfdReadReturnStep, StoreStep, MyfdWriteReturnStep DEF Step
<1>2. ASSUME NEW f \in File, Defined(f), UNCHANGED wild PROVE IInv'
  BY <1>1, <1>2, OpenStep, MyfdReadEnterStep, MyfdWriteEnterStep DEF Defined
<1>3. CASE UNCHANGED vars
  BY <1>3 DEF vars, IInv, TypeOK, Bounded, Bounds, Memory, Served, Reading
<1>4. QED BY <1>2, <1>3, LeaveStep DEF Next, Undefined

LEMMA Invariant == Spec => []IInv
<1>1. Init => IInv BY InitInv
<1>2. IInv /\ [Next]_vars => IInv' BY NextInv
<1>3. QED BY <1>1, <1>2, PTL DEF Spec

\* The variables have their types: what strlen counted up to a zero byte of the page fits
\* in the buffer of the reversed text, whatever writes go on around a read.
THEOREM TypeCorrect == Spec => []TypeOK
<1>1. IInv => TypeOK BY DEF IInv
<1>2. QED BY <1>1, Invariant, PTL

\* As long as kmalloc has refused nobody, no read stores through NULL, although reads
\* move the pointer of other reads at any time.
THEOREM NoOops == Spec => []OopsOnlyWhenOut
<1>1. IInv => OopsOnlyWhenOut BY DEF IInv, Served, OopsOnlyWhenOut
<1>2. QED BY <1>1, Invariant, PTL
-----------------------------------------------------------------------------
(* Who leaves the page.                                                    *)

\* A write goes on that fills the page, or more.  It does not return: its terminator lies
\* behind the page.
Overlong == \E w \in File : Writing(w) /\ arg[w].want >= PAGE_SIZE

\* Otherwise the last byte of the page is zero, and strlen stops there at the latest.
Ended ==
  Overlong \/ (str[PAGE_SIZE - 1] = NUL /\ \A f \in File : pc[f] = "measure" => i[f] \in Cell)

PageInv == IInv /\ OnlyLongWritesLeave /\ (wild \/ Ended)

\* A call that begins, or takes a step inside the page, leaves it so.
LEMMA EndedDefined ==
  ASSUME IInv, Ended, NEW f \in File, Defined(f)
  PROVE  Ended'
<1>0. TypeOK /\ Bounded BY DEF IInv
<1>1. CASE Overlong
  <2>1. ASSUME NEW w \in File, Writing(w), arg[w].want >= PAGE_SIZE
        PROVE  Writing(w)' /\ arg'[w] = arg[w]
    <3>1. CASE w = f
      <4>1. arg[f].want \in Nat BY <1>0 DEF TypeOK
      <4>2. ~MyfdWriteReturn(f)
        BY <2>1, <3>1, <4>1, Constants DEF MyfdWriteReturn, Terminator, Cell
      <4>3. Store(f)
        BY <2>1, <3>1, <4>2 DEF Defined, Step, Writing, Open, MyfdReadEnter, MyfdWriteEnter,
           Measure, Measured, ReverseByte, ReverseEnd, Oops, Give, MyfdReadReturn
      <4>4. QED BY <2>1, <3>1, <4>3 DEF Store, Writing
    <3>2. CASE w # f
      BY <1>0, <2>1, <3>2 DEF TypeOK, Defined, Step, Writing, Open, MyfdReadEnter, MyfdWriteEnter,
         Measure, Measured, ReverseByte, ReverseEnd, Oops, Give, MyfdReadReturn, Return, Leave,
         Store, MyfdWriteReturn
    <3>3. QED BY <3>1, <3>2
  <2>2. QED BY <1>1, <2>1 DEF Overlong, Ended
<1>2. CASE ~Overlong /\ str[PAGE_SIZE - 1] = NUL /\ \A g \in File : pc[g] = "measure" => i[g] \in Cell
  <2>1. PAGE_SIZE - 1 \in Cell /\ 0 \in Cell BY Constants DEF Cell
  <2>2. str'[PAGE_SIZE - 1] = NUL
    <3>1. CASE Store(f)
      <4>1. /\ pos[f] \in Cell /\ i[f] \in Nat /\ len[f] \in Nat /\ arg[f].want \in Nat
            /\ i[f] < len[f] /\ pos[f] + len[f] = arg[f].want
        BY <1>0, <3>1, Constants DEF TypeOK, Store, Bounded, Bounds
      <4>2. arg[f].want < PAGE_SIZE
        BY <1>2, <3>1, <4>1, Constants DEF Overlong, Writing, Store
      <4>3. pos[f] + i[f] # PAGE_SIZE - 1 BY <4>1, <4>2, Constants DEF Cell
      <4>4. QED BY <1>0, <1>2, <2>1, <3>1, <4>3 DEF TypeOK, Store
    <3>2. CASE MyfdWriteReturn(f) BY <1>0, <1>2, <2>1, <3>2 DEF TypeOK, MyfdWriteReturn
    <3>3. CASE ~Store(f) /\ ~MyfdWriteReturn(f)
      <4>1. str' = str
        BY <3>3 DEF Defined, Step, Open, MyfdReadEnter, MyfdWriteEnter,
           Measure, Measured, ReverseByte, ReverseEnd, Oops, Give, MyfdReadReturn
      <4>2. QED BY <1>2, <4>1
    <3>4. QED BY <3>1, <3>2, <3>3
  <2>3. ASSUME NEW g \in File, pc'[g] = "measure" PROVE i'[g] \in Cell
    <3>1. CASE g # f
      <4>1. pc'[g] = pc[g] /\ i'[g] = i[g]
        BY <1>0, <3>1 DEF TypeOK, Defined, Step, Open, MyfdReadEnter, MyfdWriteEnter,
           Measure, Measured, ReverseByte, ReverseEnd, Oops, Give, MyfdReadReturn, Return, Leave,
           Store, MyfdWriteReturn
      <4>2. QED BY <1>2, <2>3, <4>1
    <3>2. CASE g = f /\ Measure(f)
      <4>1. i[f] \in Cell /\ i[f] # PAGE_SIZE - 1 /\ i'[f] = i[f] + 1
        BY <1>0, <1>2, <3>2 DEF TypeOK, Measure
      <4>2. QED BY <3>2, <4>1, Constants DEF Cell
    <3>3. CASE g = f /\ \E u \in ReadBuffer : MyfdReadEnter(f, u)
      <4>1. i'[f] = i[f] /\ i[f] = 0 BY <1>0, <3>3 DEF MyfdReadEnter, Bounded, Bounds
      <4>2. QED BY <2>1, <3>3, <4>1
    <3>4. CASE g = f /\ ~Measure(f) /\ ~\E u \in ReadBuffer : MyfdReadEnter(f, u)
      <4>1. pc'[f] # "measure"
        BY <1>0, <3>4 DEF TypeOK, Defined, Step, Open, MyfdWriteEnter,
           Measured, ReverseByte, ReverseEnd, Oops, Give, MyfdReadReturn, Return,
           Store, MyfdWriteReturn
      <4>2. QED BY <2>3, <3>4, <4>1
    <3>5. QED BY <3>1, <3>2, <3>3, <3>4
  <2>4. QED BY <2>2, <2>3 DEF Ended
<1>3. QED BY <1>1, <1>2 DEF Ended

\* Who takes the step out of the page is such a write, or a strlen that met one.
LEMMA LeaverIsLong ==
  ASSUME IInv, Ended, NEW f \in File, LeavePage(f)
  PROVE  \E w \in File : Writing(w) /\ arg[w].want + 2 > PAGE_SIZE
<1>0. TypeOK /\ Bounded BY DEF IInv
<1>1. ASSUME Overlong PROVE \E w \in File : Writing(w) /\ arg[w].want + 2 > PAGE_SIZE
  <2>1. PICK w \in File : Writing(w) /\ arg[w].want >= PAGE_SIZE BY <1>1 DEF Overlong
  <2>2. arg[w].want \in Nat BY <1>0 DEF TypeOK
  <2>3. QED BY <2>1, <2>2, Constants
<1>2. CASE pc[f] = "measure" /\ i[f] \notin Cell BY <1>1, <1>2 DEF Ended
<1>3. CASE pc[f] = "store" /\ i[f] < len[f] /\ pos[f] + i[f] \notin Cell
  <2>1. /\ pos[f] \in Cell /\ i[f] \in Nat /\ len[f] \in Nat /\ arg[f].want \in Nat
        /\ pos[f] + len[f] = arg[f].want
    BY <1>0, <1>3, Constants DEF TypeOK, Bounded, Bounds
  <2>2. arg[f].want + 2 > PAGE_SIZE BY <1>3, <2>1, Constants DEF Cell
  <2>3. QED BY <1>3, <2>2 DEF Writing
<1>4. CASE pc[f] = "store" /\ i[f] = len[f] /\ Terminator(f) \notin Cell
  <2>1. arg[f].want \in Nat BY <1>0 DEF TypeOK
  <2>2. arg[f].want + 2 > PAGE_SIZE BY <1>4, <2>1, Constants DEF Terminator, Cell
  <2>3. QED BY <1>4, <2>2 DEF Writing
<1>5. QED BY <1>2, <1>3, <1>4 DEF LeavePage

\* Whatever the counts of the writes, and whichever calls meet: memory behind the page is
\* only reached while a write goes on whose text and late terminator do not fit in the page.
THEOREM LongWritesLeave == Spec => []OnlyLongWritesLeave
<1>1. Init => PageInv
  <2> SUFFICES ASSUME Init PROVE PageInv OBVIOUS
  <2>1. PAGE_SIZE - 1 \in Cell BY Constants DEF Cell
  <2>2. Ended BY <2>1 DEF Init, Ended
  <2>3. QED BY <2>2, InitInv DEF Init, PageInv, OnlyLongWritesLeave
<1>2. PageInv /\ [Next]_vars => PageInv'
  <2> SUFFICES ASSUME PageInv, [Next]_vars PROVE PageInv' OBVIOUS
  <2>0. IInv /\ IInv' BY NextInv DEF PageInv
  <2>1. ASSUME NEW f \in File, ~wild, Defined(f), UNCHANGED wild PROVE PageInv'
    <3>1. Ended' BY <2>0, <2>1, EndedDefined DEF PageInv
    <3>2. QED BY <2>0, <2>1, <3>1 DEF PageInv, OnlyLongWritesLeave
  <2>2. ASSUME NEW f \in File, ~wild, LeavePage(f) PROVE PageInv'
    <3>1. \E w \in File : Writing(w) /\ arg[w].want + 2 > PAGE_SIZE
      BY <2>0, <2>2, LeaverIsLong DEF PageInv
    <3>2. UNCHANGED <<pc, arg>> /\ wild' BY <2>2 DEF LeavePage
    <3>3. QED BY <2>0, <3>1, <3>2 DEF PageInv, OnlyLongWritesLeave, Writing
  <2>3. CASE UNCHANGED vars
    BY <2>0, <2>3 DEF vars, PageInv, OnlyLongWritesLeave, Ended, Overlong, Writing
  <2>4. QED BY <2>1, <2>2, <2>3 DEF Next, Undefined
<1>3. PageInv => OnlyLongWritesLeave BY DEF PageInv
<1>4. QED BY <1>1, <1>2, <1>3, PTL DEF Spec

-----------------------------------------------------------------------------
(* What writes in flight leave undisturbed.                                *)

\* A call that meets a write is tainted; and a file opened since is fresh as long as there
\* is neither a write nor a tainted call.
Taint ==
  /\ \A f, g \in File : f # g /\ Writing(f) /\ pc[g] \notin {"idle", "oops"} => tainted[g]
  /\ \A f \in File : ~stale[f] => \A g \in File : ~Writing(g) /\ ~tainted[g]

\* A lone write on a fresh file has stored its first i bytes at the front of the page.
Stored(f) ==
  Writing(f) /\ ~tainted[f] /\ pos[f] = 0 =>
    /\ len[f] = arg[f].want
    /\ arg[f].good >= len[f] => \A k \in 0 .. i[f] - 1 : str[k] = <<arg[f].val, k>>

\* A read that met no write has the length of the text.
Lengths(f) ==
  \A n \in Cell : Reading(f) /\ ~tainted[f] /\ TextLen(n) =>
    /\ pc[f] = "measure" => i[f] <= n
    /\ pc[f] = "reverse" => len[f] = n
    /\ pc[f] = "give" => len[f] = 0 \/ pos[f] + len[f] <= n

\* The buffers a read can come to, its own and younger ones, hold no wrong byte.
Buffers(f) ==
  \A n \in Cell : ~stale[f] /\ Reading(f) /\ to[f] # NULL /\ TextLen(n) =>
    \A b \in 1 .. Heap, k \in 0 .. n - 1 : to[f] <= b => heap[b][k] \in {Junk, str[n - 1 - k]}

\* The position says how much the process was given.
Delivered(f) ==
  ~stale[f] => Len(out[f]) = pos[f] + (IF pc[f] = "give" THEN i[f] ELSE 0)

\* A read that meets no other has its buffer for itself, and fills it from the front.
Alone(f) ==
  ~crowd[f] /\ Reading(f) =>
    /\ \A q \in File \ {f} : ~Reading(q)
    /\ to[f] = tmp
    /\ \A n \in Cell : ~stale[f] /\ TextLen(n) /\ to[f] # NULL =>
         \A k \in 0 .. n - 1 :
           (pc[f] = "give" \/ (pc[f] = "reverse" /\ k < i[f])) => heap[to[f]][k] = str[n - 1 - k]

\* The two properties of what was given to one process.
NoneWrong(f) ==
  \A n \in Cell : ~stale[f] /\ TextLen(n) =>
    /\ Len(out[f]) <= n
    /\ \A j \in 1 .. Len(out[f]) : out[f][j] \in {Junk, str[n - j]}
AllRight(f) ==
  \A n \in Cell : ~stale[f] /\ ~crowd[f] /\ TextLen(n) =>
    \A j \in 1 .. Len(out[f]) : out[f][j] = str[n - j]

Given(f) == Lengths(f) /\ Buffers(f) /\ Delivered(f) /\ Alone(f) /\ NoneWrong(f) /\ AllRight(f)

TInv == IInv /\ Taint /\ OneStaleByte /\ \A f \in File : Stored(f) /\ Given(f)

\* A text has one length.
LEMMA OneLength ==
  ASSUME NEW m \in Cell, NEW n \in Cell, TextLen(m), TextLen(n)
  PROVE  m = n
<1>1. ~(m < n) BY Constants DEF TextLen, Cell
<1>2. ~(n < m) BY Constants DEF TextLen, Cell
<1>3. QED BY <1>1, <1>2, Constants DEF Cell

LEMMA InitTInv == Init => TInv
<1> SUFFICES ASSUME Init PROVE TInv OBVIOUS
<1>1. IInv BY InitInv
<1>2. Taint BY DEF Init, Taint, Writing
<1>3. OneStaleByte
  <2>1. settled.len = 0 /\ str[0] = NUL BY Zero DEF Init
  <2>2. 0 .. 0 - 1 = {} OBVIOUS
  <2>3. QED BY <2>1, <2>2 DEF OneStaleByte, TextLen
<1>4. ASSUME NEW f \in File PROVE Stored(f) /\ Given(f)
  <2>1. ~Writing(f) /\ ~Reading(f) /\ pc[f] = "idle" BY DEF Init, Writing, Reading
  <2>2. out[f] = <<>> /\ pos[f] = 0 BY DEF Init
  <2>3. Stored(f) /\ Lengths(f) /\ Buffers(f) /\ Alone(f)
    BY <2>1 DEF Stored, Lengths, Buffers, Alone
  <2>4. Len(out[f]) = 0 /\ 1 .. 0 = {} BY <2>2
  <2>5. Delivered(f) BY <2>1, <2>2, <2>4 DEF Delivered
  <2>6. NoneWrong(f) /\ AllRight(f) BY <2>4, Constants DEF NoneWrong, AllRight, Cell
  <2>7. QED BY <2>3, <2>5, <2>6 DEF Given
<1>5. QED BY <1>1, <1>2, <1>3, <1>4 DEF TInv

-----------------------------------------------------------------------------
(* A step of a read disturbs no other call, except through tmp and heap.   *)

Same(g) ==
  /\ pc'[g] = pc[g] /\ tainted'[g] = tainted[g] /\ i'[g] = i[g] /\ len'[g] = len[g]
  /\ pos'[g] = pos[g] /\ arg'[g] = arg[g] /\ to'[g] = to[g] /\ out'[g] = out[g]

ReadFrame(f) ==
  /\ \A g \in File \ {f} : Same(g)
  /\ UNCHANGED <<str, tmp, asked, stale, crowd, settled>>
  /\ Reading(f) /\ pc'[f] # "store"
  /\ \/ tainted'[f] = tainted[f]
     \/ tainted'[f] = FALSE /\ pc'[f] \in {"idle", "oops"}

\* What a step of a read on f leaves to be shown.
LEMMA FrameStep ==
  ASSUME TInv, IInv', NEW f \in File, ReadFrame(f), Given(f)',
         \A g \in File \ {f} : Buffers(g)'
  PROVE  TInv'
<1>1. Taint'
  <2>1. \A g \in File : Writing(g)' => Writing(g) /\ g # f
    BY DEF ReadFrame, Same, Writing, Reading
  <2>2. \A g \in File : pc'[g] \notin {"idle", "oops"} => pc[g] \notin {"idle", "oops"} /\ tainted'[g] = tainted[g]
    BY DEF ReadFrame, Same, Reading
  <2>3. \A g \in File : ~tainted[g] => ~tainted'[g] BY DEF ReadFrame, Same
  <2>4. QED BY <2>1, <2>2, <2>3 DEF TInv, Taint, ReadFrame
<1>2. OneStaleByte'
  <2>1. WriteInFlight' = WriteInFlight
    BY DEF ReadFrame, Same, Writing, Reading, WriteInFlight
  <2>2. QED BY <2>1 DEF TInv, OneStaleByte, ReadFrame, TextLen
<1>3. ASSUME NEW g \in File PROVE Stored(g)' /\ Given(g)'
  <2>1. CASE g = f
    <3>1. Stored(f)' BY DEF ReadFrame, Stored, Writing
    <3>2. QED BY <2>1, <3>1
  <2>2. CASE g # f
    <3>0. Same(g) /\ Stored(g) /\ Given(g) BY <2>2 DEF ReadFrame, TInv
    <3>1. Stored(g)' BY <3>0 DEF ReadFrame, Same, Stored, Writing
    <3>2. Lengths(g)' BY <3>0 DEF ReadFrame, Same, Given, Lengths, Reading, TextLen
    <3>3. Delivered(g)' BY <3>0 DEF ReadFrame, Same, Given, Delivered
    <3>4. Alone(g)'
      <4>1. Reading(g)' => Reading(g) BY <3>0 DEF Same, Reading
      <4>2. Reading(f) /\ crowd' = crowd BY DEF ReadFrame
      <4>3. QED BY <2>2, <3>0, <4>1, <4>2 DEF Given, Alone
    <3>5. NoneWrong(g)' BY <3>0 DEF ReadFrame, Same, Given, NoneWrong, TextLen
    <3>6. AllRight(g)' BY <3>0 DEF ReadFrame, Same, Given, AllRight, TextLen
    <3>7. Buffers(g)' BY <2>2
    <3>8. QED BY <3>1, <3>2, <3>3, <3>4, <3>5, <3>6, <3>7 DEF Given
  <2>3. QED BY <2>1, <2>2
<1>4. QED BY <1>1, <1>2, <1>3 DEF TInv

\* A step that stores nothing in the heap leaves the buffers of others as they are.
LEMMA BuffersKept ==
  ASSUME TInv, NEW f \in File, ReadFrame(f), heap' = heap
  PROVE  \A g \in File \ {f} : Buffers(g)'
BY DEF TInv, Given, ReadFrame, Same, Buffers, Reading, TextLen

LEMMA MeasureFrame ==
  ASSUME TInv, UNCHANGED wild, NEW f \in File, Measure(f)
  PROVE  TInv'
<1>0. IInv' BY MeasureStep DEF TInv
<1>1. ReadFrame(f) /\ heap' = heap /\ pc' = pc
  BY DEF TInv, IInv, TypeOK, Measure, history, ReadFrame, Same, Reading
<1>2. i[f] \in Cell /\ i'[f] = i[f] + 1 /\ str[i[f]] # NUL /\ pc[f] = "measure"
  BY DEF TInv, IInv, TypeOK, Measure
<1>3. Lengths(f)'
  <2>1. ASSUME NEW n \in Cell, ~tainted[f], TextLen(n) PROVE i[f] + 1 <= n
    <3>1. i[f] <= n BY <1>2, <2>1 DEF TInv, Given, Lengths, Reading
    <3>2. i[f] # n BY <1>2, <2>1 DEF TextLen
    <3>3. QED BY <1>2, <3>1, <3>2, Constants DEF Cell
  <2>2. QED BY <1>1, <1>2, <2>1 DEF Lengths, Measure, history, TextLen
<1>4. Buffers(f)' /\ Delivered(f)' /\ NoneWrong(f)' /\ AllRight(f)'
  BY <1>1, <1>2 DEF TInv, Given, Measure, history, Buffers, Delivered, NoneWrong, AllRight, Reading, TextLen
<1>5. Alone(f)' BY <1>1, <1>2 DEF TInv, Given, Measure, history, Alone, Reading
<1>6. QED BY <1>0, <1>1, <1>3, <1>4, <1>5, FrameStep, BuffersKept DEF Given

LEMMA MeasuredFrame ==
  ASSUME TInv, UNCHANGED wild, NEW f \in File, Measured(f)
  PROVE  TInv'
<1>0. IInv' BY MeasuredStep DEF TInv
<1>1. ReadFrame(f) /\ heap' = heap /\ UNCHANGED <<str, tmp, to, pos, out, tainted, stale, crowd>>
  BY DEF TInv, IInv, TypeOK, Measured, history, ReadFrame, Same, Reading
<1>2. /\ i[f] \in Cell /\ i'[f] = 0 /\ len'[f] = i[f] /\ str[i[f]] = NUL
      /\ pc[f] = "measure" /\ pc'[f] = "reverse"
  BY DEF TInv, IInv, TypeOK, Measured
<1>3. Lengths(f)'
  <2>1. ASSUME NEW n \in Cell, ~tainted[f], TextLen(n) PROVE i[f] = n
    <3>1. i[f] <= n BY <1>2, <2>1 DEF TInv, Given, Lengths, Reading
    <3>2. ~(i[f] < n) BY <1>2, <2>1, Constants DEF TextLen, Cell
    <3>3. QED BY <1>2, <3>1, <3>2, Constants DEF Cell
  <2>2. QED BY <1>1, <1>2, <2>1 DEF Lengths, TextLen
<1>4. Buffers(f)' /\ Delivered(f)' /\ NoneWrong(f)' /\ AllRight(f)'
  BY <1>1, <1>2 DEF TInv, Given, Buffers, Delivered, NoneWrong, AllRight, Reading, TextLen
<1>5. Alone(f)'
  <2>1. \A q \in File \ {f} : pc'[q] = pc[q] BY <1>1 DEF ReadFrame, Same
  <2>2. \A k \in Nat : ~(k < 0) OBVIOUS
  <2>3. QED BY <1>1, <1>2, <2>1, <2>2 DEF TInv, Given, Alone, Reading
<1>6. QED BY <1>0, <1>1, <1>3, <1>4, <1>5, FrameStep, BuffersKept DEF Given

\* No write and no tainted call is left when a fresh file reads.
LEMMA Untainted ==
  ASSUME TInv, NEW f \in File, NEW g \in File, ~stale[g]
  PROVE  ~tainted[f]
BY DEF TInv, Taint

\* The store of a read into the heap keeps every buffer free of wrong bytes, when the
\* byte is the one the text has there, or lies behind the text.
LEMMA HeapStep ==
  ASSUME TInv, NEW f \in File, ReadFrame(f), to[f] # NULL, pc[f] = "reverse",
         pc'[f] \in {"reverse", "give"}, to'[f] = tmp,
         NEW k \in Cell, NEW x \in Byte, heap' = [heap EXCEPT ![to[f]][k] = x],
         \A n \in Cell : ~tainted[f] /\ TextLen(n) => (k < n => x = str[n - 1 - k]),
         NEW g \in File
  PROVE  Buffers(g)'
<1>0. TypeOK /\ Memory BY DEF TInv, IInv
<1>1. UNCHANGED <<str, stale>> /\ (Reading(g)' => Reading(g)) /\ Reading(f)
  BY DEF ReadFrame, Same, Reading
<1>2. ASSUME NEW n \in Cell, ~stale[g], Reading(g), TextLen(n), to'[g] # NULL,
             NEW b \in 1 .. Heap, NEW j \in 0 .. n - 1, to'[g] <= b
      PROVE  heap'[b][j] \in {Junk, str[n - 1 - j]}
  <2>1. ~tainted[f] BY <1>2, Untainted
  <2>2. to[f] \in 1 .. Heap
    <3>1. to[f] \in 0 .. Heap /\ to[f] # 0 BY <1>0 DEF TypeOK, NULL
    <3>2. QED BY <3>1, Constants
  <2>3. to[g] # NULL /\ to[g] <= b
    <3>1. CASE g = f
      <4>1. tmp # NULL /\ tmp <= b BY <1>2, <3>1
      <4>2. to[f] <= tmp BY <1>0, <4>1 DEF Memory
      <4>3. to[f] \in Nat /\ tmp \in Nat /\ b \in Nat BY <1>0, Constants DEF TypeOK
      <4>4. QED BY <3>1, <4>1, <4>2, <4>3
    <3>2. CASE g # f BY <1>2, <3>2 DEF ReadFrame, Same
    <3>3. QED BY <3>1, <3>2
  <2>4. heap[b][j] \in {Junk, str[n - 1 - j]} BY <1>2, <2>3 DEF TInv, Given, Buffers
  <2>5. j \in Nat /\ n \in Nat /\ j < n BY <1>2, Constants DEF Cell
  <2>6. CASE b = to[f] /\ j = k
    <3>1. heap'[b][j] = x
      <4>1. j \in 0 .. 2 * PAGE_SIZE - 1 BY <1>2, Constants DEF Cell
      <4>2. QED BY <1>0, <2>2, <2>6, <4>1 DEF TypeOK
    <3>2. QED BY <1>2, <2>1, <2>5, <2>6, <3>1
  <2>7. CASE ~(b = to[f] /\ j = k)
    <3>1. heap'[b][j] = heap[b][j] BY <1>0, <2>2, <2>7 DEF TypeOK
    <3>2. QED BY <2>4, <3>1
  <2>8. QED BY <2>6, <2>7
<1>3. QED BY <1>1, <1>2 DEF Buffers, TextLen

LEMMA ReverseByteFrame ==
  ASSUME TInv, UNCHANGED wild, NEW f \in File, ReverseByte(f)
  PROVE  TInv'
<1>0. IInv' /\ TypeOK /\ Bounded BY ReverseByteStep DEF TInv, IInv
<1>1. ReadFrame(f) /\ UNCHANGED <<str, tmp, pos, pc, len, out, tainted, stale, crowd>>
  BY <1>0 DEF TypeOK, ReverseByte, history, ReadFrame, Same, Reading
<1>2. /\ len[f] \in Cell /\ i[f] \in Cell /\ i[f] < len[f] /\ i'[f] = i[f] + 1
      /\ to[f] # NULL /\ to'[f] = tmp /\ pc[f] = "reverse"
  BY <1>0, ReadingBounds DEF TypeOK, ReverseByte
<1>3. Last(f) \in Cell BY <1>2, Constants DEF Last, Cell
<1> DEFINE x == str[Last(f)]
<1>4. x \in Byte /\ heap' = [heap EXCEPT ![to[f]][i[f]] = x] BY <1>0, <1>3 DEF TypeOK, ReverseByte
<1>5. ASSUME NEW n \in Cell, ~tainted[f], TextLen(n)
      PROVE  len[f] = n /\ x = str[n - 1 - i[f]]
  BY <1>2, <1>5 DEF TInv, Given, Lengths, Reading, Last
<1> HIDE DEF x
<1>6. \A g \in File : Buffers(g)'
  <2>1. \A n \in Cell : ~tainted[f] /\ TextLen(n) => (i[f] < n => x = str[n - 1 - i[f]]) BY <1>5
  <2>2. pc'[f] \in {"reverse", "give"} BY <1>1, <1>2
  <2>3. QED BY <1>1, <1>2, <1>4, <2>1, <2>2, HeapStep
<1>7. Lengths(f)' BY <1>1, <1>2, <1>5 DEF Lengths, TextLen
<1>8. Delivered(f)' /\ NoneWrong(f)' /\ AllRight(f)'
  BY <1>1, <1>2 DEF TInv, Given, Delivered, NoneWrong, AllRight, TextLen
<1>9. Alone(f)'
  <2>1. ASSUME ~crowd[f] PROVE to[f] = tmp /\ \A q \in File \ {f} : ~Reading(q)
    BY <1>2, <2>1 DEF TInv, Given, Alone, Reading
  <2>2. ASSUME ~crowd[f], NEW n \in Cell, ~stale[f], TextLen(n), NEW k \in 0 .. n - 1, k < i[f] + 1
        PROVE  heap'[to[f]][k] = str[n - 1 - k]
    <3>1. to[f] \in 1 .. Heap /\ ~tainted[f] BY <1>0, <1>2, <2>2, Untainted, Constants DEF TypeOK, NULL
    <3>2. CASE k = i[f]
      <4>1. k \in 0 .. 2 * PAGE_SIZE - 1 BY <2>2, Constants DEF Cell
      <4>2. heap'[to[f]][k] = x BY <1>0, <1>4, <3>1, <3>2, <4>1 DEF TypeOK
      <4>3. QED BY <1>5, <2>2, <3>1, <3>2, <4>2
    <3>3. CASE k # i[f]
      <4>1. k < i[f] BY <1>2, <2>2, <3>3, Constants DEF Cell
      <4>2. heap[to[f]][k] = str[n - 1 - k] BY <1>2, <2>2, <4>1 DEF TInv, Given, Alone, Reading
      <4>3. heap'[to[f]][k] = heap[to[f]][k] BY <1>0, <1>4, <3>1, <3>3 DEF TypeOK
      <4>4. QED BY <4>2, <4>3
    <3>4. QED BY <3>2, <3>3
  <2>3. QED BY <1>1, <1>2, <2>1, <2>2 DEF Alone, Reading, TextLen
<1>10. QED BY <1>0, <1>1, <1>6, <1>7, <1>8, <1>9, FrameStep DEF Given

LEMMA ReverseEndFrame ==
  ASSUME TInv, UNCHANGED wild, NEW f \in File, ReverseEnd(f)
  PROVE  TInv'
<1>0. IInv' /\ TypeOK /\ Bounded BY ReverseEndStep DEF TInv, IInv
<1>1. ReadFrame(f) /\ UNCHANGED <<str, tmp, pos, out, tainted, stale, crowd>>
  BY <1>0 DEF TypeOK, ReverseEnd, history, ReadFrame, Same, Reading
<1>2. /\ len[f] \in Cell /\ pos[f] \in Cell /\ arg[f].want \in Nat
      /\ i[f] = len[f] /\ i'[f] = 0 /\ len'[f] = Givable(f)
      /\ to[f] # NULL /\ to'[f] = tmp /\ pc[f] = "reverse" /\ pc'[f] = "give"
  BY <1>0, ReadingBounds DEF TypeOK, ReverseEnd
<1>3. heap' = [heap EXCEPT ![to[f]][len[f]] = NUL] /\ NUL \in Byte BY Zero DEF ReverseEnd
<1>4. ASSUME NEW n \in Cell, ~tainted[f], TextLen(n) PROVE len[f] = n
  BY <1>2, <1>4 DEF TInv, Given, Lengths, Reading
<1>5. \A g \in File : Buffers(g)'
  <2>1. ASSUME NEW n \in Cell, ~tainted[f], TextLen(n), len[f] < n PROVE NUL = str[n - 1 - len[f]]
    BY <1>2, <1>4, <2>1, Constants DEF Cell
  <2>2. QED BY <1>1, <1>2, <1>3, <2>1, HeapStep
<1>6. Lengths(f)'
  <2>1. Givable(f) = 0 \/ pos[f] + Givable(f) <= len[f]
    BY <1>2, Constants DEF Givable, Least, Cell
  <2>2. QED BY <1>1, <1>2, <1>4, <2>1 DEF Lengths, TextLen
<1>7. Delivered(f)' /\ NoneWrong(f)' /\ AllRight(f)'
  <2>1. pos[f] + 0 = pos[f] BY <1>2, Constants DEF Cell
  <2>2. QED BY <1>1, <1>2, <2>1 DEF TInv, Given, Delivered, NoneWrong, AllRight, TextLen
<1>8. Alone(f)'
  <2>1. ASSUME ~crowd[f] PROVE to[f] = tmp /\ \A q \in File \ {f} : ~Reading(q)
    BY <1>2, <2>1 DEF TInv, Given, Alone, Reading
  <2>2. ASSUME ~crowd[f], NEW n \in Cell, ~stale[f], TextLen(n), NEW k \in 0 .. n - 1
        PROVE  heap'[to[f]][k] = str[n - 1 - k]
    <3>1. to[f] \in 1 .. Heap /\ len[f] = n
      BY <1>0, <1>2, <1>4, <2>2, Untainted, Constants DEF TypeOK, NULL
    <3>2. k < i[f] /\ k # len[f] BY <1>2, <2>2, <3>1, Constants DEF Cell
    <3>3. heap[to[f]][k] = str[n - 1 - k] BY <1>2, <2>2, <3>2 DEF TInv, Given, Alone, Reading
    <3>4. heap'[to[f]][k] = heap[to[f]][k] BY <1>0, <1>3, <3>1, <3>2 DEF TypeOK
    <3>5. QED BY <3>3, <3>4
  <2>3. \A q \in File \ {f} : Reading(q)' => Reading(q) BY <1>1 DEF ReadFrame, Same, Reading
  <2>4. QED BY <1>1, <1>2, <2>1, <2>2, <2>3 DEF Alone, Reading, TextLen
<1>9. QED BY <1>0, <1>1, <1>5, <1>6, <1>7, <1>8, FrameStep DEF Given

\* A read that is over makes no claim on buffers or lengths.
LEMMA RestingFrame ==
  ASSUME TInv, IInv', NEW f \in File, ReadFrame(f), heap' = heap, out' = out,
         pc'[f] \in {"idle", "oops"}, Delivered(f)'
  PROVE  TInv'
<1>1. ~Reading(f)' BY DEF Reading
<1>2. Lengths(f)' /\ Buffers(f)' /\ Alone(f)' BY <1>1 DEF Lengths, Buffers, Alone
<1>3. NoneWrong(f)' /\ AllRight(f)' BY DEF TInv, Given, ReadFrame, NoneWrong, AllRight, TextLen
<1>4. QED BY <1>2, <1>3, FrameStep, BuffersKept DEF Given

LEMMA OopsFrame ==
  ASSUME TInv, UNCHANGED wild, NEW f \in File, Oops(f)
  PROVE  TInv'
<1>0. IInv' BY OopsStep DEF TInv
<1>1. ReadFrame(f) /\ heap' = heap /\ out' = out /\ pos' = pos /\ pc'[f] = "oops" /\ pc[f] = "reverse"
  BY DEF TInv, IInv, TypeOK, Oops, Leave, ReadFrame, Same, Reading
<1>2. Delivered(f)' BY <1>1 DEF TInv, Given, ReadFrame, Delivered
<1>3. QED BY <1>0, <1>1, <1>2, RestingFrame

LEMMA MyfdReadReturnFrame ==
  ASSUME TInv, UNCHANGED wild, NEW f \in File, MyfdReadReturn(f)
  PROVE  TInv'
<1>0. IInv' BY MyfdReadReturnStep DEF TInv
<1>1. ReadFrame(f) /\ heap' = heap /\ out' = out /\ pc'[f] = "idle" /\ pc[f] = "give"
  BY DEF TInv, IInv, TypeOK, MyfdReadReturn, Return, Leave, ReadFrame, Same, Reading
<1>2. pos[f] \in Cell /\ i[f] \in Cell /\ pos'[f] = pos[f] + i[f]
  BY ReadingBounds DEF TInv, IInv, TypeOK, MyfdReadReturn, Return
<1>3. Delivered(f)'
  <2>1. pos[f] + i[f] = pos[f] + i[f] + 0 BY <1>2, Constants DEF Cell
  <2>2. QED BY <1>1, <1>2, <2>1 DEF TInv, Given, ReadFrame, Delivered
<1>4. QED BY <1>0, <1>1, <1>3, RestingFrame

LEMMA GiveFrame ==
  ASSUME TInv, UNCHANGED wild, NEW f \in File, Give(f)
  PROVE  TInv'
<1>0. IInv' /\ TypeOK /\ Bounded /\ Memory BY GiveStep DEF TInv, IInv
<1>1. /\ ReadFrame(f)
      /\ UNCHANGED <<str, tmp, heap, asked, pos, pc, arg, to, len, tainted, stale, crowd>>
  BY <1>0 DEF TypeOK, Give, history, ReadFrame, Same, Reading
<1>2. /\ len[f] \in Cell /\ pos[f] \in Cell /\ i[f] \in Cell /\ to[f] \in 0 .. Heap
      /\ arg[f].good \in Nat /\ pc[f] = "give" /\ i'[f] = i[f] + 1
      /\ out[f] \in Seq(Byte \cup {Junk})
  BY <1>0, ReadingBounds DEF TypeOK, Give
<1>3. i[f] < len[f] /\ to[f] \in 1 .. Heap
  BY <1>2, Constants DEF Give, Reachable, Least, NULL, Cell
<1> DEFINE at == pos[f] + i[f]
           x == heap[to[f]][at]
<1>4. out'[f] = Append(out[f], x) BY <1>0 DEF TypeOK, Give
<1>5. at \in Nat /\ at \in 0 .. 2 * PAGE_SIZE - 1 /\ pos[f] + (i[f] + 1) = at + 1
  <2>1. pos[f] \in Nat /\ i[f] \in Nat /\ len[f] \in Nat BY <1>2, Constants DEF Cell
  <2>2. pos[f] + len[f] < PAGE_SIZE BY <1>0, <1>2, <1>3, <2>1 DEF Bounded, Bounds
  <2>3. QED BY <1>3, <2>1, <2>2, Constants
<1>6. x \in Byte \cup {Junk}
  <2>1. heap[to[f]] \in [0 .. 2 * PAGE_SIZE - 1 -> Byte \cup {Junk}] BY <1>0, <1>3 DEF TypeOK
  <2> HIDE DEF at
  <2>2. QED BY <2>1, <1>5
<1>7. /\ Len(out'[f]) = Len(out[f]) + 1 /\ out'[f][Len(out[f]) + 1] = x
      /\ \A j \in 1 .. Len(out[f]) : out'[f][j] = out[f][j]
  BY <1>2, <1>4, <1>6
<1>8. Len(out[f]) \in Nat BY <1>2
<1>9. ASSUME ~stale[f] PROVE Len(out[f]) = at
  BY <1>2, <1>9 DEF TInv, Given, Delivered
<1> HIDE DEF at, x
<1>10. Delivered(f)' BY <1>1, <1>2, <1>5, <1>7, <1>9 DEF Delivered
<1>11. ASSUME NEW n \in Cell, ~stale[f], TextLen(n)
       PROVE  at < n /\ n - 1 - at = n - (at + 1) /\ at \in 0 .. n - 1
  <2>1. ~tainted[f] BY <1>11, Untainted
  <2>2. len[f] = 0 \/ pos[f] + len[f] <= n BY <1>2, <1>11, <2>1 DEF TInv, Given, Lengths, Reading
  <2>3. at < n BY <1>2, <1>3, <1>11, <2>2, Constants DEF Cell, at
  <2>4. QED BY <1>5, <1>11, <2>3, Constants DEF Cell
<1>12. NoneWrong(f)'
  <2>1. ASSUME NEW n \in Cell, ~stale[f], TextLen(n)
        PROVE  /\ Len(out'[f]) <= n
               /\ \A j \in 1 .. Len(out'[f]) : out'[f][j] \in {Junk, str[n - j]}
    <3>1. Len(out'[f]) <= n BY <1>5, <1>7, <1>9, <1>11, <2>1, Constants DEF Cell
    <3>2. x \in {Junk, str[n - 1 - at]}
      BY <1>2, <1>3, <1>11, <2>1, Constants DEF TInv, Given, Buffers, Reading, NULL, x
    <3>3. ASSUME NEW j \in 1 .. Len(out'[f]) PROVE out'[f][j] \in {Junk, str[n - j]}
      <4>1. CASE j = at + 1 BY <1>7, <1>9, <1>11, <2>1, <3>2, <4>1
      <4>2. CASE j # at + 1
        <5>1. j \in 1 .. Len(out[f]) BY <1>5, <1>7, <1>8, <1>9, <2>1, <4>2
        <5>2. out[f][j] \in {Junk, str[n - j]} BY <2>1, <5>1 DEF TInv, Given, NoneWrong
        <5>3. QED BY <1>7, <5>1, <5>2
      <4>3. QED BY <4>1, <4>2
    <3>4. QED BY <3>1, <3>3
  <2>2. QED BY <1>1, <2>1 DEF NoneWrong, TextLen
<1>13. AllRight(f)'
  <2>1. ASSUME NEW n \in Cell, ~stale[f], ~crowd[f], TextLen(n), NEW j \in 1 .. Len(out'[f])
        PROVE  out'[f][j] = str[n - j]
    <3>1. x = str[n - 1 - at]
      BY <1>2, <1>3, <1>11, <2>1, Constants DEF TInv, Given, Alone, Reading, NULL, x
    <3>2. CASE j = at + 1 BY <1>7, <1>9, <1>11, <2>1, <3>1, <3>2
    <3>3. CASE j # at + 1
      <4>1. j \in 1 .. Len(out[f]) BY <1>5, <1>7, <1>8, <1>9, <2>1, <3>3
      <4>2. out[f][j] = str[n - j] BY <2>1, <4>1 DEF TInv, Given, AllRight
      <4>3. QED BY <1>7, <4>1, <4>2
    <3>4. QED BY <3>2, <3>3
  <2>2. QED BY <1>1, <2>1 DEF AllRight, TextLen
<1>14. Lengths(f)' /\ Buffers(f)'
  BY <1>1, <1>2 DEF TInv, Given, Lengths, Buffers, Reading, TextLen
<1>15. Alone(f)'
  BY <1>1, <1>2 DEF TInv, Given, Alone, Reading, TextLen
<1>16. QED
  BY <1>0, <1>1, <1>10, <1>12, <1>13, <1>14, <1>15, FrameStep, BuffersKept DEF Given

-----------------------------------------------------------------------------
(* The calls begin, files are opened, and writes go on.                    *)

LEMMA OpenFrame ==
  ASSUME TInv, UNCHANGED wild, NEW f \in File, Open(f)
  PROVE  TInv'
<1>0. IInv' /\ TypeOK BY OpenStep DEF TInv, IInv
<1>1. /\ UNCHANGED <<str, tmp, heap, asked, arg, to, len, i, tainted, settled, writes>>
      /\ pc[f] \in {"idle", "oops"} /\ pc'[f] = "idle" /\ pos'[f] = 0 /\ out'[f] = <<>>
      /\ \A g \in File \ {f} : /\ Same(g) /\ stale'[g] = stale[g] /\ crowd'[g] = crowd[g]
      /\ ~stale'[f] => \A g \in File : ~Writing(g) /\ ~tainted[g]
  BY <1>0 DEF TypeOK, Open, Same
<1>2. \A g \in File : (Writing(g)' <=> Writing(g)) /\ (Reading(g)' <=> Reading(g))
  BY <1>1 DEF Same, Writing, Reading
<1>3. Taint'
  <2>1. \A g \in File : pc'[g] \notin {"idle", "oops"} => pc[g] \notin {"idle", "oops"}
    BY <1>1 DEF Same
  <2>2. QED BY <1>1, <1>2, <2>1 DEF TInv, Taint
<1>4. OneStaleByte'
  <2>1. WriteInFlight' = WriteInFlight BY <1>2 DEF WriteInFlight
  <2>2. QED BY <1>1, <2>1 DEF TInv, OneStaleByte, TextLen
<1>5. ASSUME NEW g \in File PROVE Stored(g)' /\ Given(g)'
  <2>1. CASE g = f
    <3>1. ~Writing(f)' /\ ~Reading(f)' BY <1>1 DEF Writing, Reading
    <3>2. Stored(f)' /\ Lengths(f)' /\ Buffers(f)' /\ Alone(f)'
      BY <3>1 DEF Stored, Lengths, Buffers, Alone
    <3>3. Len(out'[f]) = 0 /\ 1 .. 0 = {} BY <1>1
    <3>4. Delivered(f)' BY <1>1, <3>3 DEF Delivered
    <3>5. NoneWrong(f)' /\ AllRight(f)' BY <3>3, Constants DEF NoneWrong, AllRight, Cell
    <3>6. QED BY <2>1, <3>2, <3>4, <3>5 DEF Given
  <2>2. CASE g # f
    <3>0. Stored(g) /\ Given(g) /\ Same(g) /\ stale'[g] = stale[g] /\ crowd'[g] = crowd[g]
      BY <1>1, <2>2 DEF TInv
    <3>1. Stored(g)' BY <1>1, <3>0 DEF Stored, Same, Writing
    <3>2. Lengths(g)' BY <1>1, <3>0 DEF Given, Lengths, Same, Reading, TextLen
    <3>3. Buffers(g)' BY <1>1, <3>0 DEF Given, Buffers, Same, Reading, TextLen
    <3>4. Delivered(g)' BY <3>0 DEF Given, Delivered, Same
    <3>5. Alone(g)' BY <1>1, <1>2, <3>0 DEF Given, Alone, Same, TextLen
    <3>6. NoneWrong(g)' /\ AllRight(g)' BY <1>1, <3>0 DEF Given, NoneWrong, AllRight, Same, TextLen
    <3>7. QED BY <3>1, <3>2, <3>3, <3>4, <3>5, <3>6 DEF Given
  <2>3. QED BY <2>1, <2>2
<1>6. QED BY <1>0, <1>3, <1>4, <1>5 DEF TInv

LEMMA MyfdReadEnterFrame ==
  ASSUME TInv, UNCHANGED wild, NEW f \in File, NEW u \in ReadBuffer, MyfdReadEnter(f, u)
  PROVE  TInv'
<1>0. IInv' /\ TypeOK /\ Memory /\ Bounded BY MyfdReadEnterStep DEF TInv, IInv
<1>1. /\ UNCHANGED <<str, heap, pos, len, i, out, stale, settled, writes>>
      /\ pc[f] = "idle" /\ pc'[f] = "measure" /\ to'[f] = Kmalloc /\ tmp' = Kmalloc
      /\ tainted'[f] = WriteInFlight
      /\ \A g \in File \ {f} : Same(g) /\ (~crowd'[g] => ~crowd[g] /\ ~Reading(g))
      /\ ~crowd'[f] => \A q \in File : ~Reading(q)
  BY <1>0 DEF TypeOK, MyfdReadEnter, Same
<1>2. \A g \in File : Writing(g)' <=> Writing(g)
  BY <1>1 DEF Same, Writing
<1>3. Taint'
  <2>1. \A g \in File : g # f => pc'[g] = pc[g] /\ tainted'[g] = tainted[g] BY <1>1 DEF Same
  <2>2. QED BY <1>1, <1>2, <2>1 DEF TInv, Taint, WriteInFlight
<1>4. OneStaleByte'
  <2>1. WriteInFlight' = WriteInFlight BY <1>2 DEF WriteInFlight
  <2>2. QED BY <1>1, <2>1 DEF TInv, OneStaleByte, TextLen
<1>5. ASSUME NEW g \in File PROVE Stored(g)' /\ Given(g)'
  <2>1. CASE g = f
    <3>0. Given(f) /\ i'[f] = 0 BY <1>0, <1>1 DEF TInv, Bounded, Bounds
    <3>1. Stored(f)' BY <1>1 DEF Stored, Writing
    <3>2. Lengths(f)'
      <4>1. \A n \in Cell : 0 <= n BY Constants DEF Cell
      <4>2. QED BY <1>1, <3>0, <4>1 DEF Lengths
    <3>3. Buffers(f)'
      <4>1. ASSUME NEW n \in Cell, to'[f] # NULL, NEW b \in 1 .. Heap, NEW k \in 0 .. n - 1, to'[f] <= b
            PROVE  heap'[b][k] = Junk
        <5>1. asked < b BY <1>0, <1>1, <4>1, Constants DEF TypeOK, Kmalloc, NULL
        <5>2. heap[b] = Fresh BY <1>0, <5>1 DEF Memory
        <5>3. k \in 0 .. 2 * PAGE_SIZE - 1 BY <4>1, Constants DEF Cell
        <5>4. QED BY <1>1, <5>2, <5>3 DEF Fresh
      <4>2. QED BY <4>1 DEF Buffers
    <3>4. Delivered(f)' BY <1>1, <3>0 DEF Given, Delivered
    <3>5. Alone(f)'
      <4>1. \A q \in File \ {f} : Reading(q)' => Reading(q) BY <1>1 DEF Same, Reading
      <4>2. QED BY <1>1, <4>1 DEF Alone
    <3>6. NoneWrong(f)' BY <1>1, <3>0 DEF Given, NoneWrong, TextLen
    <3>7. AllRight(f)'
      <4>1. ~crowd'[f] => ~crowd[f] BY <1>0 DEF TypeOK, MyfdReadEnter
      <4>2. QED BY <1>1, <3>0, <4>1 DEF Given, AllRight, TextLen
    <3>8. QED BY <2>1, <3>1, <3>2, <3>3, <3>4, <3>5, <3>6, <3>7 DEF Given
  <2>2. CASE g # f
    <3>0. Stored(g) /\ Given(g) /\ Same(g) /\ (~crowd'[g] => ~crowd[g] /\ ~Reading(g))
      BY <1>1, <2>2 DEF TInv
    <3>1. Stored(g)' BY <1>1, <3>0 DEF Stored, Same, Writing
    <3>2. Lengths(g)' BY <1>1, <3>0 DEF Given, Lengths, Same, Reading, TextLen
    <3>3. Buffers(g)' BY <1>1, <3>0 DEF Given, Buffers, Same, Reading, TextLen
    <3>4. Delivered(g)' BY <1>1, <3>0 DEF Given, Delivered, Same
    <3>5. Alone(g)' BY <3>0 DEF Alone, Same, Reading
    <3>6. NoneWrong(g)' /\ AllRight(g)' BY <1>1, <3>0 DEF Given, NoneWrong, AllRight, Same, TextLen
    <3>7. QED BY <3>1, <3>2, <3>3, <3>4, <3>5, <3>6 DEF Given
  <2>3. QED BY <2>1, <2>2
<1>6. QED BY <1>0, <1>3, <1>4, <1>5 DEF TInv

\* While a write goes on no file is fresh and every read is tainted, so nothing is claimed
\* of them but who reads at all.
LEMMA WriteFrame ==
  ASSUME TInv, \A g \in File : stale'[g], UNCHANGED <<tmp, crowd>>,
         \A g \in File : (Reading(g)' <=> Reading(g)) /\ (Reading(g) => tainted'[g] /\ to'[g] = to[g])
  PROVE  \A g \in File : Given(g)'
<1> TAKE g \in File
<1>1. Lengths(g)' BY DEF Lengths
<1>2. Buffers(g)' /\ Delivered(g)' /\ NoneWrong(g)' /\ AllRight(g)'
  BY DEF Buffers, Delivered, NoneWrong, AllRight
<1>3. Alone(g)' BY DEF TInv, Given, Alone
<1>4. QED BY <1>1, <1>2, <1>3 DEF Given

LEMMA MyfdWriteEnterFrame ==
  ASSUME TInv, UNCHANGED wild, NEW f \in File, NEW v \in Value, NEW u \in WriteBuffer, MyfdWriteEnter(f, v, u)
  PROVE  TInv'
<1>0. IInv' /\ TypeOK /\ Bounded BY MyfdWriteEnterStep DEF TInv, IInv
<1>1. /\ UNCHANGED <<str, tmp, heap, asked, pos, to, i, out, crowd, settled>>
      /\ pc[f] = "idle" /\ pc'[f] = "store" /\ \A g \in File \ {f} : pc'[g] = pc[g]
      /\ arg'[f] = [val |-> v, want |-> u.want, good |-> u.good] /\ len'[f] = Storable(f, u.want)
      /\ \A g \in File : stale'[g]
      /\ tainted'[f] = WriteInFlight
      /\ \A g \in File \ {f} : tainted'[g] = (pc[g] \notin {"idle", "oops"})
  BY <1>0 DEF TypeOK, MyfdWriteEnter
<1>2. Taint' BY <1>1 DEF Taint, Writing, WriteInFlight
<1>3. OneStaleByte' BY <1>1 DEF OneStaleByte, WriteInFlight, Writing
<1>4. Stored(f)'
  <2>1. i'[f] = 0 BY <1>0, <1>1 DEF Bounded, Bounds
  <2>2. 0 .. 0 - 1 = {} OBVIOUS
  <2>3. pos[f] = 0 => Storable(f, u.want) = u.want BY Constants DEF Storable
  <2>4. QED BY <1>1, <2>1, <2>2, <2>3 DEF Stored
<1>5. \A g \in File \ {f} : Stored(g)' BY <1>1 DEF Stored, Writing
<1>6. \A g \in File : Given(g)'
  <2>1. \A g \in File : (Reading(g)' <=> Reading(g)) /\ (Reading(g) => tainted'[g] /\ to'[g] = to[g])
    BY <1>1 DEF Reading
  <2>2. QED BY <1>1, <2>1, WriteFrame
<1>7. QED BY <1>0, <1>2, <1>3, <1>4, <1>5, <1>6 DEF TInv

\* What holds while f writes.
LEMMA OthersTainted ==
  ASSUME TInv, NEW f \in File, Writing(f)
  PROVE  /\ \A g \in File : stale[g]
         /\ \A g \in File \ {f} : pc[g] \notin {"idle", "oops"} => tainted[g]
BY DEF TInv, Taint

LEMMA StoreFrame ==
  ASSUME TInv, UNCHANGED wild, NEW f \in File, Store(f)
  PROVE  TInv'
<1>0. IInv' /\ TypeOK /\ Bounded BY StoreStep DEF TInv, IInv
<1>1. /\ UNCHANGED <<tmp, heap, asked, pos, pc, arg, to, len, out, history>> /\ Writing(f)
      /\ \A g \in File \ {f} : i'[g] = i[g]
      /\ i[f] < len[f] /\ i'[f] = i[f] + 1
      /\ str' = [str EXCEPT ![pos[f] + i[f]] = Copied(f)]
  BY <1>0 DEF TypeOK, Store, Writing
<1>2. \A g \in File \ {f} : pc[g] \notin {"idle", "oops"} => tainted[g] BY <1>1, OthersTainted
<1>3. Taint' BY <1>1 DEF TInv, Taint, Writing, history
<1>4. OneStaleByte' BY <1>1 DEF OneStaleByte, WriteInFlight, Writing
<1>5. Stored(f)'
  <2>1. ASSUME ~tainted[f], pos[f] = 0, arg[f].good >= len[f], NEW k \in 0 .. i[f]
        PROVE  str'[k] = <<arg[f].val, k>>
    <3>1. i[f] \in Nat /\ len[f] \in Nat /\ arg[f].good \in Nat /\ str \in [Cell -> Byte]
          /\ pos[f] + i[f] \in Cell
      BY <1>0, Constants DEF TypeOK, Store
    <3>2. pos[f] + i[f] = i[f] /\ k \in Cell BY <2>1, <3>1, Constants DEF Cell
    <3>3. CASE k = i[f]
      <4>1. Copied(f) = <<arg[f].val, i[f]>> BY <1>1, <2>1, <3>1, Constants DEF Copied, Cell
      <4>2. QED BY <1>1, <3>1, <3>2, <3>3, <4>1
    <3>4. CASE k # i[f]
      <4>1. k \in 0 .. i[f] - 1 BY <2>1, <3>1, <3>4, Constants DEF Cell
      <4>2. str[k] = <<arg[f].val, k>> BY <1>1, <2>1, <4>1 DEF TInv, Stored
      <4>3. QED BY <1>1, <3>1, <3>2, <3>4, <4>2
    <3>5. QED BY <3>3, <3>4
  <2>2. i'[f] - 1 = i[f] BY <1>0, <1>1, Constants DEF TypeOK, Cell
  <2>3. QED BY <1>1, <2>1, <2>2 DEF TInv, Stored, Writing, history
<1>6. \A g \in File \ {f} : Stored(g)' BY <1>1, <1>2 DEF Stored, Writing, history
<1>7. \A g \in File : Given(g)'
  <2>1. \A g \in File : (Reading(g)' <=> Reading(g)) /\ (Reading(g) => tainted'[g] /\ to'[g] = to[g])
    BY <1>1, <1>2 DEF Reading, Writing, history
  <2>2. \A g \in File : stale'[g] BY <1>1, OthersTainted DEF history
  <2>3. QED BY <1>1, <2>1, <2>2, WriteFrame DEF history
<1>8. QED BY <1>0, <1>3, <1>4, <1>5, <1>6, <1>7 DEF TInv

LEMMA MyfdWriteReturnFrame ==
  ASSUME TInv, UNCHANGED wild, NEW f \in File, MyfdWriteReturn(f)
  PROVE  TInv'
<1>0. IInv' /\ TypeOK /\ Bounded BY MyfdWriteReturnStep DEF TInv, IInv
<1>1. /\ UNCHANGED <<tmp, heap, asked, out, stale, crowd, writes>> /\ Writing(f) /\ pc'[f] = "idle"
      /\ \A g \in File \ {f} : Same(g)
      /\ i[f] = len[f] /\ tainted'[f] = FALSE
      /\ str' = [str EXCEPT ![Terminator(f)] = NUL]
  BY <1>0 DEF TypeOK, MyfdWriteReturn, Return, Leave, Writing, Same
<1>2. \A g \in File \ {f} : pc[g] \notin {"idle", "oops"} => tainted[g] BY <1>1, OthersTainted
<1>3. \A g \in File : stale'[g] BY <1>1, OthersTainted
<1>4. Taint'
  <2>1. \A g \in File : Writing(g)' => Writing(g) BY <1>1 DEF Same, Writing
  <2>2. QED BY <1>1, <1>3, <2>1 DEF TInv, Taint, Same
<1>5. OneStaleByte'
  <2>1. CASE ~(~tainted[f] /\ pos[f] = 0 /\ arg[f].good >= len[f])
    BY <2>1 DEF MyfdWriteReturn, Unsettled, OneStaleByte
  <2>2. CASE ~tainted[f] /\ pos[f] = 0 /\ arg[f].good >= len[f]
    <3>1. settled' = [intact |-> TRUE, val |-> arg[f].val, len |-> len[f]]
      BY <2>2 DEF MyfdWriteReturn
    <3>2. /\ len[f] \in Cell /\ arg[f].val \in Value /\ str \in [Cell -> Byte]
          /\ Terminator(f) = len[f] + 1 /\ len[f] + 1 \in Cell
      <4>1. len[f] \in Nat /\ str \in [Cell -> Byte] BY <1>0 DEF TypeOK
      <4>2. arg[f].val \in Value /\ len[f] = arg[f].want
        BY <1>0, <1>1, <2>2 DEF TInv, Stored, Bounded, Bounds, Writing
      <4>3. Terminator(f) \in Cell BY DEF MyfdWriteReturn
      <4>4. QED BY <4>1, <4>2, <4>3, Constants DEF Terminator, Cell
    <3>3. ASSUME NEW k \in 0 .. len[f] - 1
          PROVE  str'[k] = <<arg[f].val, k>> /\ str'[k] # NUL
      <4>1. str[k] = <<arg[f].val, k>> BY <1>1, <2>2, <3>3 DEF TInv, Stored
      <4>2. k \in Cell /\ k # len[f] + 1 /\ k \in Nat BY <3>2, <3>3, Constants DEF Cell
      <4>3. str'[k] = str[k] BY <1>1, <3>2, <4>2
      <4>4. <<arg[f].val, k>> \in Value \X Nat BY <3>2, <4>2
      <4>5. QED BY <4>1, <4>3, <4>4, Constants
    <3>4. str'[len[f] + 1] = NUL BY <1>1, <3>2
    <3>5. CASE str'[len[f]] = NUL BY <3>1, <3>3, <3>5 DEF OneStaleByte, TextLen
    <3>6. CASE str'[len[f]] # NUL
      <4>1. \A k \in 0 .. (len[f] + 1) - 1 : k = len[f] \/ k \in 0 .. len[f] - 1
        BY <3>2, Constants DEF Cell
      <4>2. \A k \in 0 .. (len[f] + 1) - 1 : str'[k] # NUL BY <3>3, <3>6, <4>1
      <4>3. QED BY <3>1, <3>3, <3>4, <4>2 DEF OneStaleByte, TextLen
    <3>7. QED BY <3>5, <3>6
  <2>3. QED BY <2>1, <2>2
<1>6. Stored(f)' BY <1>1 DEF Stored, Writing
<1>7. \A g \in File \ {f} : Stored(g)' BY <1>1, <1>2 DEF Stored, Same, Writing
<1>8. \A g \in File : Given(g)'
  <2>1. \A g \in File : (Reading(g)' <=> Reading(g)) /\ (Reading(g) => tainted'[g] /\ to'[g] = to[g])
    BY <1>1, <1>2 DEF Reading, Writing, Same
  <2>2. QED BY <1>1, <1>3, <2>1, WriteFrame
<1>9. QED BY <1>0, <1>4, <1>5, <1>6, <1>7, <1>8 DEF TInv

LEMMA LeaveFrame ==
  ASSUME TInv, IInv', UNCHANGED <<str, tmp, heap, asked, pos, pc, arg, to, len, i, out, history>>
  PROVE  TInv'
<1>1. Taint' /\ OneStaleByte'
  BY DEF history, TInv, Taint, OneStaleByte, TextLen, WriteInFlight, Writing
<1>2. ASSUME NEW f \in File PROVE Stored(f)' /\ Given(f)'
  <2>1. Stored(f)' /\ Lengths(f)' /\ Buffers(f)' /\ Delivered(f)'
    BY DEF history, TInv, Stored, Given, Lengths, Buffers, Delivered, Writing, Reading, TextLen
  <2>2. Alone(f)' /\ NoneWrong(f)' /\ AllRight(f)'
    BY DEF history, TInv, Given, Alone, NoneWrong, AllRight, Reading, TextLen
  <2>3. QED BY <2>1, <2>2 DEF Given
<1>3. QED BY <1>1, <1>2 DEF TInv

LEMMA NextTInv ==
  ASSUME TInv, [Next]_vars
  PROVE  TInv'
<1>0. IInv' BY NextInv DEF TInv
<1>1. ASSUME NEW f \in File, Step(f), UNCHANGED wild PROVE TInv'
  BY <1>1, MeasureFrame, MeasuredFrame, ReverseByteFrame, ReverseEndFrame, OopsFrame, GiveFrame,
     MyfdReadReturnFrame, StoreFrame, MyfdWriteReturnFrame DEF Step
<1>2. ASSUME NEW f \in File, Defined(f), UNCHANGED wild PROVE TInv'
  BY <1>1, <1>2, OpenFrame, MyfdReadEnterFrame, MyfdWriteEnterFrame DEF Defined
<1>3. ASSUME NEW f \in File, LeavePage(f) PROVE TInv'
  BY <1>0, <1>3, LeaveFrame DEF LeavePage
<1>4. CASE UNCHANGED vars
  BY <1>0, <1>4, LeaveFrame DEF vars, history
<1>5. QED BY <1>2, <1>3, <1>4 DEF Next, Undefined

LEMMA Content == Spec => []TInv
<1>1. Init => TInv BY InitTInv
<1>2. TInv /\ [Next]_vars => TInv' BY NextTInv
<1>3. QED BY <1>1, <1>2, PTL DEF Spec

\* A write that ran alone from the front of the page leaves its text there, and at most one
\* byte of an older one, which its terminator, stored one byte late, does not reach.
THEOREM StaleByte == Spec => []OneStaleByte
<1>1. TInv => OneStaleByte BY DEF TInv
<1>2. QED BY <1>1, Content, PTL

\* While nobody writes, a read gives no byte that does not belong where it stands, however
\* many reads exchange their buffers under each other: at worst memory never written.
THEOREM NoneIsWrong == Spec => []NoWrongByte
<1>1. TInv => NoWrongByte BY DEF TInv, Given, NoneWrong, NoWrongByte
<1>2. QED BY <1>1, Content, PTL

\* A process whose reads meet neither a write nor another read is given the reversed text.
THEOREM ReversedAlone == Spec => []AloneReversed
<1>1. TInv => AloneReversed BY DEF TInv, Given, AllRight, AloneReversed
<1>2. QED BY <1>1, Content, PTL
=============================================================================

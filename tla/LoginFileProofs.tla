---------------------------- MODULE LoginFileProofs ----------------------------
(***************************************************************************)
(* Proofs about LoginFile, for any number of readers and writers and any   *)
(* lengths.  What makes overlapping reads harmless is that every position  *)
(* a call was given is one up to which the login was given out (Covered):  *)
(* a call that returns late sets the position back, but never to a byte    *)
(* that nobody has.  On id, the lock makes the position exact (Exact).     *)
(***************************************************************************)
EXTENDS LoginFile, TLAPS

\* The login was given out up to the position, and up to any position in use.
Covered ==
  ~moved => /\ \A i \in 0 .. pos - 1 : i \in got
            /\ \A p \in Proc : call[p] # Idle => \A i \in 0 .. call[p].start - 1 : i \in got

\* One call at a time on id, which knows the position, and nothing beyond it is out.
Exact ==
  dev = "id" =>
    /\ ~again /\ \A i \in got : i < pos
    /\ \A p \in Proc : call[p] # Idle =>
         call[p].start = pos /\ \A q \in Proc : call[q] # Idle => q = p

IInv == TypeOK /\ Covered /\ Exact

-----------------------------------------------------------------------------
\* What a read or an answer copies is an interval of the string, from the position on.
LEMMA AvailableBound ==
  ASSUME NEW size \in Nat, NEW start \in Nat, NEW count \in Nat
  PROVE  /\ Available(size, start, count) \in 0 .. count
         /\ Available(size, start, count) > 0 => start + Available(size, start, count) <= size
BY DEF Available, Least

\* What the two reads return for k of n bytes copied: an error, or the number of the
\* bytes given.
LEMMA ReadResult ==
  ASSUME NEW n \in Nat, NEW k \in 0 .. n
  PROVE  /\ SimpleRead(n, k) \in {k, EFAULT}
         /\ IdRead(n, k) \in {k, EFAULT}
         /\ EFAULT < 0 /\ EINVAL < 0
BY DEF SimpleRead, IdRead, EFAULT, EINVAL

\* The parameters of a call that was entered.
LEMMA CallTypes ==
  ASSUME TypeOK, NEW p \in Proc, call[p] # Idle
  PROVE  call[p] \in Calls /\ call[p].count \in 0 .. MaxCount /\ call[p].start \in 0 .. SuccessLen
BY DEF TypeOK, Calls

LEMMA InitIInv == Init => IInv
<1> SUFFICES ASSUME Init PROVE IInv OBVIOUS
<1>1. pos \in 0 .. SuccessLen /\ call \in [Proc -> Calls \cup {Idle}]
  BY LoginFileAssumption DEF Init
<1>3. TypeOK BY <1>1 DEF Init, TypeOK
<1>2. Covered /\ Exact BY DEF Init, Covered, Exact
<1>4. QED BY <1>2, <1>3 DEF IInv

LEMMA EnterStep ==
  ASSUME IInv, NEW p \in Proc, NEW count \in 0 .. MaxCount, Enter(p, count)
  PROVE  IInv'
<1>0. TypeOK /\ Covered /\ Exact BY DEF IInv
<1>1. call' \in [Proc -> Calls \cup {Idle}]
  BY <1>0, LoginFileAssumption DEF Enter, TypeOK, Calls
<1>2. TypeOK' BY <1>0, <1>1 DEF Enter, TypeOK
<1>3. Covered' BY <1>0 DEF Enter, TypeOK, Covered
<1>4. Exact' BY <1>0 DEF Enter, MayEnter, TypeOK, Exact
<1>5. QED BY <1>2, <1>3, <1>4 DEF IInv

\* A call that leaves nothing behind but its answer.
LEMMA LeaveStep ==
  ASSUME IInv, NEW p \in Proc, Leave(p),
         UNCHANGED <<dev, pos, buf, ended, got, again, moved>>,
         ignored' \in BOOLEAN
  PROVE  IInv'
<1>0. TypeOK /\ Covered /\ Exact BY DEF IInv
<1>1. call' \in [Proc -> Calls \cup {Idle}] BY <1>0 DEF Leave, TypeOK
<1>2. TypeOK' BY <1>0, <1>1 DEF TypeOK
<1>3. Covered' BY <1>0 DEF Leave, TypeOK, Covered
<1>4. Exact' BY <1>0 DEF Leave, TypeOK, Exact
<1>5. QED BY <1>2, <1>3, <1>4 DEF IInv

LEMMA AnswerTypes ==
  ASSUME TypeOK, NEW w \in Writer, NEW ret, Answer(w, ret)
  PROVE  ignored' \in BOOLEAN
BY DEF Answer, TypeOK

LEMMA ReadReturnStep ==
  ASSUME IInv, NEW r \in Reader, ReadReturn(r)
  PROVE  IInv'
<1> DEFINE start == call[r].start
           n == Available(LoginLen, start, call[r].count)
           Ret(k) == IF dev = "misc" THEN SimpleRead(n, k) ELSE IdRead(n, k)
           Given(k) == IF Ret(k) < 0 THEN {} ELSE start .. start + k - 1
<1>0. TypeOK /\ Covered /\ Exact BY DEF IInv
<1>1. PICK k \in 0 .. n :
        /\ Store(start, Ret(k))
        /\ ended' = IF Ret(k) <= 0 THEN ended \cup {r} ELSE ended
        /\ got' = got \cup Given(k)
        /\ again' = (again \/ Given(k) \cap got # {})
  BY DEF ReadReturn
<1>2. call[r] # Idle /\ call' = [call EXCEPT ![r] = Idle] /\ UNCHANGED <<dev, buf, moved, ignored>>
  BY DEF ReadReturn, Leave
<1>3. r \in Proc /\ start \in 0 .. SuccessLen /\ start \in Nat /\ call[r].count \in Nat
  BY <1>0, <1>2, CallTypes, LoginFileAssumption DEF Proc
<1>4. n \in Nat /\ k \in 0 .. n /\ (n > 0 => start + n <= LoginLen)
  <2>1. LoginLen \in Nat BY LoginFileAssumption
  <2>2. n \in 0 .. call[r].count /\ (n > 0 => start + n <= LoginLen) BY <1>3, <2>1, AvailableBound
  <2>3. QED BY <1>1, <1>3, <2>2
<1>5. Ret(k) \in {k, EFAULT} /\ EFAULT < 0 BY <1>4, ReadResult
<1> HIDE DEF n, Ret
<1>6. CASE Ret(k) = EFAULT
  <2>1. pos' = pos BY <1>1, <1>5, <1>6 DEF Store
  <2>2. Given(k) = {} BY <1>5, <1>6
  <2>3. got' = got /\ again' = again BY <1>0, <1>1, <2>2 DEF TypeOK
  <2>4. TypeOK'
    <3>1. call' \in [Proc -> Calls \cup {Idle}] BY <1>0, <1>2 DEF TypeOK
    <3>2. QED BY <1>0, <1>1, <1>2, <2>1, <2>3, <3>1 DEF TypeOK
  <2>5. Covered' BY <1>0, <1>2, <2>1, <2>3 DEF Covered, TypeOK
  <2>6. Exact' BY <1>0, <1>2, <2>1, <2>3 DEF Exact, TypeOK
  <2>7. QED BY <2>4, <2>5, <2>6 DEF IInv
<1>7. CASE Ret(k) = k
  <2>1. pos' = start + k /\ got' = got \cup (start .. start + k - 1)
    BY <1>1, <1>3, <1>4, <1>7 DEF Store, NextPos
  <2>2. TypeOK'
    <3>1. call' \in [Proc -> Calls \cup {Idle}] BY <1>0, <1>2 DEF TypeOK
    <3>2. pos' \in 0 .. SuccessLen /\ start .. start + k - 1 \subseteq 0 .. LoginLen - 1
      BY <1>3, <1>4, <2>1, LoginFileAssumption
    <3>3. got' \subseteq 0 .. LoginLen - 1 BY <1>0, <2>1, <3>2 DEF TypeOK
    <3>4. ended' \subseteq Reader /\ again' \in BOOLEAN BY <1>0, <1>1 DEF TypeOK
    <3>5. QED BY <1>0, <1>2, <3>1, <3>2, <3>3, <3>4 DEF TypeOK
  <2>3. Covered'
    <3>1. ASSUME ~moved PROVE \A i \in 0 .. start - 1 : i \in got
      BY <1>0, <1>2, <1>3, <3>1 DEF Covered
    <3>2. ASSUME ~moved PROVE \A i \in 0 .. pos' - 1 : i \in got'
      BY <1>3, <1>4, <2>1, <3>1, <3>2
    <3>3. QED BY <1>0, <1>2, <2>1, <3>2 DEF Covered, TypeOK
  <2>4. Exact'
    <3>1. SUFFICES ASSUME dev = "id" PROVE Exact' BY <1>2 DEF Exact
    <3>2. start = pos /\ ~again /\ \A i \in got : i < pos BY <1>0, <1>2, <1>3, <3>1 DEF Exact
    <3>3. got \subseteq Nat
      <4>1. got \subseteq 0 .. LoginLen - 1 BY <1>0 DEF TypeOK
      <4>2. QED BY <4>1
    <3>4. (start .. start + k - 1) \cap got = {} BY <1>3, <1>4, <3>2, <3>3
    <3>5. ~again' BY <1>1, <1>4, <1>7, <3>2, <3>4
    <3>6. \A i \in got' : i < pos'
      <4> SUFFICES ASSUME NEW i \in got' PROVE i < start + k BY <2>1
      <4>1. CASE i \in got BY <1>3, <1>4, <3>2, <3>3, <4>1
      <4>2. CASE i \in start .. start + k - 1 BY <1>3, <1>4, <4>2
      <4>3. QED BY <2>1, <4>1, <4>2
    <3>7. \A p \in Proc : call'[p] = Idle BY <1>0, <1>2, <1>3, <3>1 DEF Exact, TypeOK
    <3>8. QED BY <3>5, <3>6, <3>7 DEF Exact
  <2>5. QED BY <2>2, <2>3, <2>4 DEF IInv
<1>8. QED BY <1>5, <1>6, <1>7

LEMMA FortytwoWriteMatchStep ==
  ASSUME IInv, NEW w \in Writer, FortytwoWriteMatch(w)
  PROVE  IInv'
<1> DEFINE start == call[w].start
           n == Available(SuccessLen, start, call[w].count)
<1>0. TypeOK /\ Covered /\ Exact BY DEF IInv
<1>1. PICK k \in 0 .. n :
        /\ Store(start, SimpleRead(n, k))
        /\ buf' = [buf EXCEPT ![w] = IF k > 0 THEN "other" ELSE @]
        /\ moved' = (moved \/ k > 0)
        /\ Answer(w, SimpleRead(n, k))
  BY DEF FortytwoWriteMatch
<1>2. call[w] # Idle /\ dev = "misc" /\ call' = [call EXCEPT ![w] = Idle]
      /\ UNCHANGED <<dev, ended, got, again>>
  BY DEF FortytwoWriteMatch, Leave
<1>3. w \in Proc /\ start \in 0 .. SuccessLen /\ start \in Nat /\ call[w].count \in Nat
  BY <1>0, <1>2, CallTypes, LoginFileAssumption DEF Proc
<1>4. n \in Nat /\ k \in 0 .. n /\ (n > 0 => start + n <= SuccessLen)
  <2>1. SuccessLen \in Nat BY LoginFileAssumption
  <2>2. n \in 0 .. call[w].count /\ (n > 0 => start + n <= SuccessLen) BY <1>3, <2>1, AvailableBound
  <2>3. QED BY <1>1, <1>3, <2>2
<1>5. SimpleRead(n, k) \in {k, EFAULT} /\ EFAULT < 0 BY <1>4, ReadResult
<1> HIDE DEF n
<1>6. pos' \in {pos, start + k}
  BY <1>1, <1>4, <1>5 DEF Store, NextPos
<1>7. TypeOK'
  <2>1. call' \in [Proc -> Calls \cup {Idle}] BY <1>0, <1>2 DEF TypeOK
  <2>2. pos' \in 0 .. SuccessLen
    <3>1. start + k \in 0 .. SuccessLen BY <1>3, <1>4, LoginFileAssumption
    <3>2. QED BY <1>0, <1>6, <3>1 DEF TypeOK
  <2>3. ignored' \in BOOLEAN BY <1>0, <1>1, AnswerTypes
  <2>4. buf' \in [Writer -> Text] /\ moved' \in BOOLEAN BY <1>0, <1>1 DEF TypeOK, Text
  <2>5. QED BY <1>0, <1>2, <2>1, <2>2, <2>3, <2>4 DEF TypeOK
<1>8. Covered'
  <2>0. ~moved' => ~moved /\ k = 0
    <3>1. moved' = (moved \/ k > 0) BY <1>1
    <3>2. ~moved' => ~moved /\ ~(k > 0) BY <3>1, Zenon
    <3>3. ~(k > 0) => k = 0 BY <1>4
    <3>4. QED BY <3>2, <3>3
  <2>1. SUFFICES ASSUME ~moved, k = 0 PROVE Covered' BY <2>0 DEF Covered
  <2>2. pos' \in {pos, start} BY <1>3, <1>6, <2>1
  <2>3. \A i \in 0 .. start - 1 : i \in got BY <1>0, <1>2, <1>3, <2>1 DEF Covered
  <2>4. QED BY <1>0, <1>2, <2>1, <2>2, <2>3 DEF Covered, TypeOK
<1>9. Exact' BY <1>2 DEF Exact
<1>10. QED BY <1>7, <1>8, <1>9 DEF IInv

\* Every step of a reader or a writer preserves the invariant.
LEMMA StepIInv == IInv /\ [Next]_vars => IInv'
<1> SUFFICES ASSUME IInv, [Next]_vars PROVE IInv' OBVIOUS
<1>0. TypeOK /\ Covered /\ Exact BY DEF IInv
<1>1. ASSUME NEW r \in Reader, ReadCall(r) PROVE IInv'
  BY <1>1, EnterStep, LoginFileAssumption DEF ReadCall, Proc
<1>2. ASSUME NEW r \in Reader, ReadReturn(r) PROVE IInv' BY <1>2, ReadReturnStep
<1>3. ASSUME NEW w \in Writer, NEW count \in 0 .. MaxCount, WriteCall(w, count) PROVE IInv'
  BY <1>3, EnterStep DEF WriteCall, Proc
<1>4. ASSUME NEW w \in Writer, WriteRefused(w) PROVE IInv'
  BY <1>0, <1>4, LeaveStep, AnswerTypes DEF WriteRefused, Proc
<1>5. ASSUME NEW w \in Writer, FortytwoWriteMismatch(w) PROVE IInv'
  BY <1>0, <1>5, LeaveStep, AnswerTypes DEF FortytwoWriteMismatch, Proc
<1>6. ASSUME NEW w \in Writer, FortytwoWriteMatch(w) PROVE IInv'
  BY <1>6, FortytwoWriteMatchStep
<1>7. ASSUME NEW w \in Writer, IdWrite(w) PROVE IInv'
  BY <1>0, <1>7, LeaveStep, AnswerTypes DEF IdWrite, Proc
<1>8. ASSUME NEW w \in Writer, NEW text \in Text, Fill(w, text) PROVE IInv'
  BY <1>0, <1>8 DEF Fill, IInv, TypeOK, Covered, Exact
<1>9. CASE UNCHANGED vars BY <1>0, <1>9 DEF vars, IInv, TypeOK, Covered, Exact
<1>10. QED
  BY <1>1, <1>2, <1>3, <1>4, <1>5, <1>6, <1>7, <1>8, <1>9 DEF Next, WriteReturn

\* What reads and writes of the login files can reach satisfies the invariant.
THEOREM Invariance == Spec => []IInv
BY InitIInv, StepIInv, PTL DEF Spec

\* In particular the position never leaves the longer of the two strings.
THEOREM TypeCorrect == Spec => []TypeOK
<1>1. IInv => TypeOK BY DEF IInv
<1>2. QED BY <1>1, Invariance, PTL

\* Overlapping and partial reads of misc_device.c and debugfs.c skip no byte.
THEOREM NothingSkipped == Spec => []NoByteSkipped
<1>1. IInv => NoByteSkipped BY DEF IInv, Covered, NoByteSkipped
<1>2. QED BY <1>1, Invariance, PTL

\* id_read gives no byte twice.
THEOREM GivenOnce == Spec => []IdGivesOnce
<1>1. IInv => IdGivesOnce BY DEF IInv, Exact, IdGivesOnce
<1>2. QED BY <1>1, Invariance, PTL
=============================================================================

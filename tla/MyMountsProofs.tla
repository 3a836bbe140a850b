---------------------------- MODULE MyMountsProofs ----------------------------
(***************************************************************************)
(* Proofs about MyMounts, for any mounts, lines, buffer size and reads:    *)
(* its type, that mounts which go away make a listing print no line twice, *)
(* that mounts which come make it miss none, and that the listing of a     *)
(* tree that stands still is read exactly.                                 *)
(*                                                                         *)
(* The position of /proc/mymounts is an index, so the proofs count.  For   *)
(* the first property no mount of the tree whose line was handed out is    *)
(* at or after the position (Ranked); for the second none that is still to *)
(* come is before it (RestMisses).  During a walk the same is said of the  *)
(* mount pointer the handler holds, and for mymounts_start of the number   *)
(* of listed mounts between that pointer and the end of what was, or the   *)
(* start of what was not, handed out.  For the third a position is also an *)
(* offset, the length of the lines before it (From), and the buffer ends   *)
(* at the offset of the position (BufferStands).                           *)
(*                                                                         *)
(* A change of the tree inside an rb_next may send the walk anywhere; the  *)
(* history since.torn records it, and what the walk still promises then is *)
(* in the first and the last theorem alone.  Turned says how the changes   *)
(* since the walk's last step (moved) and those since the position was     *)
(* computed (since) go together: without the one kind no step is torn into *)
(* freed memory, without the other none is torn at all.                    *)
(***************************************************************************)
EXTENDS MyMounts, SequenceTheorems, FiniteSetTheorems, FunctionTheorems, TLAPS

\* The type of the seq_file is never opaque.
USE DEF SeqFile

LEMMA Constants ==
  /\ Mount \subseteq Nat \ {0} /\ IsFiniteSet(Mount)
  /\ Root \in Mount /\ \A m \in Mount : Root <= m
  /\ LineLen \in [Mount -> Nat \ {0}]
  /\ BufSize \in Nat \ {0} /\ MaxRead \in Nat \ {0}
BY MyMountsAssumption DEF NULL

-----------------------------------------------------------------------------
(* What the handlers and the calls hand each other, beyond its type.       *)

Idle == {"user", "resume", "done"}

Handed ==
  /\ pc \in {"show", "next"} => p \in Mount
  /\ phase = "none" <=> pc \in Idle
  /\ phase = "traverse" => at <= call.pos /\ ~since.zero /\ pc # "copy"
  /\ phase = "first" => pc \in {"start", "show"} /\ seq.left = <<>>
  /\ phase = "fill" => pc \in {"show", "next", "advance", "copy"} /\ seq.left # <<>>
  /\ pc = "start" => seq.left = <<>>
  /\ pc = "copy" => phase = "fill"
  /\ pc = "user" => at = 0
  /\ pc \in {"user", "resume"} \/ phase = "traverse" => got = <<>>
  /\ got \in Seq(Bytes)

IInv == TypeOK /\ Handed

LEMMA ByteForm ==
  /\ \A m \in Mount, j \in Nat : j \in 1 .. LineLen[m] => <<m, j>> \in Bytes
  /\ \A b \in Bytes : \E m \in Mount, j \in Nat : j \in 1 .. LineLen[m] /\ b = <<m, j>>
<1>1. \A m \in Mount : \A j \in 1 .. LineLen[m] : Line(m)[j] = <<m, j>> BY DEF Line
<1>2. \A m \in Mount : LineLen[m] \in Nat BY Constants
<1>3. ASSUME NEW m \in Mount, NEW j \in Nat, j \in 1 .. LineLen[m] PROVE <<m, j>> \in Bytes
  <2>1. Line(m)[j] \in {Line(m)[k] : k \in 1 .. LineLen[m]} BY <1>3
  <2>2. Line(m)[j] = <<m, j>> BY <1>1, <1>3
  <2>3. QED BY <2>1, <2>2 DEF Bytes
<1>4. ASSUME NEW b \in Bytes PROVE \E m \in Mount, j \in Nat : j \in 1 .. LineLen[m] /\ b = <<m, j>>
  <2>1. PICK m \in Mount : b \in {Line(m)[j] : j \in 1 .. LineLen[m]} BY DEF Bytes
  <2>2. PICK j \in 1 .. LineLen[m] : b = Line(m)[j] BY <2>1
  <2>3. j \in Nat /\ b = <<m, j>> BY <1>1, <1>2, <2>2
  <2>4. QED BY <2>2, <2>3
<1>5. QED BY <1>3, <1>4

LEMMA LineBytes ==
  ASSUME NEW m \in Mount
  PROVE  /\ Line(m) \in Seq(Bytes) /\ Len(Line(m)) = LineLen[m]
         /\ \A j \in 1 .. LineLen[m] : Line(m)[j] = <<m, j>>
<1>1. LineLen[m] \in Nat BY Constants
<1>2. \A j \in 1 .. LineLen[m] : <<m, j>> \in Bytes BY <1>1, ByteForm
<1>3. Line(m) \in [1 .. LineLen[m] -> Bytes] BY <1>2 DEF Line
<1>4. QED BY <1>1, <1>3, SeqDef DEF Line

\* The node a walk starts on, and the node after another, are mounts or none.
LEMMA Nodes ==
  ASSUME TypeOK
  PROVE  /\ FirstNode \subseteq Mount \cup {NULL}
         /\ \A m : RbNext(m) \subseteq Mount \cup {NULL}
         /\ RbNextTorn \subseteq Mount \cup {NULL}
BY DEF TypeOK, FirstNode, RbNext, RbNextTorn

Since == [zero : BOOLEAN, late : BOOLEAN, gained : BOOLEAN, lost : BOOLEAN, torn : BOOLEAN]

\* A step of a walk ends on a mount or none, and unless a change of the tree fell into
\* it, it is the one that the next node of the tree gives.
LEMMA Steps ==
  ASSUME TypeOK, Step
  PROVE  /\ p' \in Mount \cup {NULL} /\ wild' \in BOOLEAN /\ since' \in Since
         /\ since' = [since EXCEPT !.torn = since'.torn]
         /\ ~since'.torn => p' \in RbNext(p) /\ Deref(p) /\ since' = since
<1>1. CASE p' \in RbNext(p) /\ Deref(p) /\ UNCHANGED since
  BY <1>1, Nodes DEF TypeOK, Deref, Since
<1>2. CASE /\ moved # "no"
           /\ p' \in RbNextTorn
           /\ Deref(p) \/ (moved = "shrunk" /\ wild' = TRUE)
           /\ since' = [since EXCEPT !.torn = TRUE]
  <2>1. since' \in Since /\ since'.torn = TRUE BY <1>2 DEF TypeOK, Since
  <2>2. wild' \in BOOLEAN BY <1>2 DEF TypeOK, Deref
  <2>3. QED BY <1>2, <2>1, <2>2, Nodes
<1>3. QED BY <1>1, <1>2 DEF Step

LEMMA Halves ==
  ASSUME NEW S, NEW s \in Seq(S), NEW n \in 0 .. Len(s)
  PROVE  /\ SubSeq(s, 1, n) \in Seq(S) /\ Len(SubSeq(s, 1, n)) = n
         /\ \A j \in 1 .. n : SubSeq(s, 1, n)[j] = s[j]
         /\ SubSeq(s, n + 1, Len(s)) \in Seq(S) /\ Len(SubSeq(s, n + 1, Len(s))) = Len(s) - n
         /\ \A j \in 1 .. Len(s) - n : SubSeq(s, n + 1, Len(s))[j] = s[n + j]
<1>1. Len(s) \in Nat /\ \A j \in 1 .. Len(s) : s[j] \in S BY LenProperties, ElementOfSeq
<1>2. \A j \in 1 .. n : s[j] \in S BY <1>1
<1>3. \A j \in n + 1 .. Len(s) : s[j] \in S BY <1>1
<1>4. /\ SubSeq(s, 1, n) \in Seq(S) /\ Len(SubSeq(s, 1, n)) = n
      /\ \A j \in 1 .. n : SubSeq(s, 1, n)[j] = s[j]
  <2>1. n \in Int /\ 1 \in Int /\ n - 1 + 1 = n OBVIOUS
  <2>2. \A j \in 1 .. n : 1 + j - 1 = j OBVIOUS
  <2>3. /\ SubSeq(s, 1, n) \in Seq(S)
        /\ Len(SubSeq(s, 1, n)) = IF 1 <= n THEN n - 1 + 1 ELSE 0
        /\ \A j \in 1 .. n - 1 + 1 : SubSeq(s, 1, n)[j] = s[1 + j - 1]
    BY <1>2, <2>1, SubSeqProperties
  <2>4. QED BY <2>1, <2>2, <2>3
<1>5. /\ SubSeq(s, n + 1, Len(s)) \in Seq(S) /\ Len(SubSeq(s, n + 1, Len(s))) = Len(s) - n
      /\ \A j \in 1 .. Len(s) - n : SubSeq(s, n + 1, Len(s))[j] = s[n + j]
  <2>1. n + 1 \in Int /\ Len(s) \in Int BY <1>1
  <2>3. /\ SubSeq(s, n + 1, Len(s)) \in Seq(S)
        /\ Len(SubSeq(s, n + 1, Len(s))) = IF n + 1 <= Len(s) THEN Len(s) - (n + 1) + 1 ELSE 0
        /\ \A j \in 1 .. Len(s) - (n + 1) + 1 : SubSeq(s, n + 1, Len(s))[j] = s[n + 1 + j - 1]
    BY <1>3, <2>1, SubSeqProperties
  <2>4. Len(s) - (n + 1) + 1 = Len(s) - n /\ \A j \in 1 .. Len(s) - n : n + 1 + j - 1 = n + j
    BY <1>1
  <2>5. Len(SubSeq(s, n + 1, Len(s))) = Len(s) - n BY <1>1, <2>3
  <2>6. ASSUME NEW j \in 1 .. Len(s) - n
        PROVE  SubSeq(s, n + 1, Len(s))[j] = s[n + j]
    <3>1. j \in 1 .. Len(s) - (n + 1) + 1 /\ n + 1 + j - 1 = n + j BY <1>1, <2>4
    <3>2. QED BY <2>3, <3>1
  <2>7. QED BY <2>3, <2>5, <2>6
<1>6. QED BY <1>4, <1>5

-----------------------------------------------------------------------------
(* Type correctness.                                                       *)

LEMMA InitInv == Init => IInv
<1> SUFFICES ASSUME Init PROVE IInv OBVIOUS
<1>0. <<>> \in Seq(Bytes) /\ Len(<<>>) = 0 BY EmptySeq
<1>1. TypeOK
  <2>1. mounts \subseteq Mount /\ unborn \subseteq Mount \ mounts /\ Root \in mounts
    BY DEF Init
  <2>2. seq \in [index : Nat, left : Seq(Bytes), size : Nat \ {0}]
    BY <1>0, Constants DEF Init, NewSeq
  <2>3. call \in [kind : {"none", "read", "lseek"}, pos : Nat, n : 0 .. MaxRead, good : 0 .. MaxRead]
    BY Constants DEF Init, NoCall
  <2>4. Len(got) <= call.good /\ call.good <= call.n BY <1>0, Constants DEF Init, NoCall
  <2>5. QED BY <2>1, <2>2, <2>3, <2>4 DEF Init, TypeOK
<1>2. Handed BY <1>0, Constants DEF Init, Handed, NoCall, Idle
<1>3. QED BY <1>1, <1>2 DEF IInv

LEMMA MountOneStep ==
  ASSUME IInv, NEW m \in Mount, MountOne(m)
  PROVE  IInv'
<1>1. TypeOK' BY DEF IInv, TypeOK, MountOne
<1>2. Handed' BY DEF IInv, TypeOK, Handed, MountOne, Idle
<1>3. QED BY <1>1, <1>2 DEF IInv

LEMMA UmountStep ==
  ASSUME IInv, NEW m \in Mount, Umount(m)
  PROVE  IInv'
<1>1. TypeOK' BY DEF IInv, TypeOK, Umount, Shrinks
<1>2. Handed' BY DEF IInv, TypeOK, Handed, Umount, Idle
<1>3. QED BY <1>1, <1>2 DEF IInv

LEMMA FreeNamespaceStep ==
  ASSUME IInv, FreeNamespace
  PROVE  IInv'
<1>1. TypeOK' BY DEF IInv, TypeOK, FreeNamespace, Shrinks
<1>2. Handed' BY DEF IInv, TypeOK, Handed, FreeNamespace, Idle
<1>3. QED BY <1>1, <1>2 DEF IInv

LEMMA AnewTypes ==
  ASSUME TypeOK, NEW o \in Nat, Anew(o), UNCHANGED mounts
  PROVE  /\ since' \in Since /\ since'.zero = (o = 0)
         /\ stayed' \subseteq mounts' /\ shown' \subseteq Mount /\ again' \in BOOLEAN
<1>1. stayed' \subseteq mounts' /\ shown' \subseteq Mount /\ again' \in BOOLEAN
  BY DEF TypeOK, Anew
<1>2. \A b : (ns_alive /\ o > b) \in BOOLEAN OBVIOUS
<1>3. since' \in Since /\ since'.zero = (o = 0)
  BY <1>2 DEF TypeOK, Anew, Since
<1>4. QED BY <1>1, <1>3

LEMMA ReadStep ==
  ASSUME IInv, moved' = "no", NEW n \in 1 .. MaxRead, NEW g \in 0 .. n, Read(n, g)
  PROVE  IInv'
<1>0. TypeOK /\ Handed /\ pc = "user" /\ <<>> \in Seq(Bytes)
  BY EmptySeq DEF IInv, Read
<1>1. call' = [kind |-> "read", pos |-> f_pos, n |-> n, good |-> g]
  BY DEF Read
<1>2. n \in 0 .. MaxRead /\ g \in 0 .. MaxRead BY Constants
<1>3. /\ since' \in Since
      /\ stayed' \subseteq mounts' /\ shown' \subseteq Mount /\ again' \in BOOLEAN
  BY <1>0, AnewTypes DEF TypeOK, Read, tree, history, Since
<1>4. seq' \in [index : Nat, left : Seq(Bytes), size : Nat \ {0}]
  BY <1>0 DEF TypeOK, Read
<1>5. call' \in [kind : {"none", "read", "lseek"}, pos : Nat, n : 0 .. MaxRead, good : 0 .. MaxRead]
  BY <1>0, <1>1, <1>2 DEF TypeOK
<1>e. got = <<>> /\ Len(got) = 0 /\ got \in Seq(Bytes) BY <1>0, EmptySeq DEF Handed
<1>c. Len(got') <= call'.good /\ call'.good <= call'.n BY <1>1, <1>e DEF Read
<1>6. TypeOK' BY <1>0, <1>3, <1>4, <1>5, <1>c DEF TypeOK, Read, tree, Since
<1>7. Handed' BY <1>0, <1>1, <1>2, <1>e DEF TypeOK, Handed, Read, tree, Idle
<1>8. QED BY <1>6, <1>7 DEF IInv

LEMMA LseekStep ==
  ASSUME IInv, moved' = "no", NEW o \in Nat, Lseek(o)
  PROVE  IInv'
<1>0. TypeOK /\ Handed /\ pc = "user" /\ <<>> \in Seq(Bytes) /\ got = <<>> /\ Len(<<>>) = 0
  BY EmptySeq DEF IInv, Handed, Lseek
<1>1. call' = [kind |-> "lseek", pos |-> o, n |-> 0, good |-> 0] BY DEF Lseek
<1>2. /\ since' \in Since /\ since'.zero = (o = 0)
      /\ stayed' \subseteq mounts' /\ shown' \subseteq Mount /\ again' \in BOOLEAN
  BY <1>0, AnewTypes DEF Lseek, tree
<1>3. seq' \in [index : Nat, left : Seq(Bytes), size : Nat \ {0}] /\ seq'.left = <<>>
  BY <1>0 DEF TypeOK, Lseek
<1>4. call' \in [kind : {"none", "read", "lseek"}, pos : Nat, n : 0 .. MaxRead, good : 0 .. MaxRead]
  BY <1>1, Constants
<1>5. p' \in Mount \cup {NULL} /\ i' \in Nat /\ wild' \in BOOLEAN
      /\ phase' \in {"none", "traverse"} /\ pc' \in {"resume", "start"}
  <2>0. phase = "none" BY <1>0 DEF Handed, Idle
  <2>1. CASE o = 0 BY <1>0, <2>0, <2>1 DEF TypeOK, Lseek
  <2>2. CASE o # 0 BY <1>0, <2>2, Nodes DEF TypeOK, Lseek, EnterStart
  <2>3. QED BY <2>1, <2>2
<1>c. Len(got') <= call'.good /\ call'.good <= call'.n BY <1>0, <1>1 DEF Lseek
<1>6. TypeOK' BY <1>0, <1>2, <1>3, <1>4, <1>5, <1>c DEF TypeOK, Lseek, tree, Since
<1>7. Handed'
  <2>1. CASE o = 0 BY <1>0, <1>1, <1>3, <2>1 DEF TypeOK, Handed, Lseek, tree, Idle
  <2>2. CASE o # 0
    <3>1. at = 0 BY <1>0 DEF Handed
    <3>2. /\ pc' = "start" /\ phase' = "traverse" /\ at' = 0 /\ got' = <<>>
          /\ call'.pos = o /\ call'.n = 0 /\ call'.good = 0
      BY <1>0, <1>1, <2>2, <3>1 DEF Lseek, EnterStart, tree
    <3>3. ~since'.zero BY <1>2, <2>2
    <3>4. QED BY <1>0, <1>3, <3>2, <3>3 DEF Handed, Idle
  <2>3. QED BY <2>1, <2>2
<1>8. QED BY <1>6, <1>7 DEF IInv

LEMMA ReopenStep ==
  ASSUME IInv, moved' = "no", Reopen
  PROVE  IInv'
<1>0. TypeOK /\ Handed /\ pc = "user" /\ <<>> \in Seq(Bytes) BY EmptySeq DEF IInv, Reopen
<1>1. /\ since' \in Since
      /\ stayed' \subseteq mounts' /\ shown' \subseteq Mount /\ again' \in BOOLEAN
  BY <1>0, AnewTypes DEF Reopen, Opened, tree
<1>2. seq' \in [index : Nat, left : Seq(Bytes), size : Nat \ {0}]
  BY <1>0, Constants DEF Reopen, Opened, NewSeq
<1>3. TypeOK' BY <1>0, <1>1, <1>2 DEF TypeOK, Reopen, Opened, tree, Since
<1>4. Handed' BY <1>0 DEF Handed, Reopen, Idle
<1>5. QED BY <1>3, <1>4 DEF IInv

LEMMA StartPassesStep ==
  ASSUME IInv, moved' = "no", StartPasses
  PROVE  IInv'
<1>0. TypeOK /\ Handed BY DEF IInv
<1>1. p' \in Mount \cup {NULL} /\ i' \in Nat /\ wild' \in BOOLEAN
      /\ since' \in Since /\ since'.zero = since.zero
  BY <1>0, Steps DEF TypeOK, StartPasses, Since
<1>2. TypeOK' BY <1>0, <1>1 DEF TypeOK, StartPasses, tree, Since
<1>3. Handed' BY <1>0, <1>1 DEF Handed, StartPasses, Idle
<1>4. QED BY <1>2, <1>3 DEF IInv

LEMMA StartFindsStep ==
  ASSUME IInv, moved' = "no", StartFinds
  PROVE  IInv'
<1>0. TypeOK /\ Handed BY DEF IInv
<1>2. TypeOK' BY <1>0 DEF TypeOK, StartFinds, Deref, tree, history
<1>3. Handed' BY <1>0 DEF TypeOK, Handed, StartFinds, history, Idle
<1>4. QED BY <1>2, <1>3 DEF IInv

LEMMA StartEndsStep ==
  ASSUME IInv, moved' = "no", StartEnds
  PROVE  IInv'
<1>0. TypeOK /\ Handed /\ <<>> \in Seq(Bytes) BY EmptySeq DEF IInv
<1>1. seq' \in [index : Nat, left : Seq(Bytes), size : Nat \ {0}] BY <1>0 DEF TypeOK, StartEnds
<1>2. TypeOK' BY <1>0, <1>1 DEF TypeOK, StartEnds, tree, history
<1>3. Handed' BY <1>0 DEF Handed, StartEnds, history, Idle
<1>4. QED BY <1>2, <1>3 DEF IInv

\* The second half of a sequence that was put together.
LEMMA Appended ==
  ASSUME NEW S, NEW s \in Seq(S), NEW t \in Seq(S), NEW j \in 1 .. Len(t)
  PROVE  (s \o t)[Len(s) + j] = t[j]
<1>1. Len(s) \in Nat /\ Len(t) \in Nat BY LenProperties
<1>2. \A k \in 1 .. Len(s) + Len(t) :
        (s \o t)[k] = IF k <= Len(s) THEN s[k] ELSE t[k - Len(s)]
  BY ConcatProperties
<1>3. ASSUME NEW k, k = Len(s) + j PROVE (s \o t)[k] = t[j]
  <2>1. k \in 1 .. Len(s) + Len(t) /\ ~(k <= Len(s)) /\ k - Len(s) = j BY <1>1, <1>3
  <2>2. (s \o t)[k] = t[k - Len(s)] BY <1>2, <2>1
  <2>3. QED BY <2>1, <2>2
<1>4. QED BY <1>3

LEMMA ShownIs ==
  ASSUME IInv, pc = "show"
  PROVE  /\ Shown \in Seq(Bytes) /\ Len(Shown) = Len(seq.left) + LineLen[p]
         /\ \A j \in 1 .. Len(seq.left) : Shown[j] = seq.left[j]
         /\ \A j \in 1 .. LineLen[p] : Shown[Len(seq.left) + j] = <<p, j>>
         /\ Shown # <<>> /\ Len(seq.left) \in Nat
<1>0. p \in Mount /\ seq.left \in Seq(Bytes) BY DEF IInv, TypeOK, Handed
<1>1. Line(p) \in Seq(Bytes) /\ Len(Line(p)) = LineLen[p] /\ LineLen[p] \in Nat \ {0}
      /\ \A j \in 1 .. LineLen[p] : Line(p)[j] = <<p, j>>
  BY <1>0, LineBytes, Constants
<1>2. Len(seq.left) \in Nat BY <1>0, LenProperties
<1>3. /\ Shown \in Seq(Bytes) /\ Len(Shown) = Len(seq.left) + Len(Line(p))
      /\ \A j \in 1 .. Len(seq.left) + Len(Line(p)) :
           Shown[j] = IF j <= Len(seq.left) THEN seq.left[j] ELSE Line(p)[j - Len(seq.left)]
  BY <1>0, <1>1, ConcatProperties DEF Shown
<1>4. \A j \in 1 .. Len(seq.left) : Shown[j] = seq.left[j] BY <1>1, <1>2, <1>3
<1>5. ASSUME NEW j \in 1 .. LineLen[p] PROVE Shown[Len(seq.left) + j] = <<p, j>>
  <2>1. Shown[Len(seq.left) + j] = Line(p)[j] BY <1>0, <1>1, Appended DEF Shown
  <2>2. QED BY <1>1, <2>1
<1>6. Shown # <<>> BY <1>1, <1>2, <1>3, EmptySeq
<1>7. QED BY <1>1, <1>2, <1>3, <1>4, <1>5, <1>6

LEMMA ShowStep ==
  ASSUME IInv, moved' = "no", Show
  PROVE  IInv'
<1>0. TypeOK /\ Handed BY DEF IInv
<1>1. Shown \in Seq(Bytes) /\ Shown # <<>> BY ShownIs DEF Show
<1>2. seq' \in [index : Nat, left : Seq(Bytes), size : Nat \ {0}] /\ seq'.left = Shown
  BY <1>0, <1>1 DEF TypeOK, Show
<1>3. TypeOK' BY <1>0, <1>2 DEF TypeOK, Show, Deref, tree, history
<1>4. Handed' BY <1>0, <1>1, <1>2 DEF Handed, Show, history, Idle
<1>5. QED BY <1>3, <1>4 DEF IInv

LEMMA ShowOverflowsStep ==
  ASSUME IInv, moved' = "no", ShowOverflows
  PROVE  IInv'
<1>0. TypeOK /\ Handed /\ pc = "show" /\ <<>> \in Seq(Bytes) BY EmptySeq DEF IInv, ShowOverflows
<1>1. CASE /\ phase \in {"traverse", "first"}
           /\ seq' = [seq EXCEPT !.size = 2 * @, !.left = <<>>,
                                 !.index = IF phase = "traverse" THEN 0 ELSE @]
           /\ at' = 0
           /\ pc' = "start" /\ i' = 0
           /\ p' \in FirstNode
           /\ wild' = (wild \/ ~ns_alive \/ p \notin mounts)
  <2>1. seq' \in [index : Nat, left : Seq(Bytes), size : Nat \ {0}] /\ seq'.left = <<>>
    <3>1. /\ seq.index \in Nat /\ seq.size \in Nat \ {0} /\ 2 * seq.size \in Nat \ {0}
          /\ DOMAIN seq = {"index", "left", "size"}
      BY <1>0 DEF TypeOK
    <3>2. seq' = [index |-> IF phase = "traverse" THEN 0 ELSE seq.index,
                  left |-> <<>>, size |-> 2 * seq.size]
      BY <1>0, <1>1 DEF TypeOK
    <3>3. QED BY <1>0, <3>1, <3>2
  <2>2. p' \in Mount \cup {NULL} BY <1>0, <1>1, Nodes
  <2>3. TypeOK' BY <1>0, <1>1, <2>1, <2>2 DEF TypeOK, ShowOverflows, tree, history
  <2>4. Handed' BY <1>0, <1>1, <2>1 DEF TypeOK, Handed, ShowOverflows, history, Idle
  <2>5. QED BY <2>3, <2>4 DEF IInv
<1>2. CASE /\ phase = "fill"
           /\ pc' = "copy"
           /\ Deref(p)
           /\ UNCHANGED <<seq, at, p, i>>
  <2>1. TypeOK' BY <1>0, <1>2 DEF TypeOK, ShowOverflows, Deref, tree, history
  <2>2. Handed' BY <1>0, <1>2 DEF Handed, ShowOverflows, history, Idle
  <2>3. QED BY <2>1, <2>2 DEF IInv
<1>3. QED BY <1>1, <1>2 DEF ShowOverflows

LEMMA NextStepsStep ==
  ASSUME IInv, moved' = "no", NextSteps
  PROVE  IInv'
<1>0. TypeOK /\ Handed BY DEF IInv
<1>1. p' \in Mount \cup {NULL} /\ wild' \in BOOLEAN
      /\ since' \in Since /\ since'.zero = since.zero
  BY <1>0, Steps DEF TypeOK, NextSteps, Since
<1>2. TypeOK' BY <1>0, <1>1 DEF TypeOK, NextSteps, tree, Since
<1>3. Handed' BY <1>0, <1>1 DEF Handed, NextSteps, Idle
<1>4. QED BY <1>2, <1>3 DEF IInv

LEMMA NextInFillStep ==
  ASSUME IInv, moved' = "no", NextInFill
  PROVE  IInv'
<1>0. TypeOK /\ Handed BY DEF IInv
<1>1. /\ seq' \in [index : Nat, left : Seq(Bytes), size : Nat \ {0}]
      /\ seq'.left = seq.left /\ seq'.index = seq.index + 1
  BY <1>0 DEF TypeOK, NextInFill, NextIndex
<1>2. pc' \in {"copy", "show"} /\ (pc' = "show" => p # NULL) BY DEF NextInFill
<1>3. TypeOK' BY <1>0, <1>1, <1>2 DEF TypeOK, NextInFill, tree, history
<1>4. Handed' BY <1>0, <1>1, <1>2 DEF TypeOK, Handed, NextInFill, history, Idle
<1>5. QED BY <1>3, <1>4 DEF IInv

LEMMA NextInTraverseStep ==
  ASSUME IInv, moved' = "no", NextInTraverse
  PROVE  IInv'
<1> DEFINE after == at + Len(seq.left)
<1>0. TypeOK /\ Handed /\ pc = "advance" /\ phase = "traverse" /\ <<>> \in Seq(Bytes)
  BY EmptySeq DEF IInv, NextInTraverse, NextReturns
<1>1. seq.left \in Seq(Bytes) /\ Len(seq.left) \in Nat /\ at \in Nat /\ call.pos \in Nat
      /\ at <= call.pos /\ after \in Nat
  BY <1>0, LenProperties DEF TypeOK, Handed
<1>2. after > call.pos => SubSeq(seq.left, call.pos - at + 1, Len(seq.left)) \in Seq(Bytes)
  <2>1. after > call.pos => call.pos - at \in 0 .. Len(seq.left) BY <1>1
  <2>2. QED BY <1>1, <2>1, Halves
<1>3. seq' \in [index : Nat, left : Seq(Bytes), size : Nat \ {0}]
  <2>1. NextIndex \in Nat BY <1>0 DEF TypeOK, NextIndex
  <2>2. seq' = [seq EXCEPT !.index = NextIndex,
                           !.left = IF after > call.pos
                                    THEN SubSeq(seq.left, call.pos - at + 1, Len(seq.left))
                                    ELSE <<>>]
    BY <1>0 DEF NextInTraverse, TypeOK
  <2>3. (IF after > call.pos THEN SubSeq(seq.left, call.pos - at + 1, Len(seq.left)) ELSE <<>>)
          \in Seq(Bytes)
    BY <1>0, <1>2
  <2> HIDE DEF after
  <2>4. QED BY <1>0, <2>1, <2>2, <2>3 DEF TypeOK
<1>4. at' \in Nat /\ at' <= call.pos BY <1>1 DEF NextInTraverse
<1>5. /\ pc' \in {"resume", "show"} /\ (pc' = "show" => p # NULL)
      /\ phase' = IF pc' = "resume" THEN "none" ELSE "traverse"
  BY <1>0 DEF NextInTraverse
<1>6. TypeOK' BY <1>0, <1>3, <1>4, <1>5 DEF TypeOK, NextInTraverse, tree, history
<1>7. Handed' BY <1>0, <1>4, <1>5 DEF TypeOK, Handed, NextInTraverse, history, Idle
<1>8. QED BY <1>6, <1>7 DEF IInv

LEMMA LeastOfThree ==
  ASSUME NEW l \in Nat, NEW n \in Nat, NEW c \in Nat, NEW g \in Nat, g <= c, c <= n
  PROVE  /\ Least(l, Least(n, c) - g) \in 0 .. l
         /\ g + Least(l, Least(n, c) - g) <= c
<1>1. Least(n, c) = c BY DEF Least
<1>2. c - g \in Nat /\ g + (c - g) = c OBVIOUS
<1>3. CASE l < c - g BY <1>1, <1>2, <1>3 DEF Least
<1>4. CASE ~(l < c - g) BY <1>1, <1>2, <1>4 DEF Least
<1>5. QED BY <1>3, <1>4

\* What copy_to_iter takes.
LEMMA TakenIs ==
  ASSUME IInv
  PROVE  /\ Taken \in 0 .. Len(seq.left) /\ Len(seq.left) \in Nat
         /\ Len(got) + Taken <= call.good \/ Taken = 0
         /\ Len(got) \in Nat
<1>1. Len(seq.left) \in Nat /\ Len(got) \in Nat
  BY LenProperties DEF IInv, TypeOK, Handed
<1>2. call.n \in Nat /\ call.good \in Nat /\ call.good <= call.n /\ Len(got) <= call.good
  BY Constants DEF IInv, TypeOK, Handed
<1>3. QED BY <1>1, <1>2, LeastOfThree DEF Taken

LEMMA CopyOutIs ==
  ASSUME IInv, CopyOut
  PROVE  /\ seq'.left \in Seq(Bytes) /\ seq' = [seq EXCEPT !.left = seq'.left]
         /\ got' \in Seq(Bytes) /\ Len(got') <= call.good
         /\ since' = since /\ stayed' = stayed
         /\ shown' \subseteq Mount /\ again' \in BOOLEAN
         /\ Len(seq'.left) = Len(seq.left) - Taken
         /\ \A j \in 1 .. Len(seq.left) - Taken : seq'.left[j] = seq.left[Taken + j]
         /\ seq.left # <<>> /\ got' = <<>> => seq'.left # <<>>
<1> DEFINE new == SubSeq(seq.left, 1, Taken)
           rest == SubSeq(seq.left, Taken + 1, Len(seq.left))
<1>0. TypeOK /\ Handed BY DEF IInv
<1>1. Taken \in 0 .. Len(seq.left) /\ Len(seq.left) \in Nat /\ Len(got) \in Nat
      /\ (Len(got) + Taken <= call.good \/ Taken = 0)
  BY TakenIs
<1>2. seq.left \in Seq(Bytes) /\ got \in Seq(Bytes) /\ Len(got) <= call.good
  BY <1>0 DEF TypeOK, Handed
<1>3. /\ new \in Seq(Bytes) /\ Len(new) = Taken
      /\ rest \in Seq(Bytes) /\ Len(rest) = Len(seq.left) - Taken
      /\ \A j \in 1 .. Len(seq.left) - Taken : rest[j] = seq.left[Taken + j]
  BY <1>1, <1>2, Halves
<1>4. got' = got \o new /\ seq' = [seq EXCEPT !.left = rest] BY DEF CopyOut
<1>5. got' \in Seq(Bytes) /\ Len(got') = Len(got) + Taken
  BY <1>2, <1>3, <1>4, ConcatProperties
<1>6. Len(got') <= call.good BY <1>1, <1>2, <1>5
<1>7. seq'.left = rest BY <1>0, <1>4 DEF TypeOK
<1>8. seq.left # <<>> /\ got' = <<>> => seq'.left # <<>>
  <2>1. SUFFICES ASSUME seq.left # <<>>, got' = <<>> PROVE seq'.left # <<>> OBVIOUS
  <2>2. Len(got') = 0 BY <2>1, EmptySeq
  <2>0. Len(got) + Taken = 0 BY <1>5, <2>2
  <2>n. Taken \in Nat /\ Len(got) \in Nat BY <1>1
  <2>3. Taken = 0 BY <2>0, <2>n
  <2>4. Len(seq.left) # 0 BY <1>2, <2>1, EmptySeq
  <2>5. Len(rest) # 0 BY <1>1, <1>3, <2>3, <2>4
  <2>6. QED BY <1>7, <2>5, EmptySeq
<1>9. shown' \subseteq Mount /\ again' \in BOOLEAN /\ since' = since /\ stayed' = stayed
  BY <1>0 DEF TypeOK, CopyOut
<1>10. QED BY <1>3, <1>4, <1>5, <1>6, <1>7, <1>8, <1>9

LEMMA CopyLeftoverStep ==
  ASSUME IInv, moved' = "no", CopyLeftover
  PROVE  IInv'
<1>0. TypeOK /\ Handed /\ pc = "resume" BY DEF IInv, CopyLeftover
<1>1. CopyOut BY DEF CopyLeftover
<1>2. /\ seq' \in [index : Nat, left : Seq(Bytes), size : Nat \ {0}]
      /\ got' \in Seq(Bytes) /\ Len(got') <= call.good
      /\ since' = since /\ stayed' = stayed
      /\ shown' \subseteq Mount /\ again' \in BOOLEAN
  BY <1>0, <1>1, CopyOutIs DEF TypeOK
<1>3. Len(got') <= call.good /\ call.good <= call.n BY <1>0, <1>2 DEF TypeOK
<1>4. CASE seq'.left # <<>>
  <2>1. TypeOK' BY <1>0, <1>2, <1>3, <1>4 DEF TypeOK, CopyLeftover, tree
  <2>2. Handed' BY <1>0, <1>2, <1>4 DEF Handed, CopyLeftover, Idle
  <2>3. QED BY <2>1, <2>2 DEF IInv
<1>5. CASE seq'.left = <<>>
  <2>1. p' \in Mount \cup {NULL} /\ i' = 0 /\ wild' \in BOOLEAN /\ phase' = "first" /\ pc' = "start"
    BY <1>0, <1>5, Nodes DEF TypeOK, CopyLeftover, EnterStart
  <2>2. TypeOK' BY <1>0, <1>2, <1>3, <2>1 DEF TypeOK, CopyLeftover, tree
  <2>3. Handed' BY <1>0, <1>2, <1>5, <2>1 DEF Handed, CopyLeftover, Idle
  <2>4. QED BY <2>2, <2>3 DEF IInv
<1>6. QED BY <1>4, <1>5

LEMMA NothingLeftStep ==
  ASSUME IInv, moved' = "no", NothingLeft
  PROVE  IInv'
<1>0. TypeOK /\ Handed BY DEF IInv
<1>1. p' \in Mount \cup {NULL} /\ i' = 0 /\ wild' \in BOOLEAN /\ phase' = "first" /\ pc' = "start"
  BY <1>0, Nodes DEF TypeOK, NothingLeft, EnterStart
<1>2. TypeOK' BY <1>0, <1>1 DEF TypeOK, NothingLeft, tree, history
<1>3. Handed' BY <1>0, <1>1 DEF Handed, NothingLeft, history, Idle
<1>4. QED BY <1>2, <1>3 DEF IInv

LEMMA CopyRecordsStep ==
  ASSUME IInv, moved' = "no", CopyRecords
  PROVE  IInv'
<1>0. TypeOK /\ Handed BY DEF IInv
<1>1. CopyOut BY DEF CopyRecords
<1>2. /\ seq' \in [index : Nat, left : Seq(Bytes), size : Nat \ {0}]
      /\ got' \in Seq(Bytes) /\ Len(got') <= call.good
      /\ since' = since /\ stayed' = stayed
      /\ shown' \subseteq Mount /\ again' \in BOOLEAN
  BY <1>0, <1>1, CopyOutIs DEF TypeOK
<1>3. Len(got') <= call.good /\ call.good <= call.n BY <1>0, <1>2 DEF TypeOK
<1>4. TypeOK' BY <1>0, <1>2, <1>3 DEF TypeOK, CopyRecords, tree
<1>5. Handed' BY <1>0, <1>2 DEF Handed, CopyRecords, Idle
<1>6. QED BY <1>4, <1>5 DEF IInv

LEMMA ReadReturnsStep ==
  ASSUME IInv, moved' = "no", ReadReturns
  PROVE  IInv'
<1>0. TypeOK /\ Handed /\ <<>> \in Seq(Bytes) /\ Len(<<>>) = 0 BY EmptySeq DEF IInv
<1>1. f_pos' \in Nat
  <2>1. Len(got) \in Nat BY <1>0, LenProperties DEF Handed
  <2>2. QED BY <1>0, <2>1 DEF TypeOK, ReadReturns
<1>2. /\ call' \in [kind : {"none", "read", "lseek"}, pos : Nat, n : 0 .. MaxRead, good : 0 .. MaxRead]
      /\ call'.good = 0 /\ call'.n = 0
  BY Constants DEF ReadReturns, NoCall
<1>3. Len(got') = 0 /\ got' = <<>> BY <1>0 DEF ReadReturns
<1>4. TypeOK' BY <1>0, <1>1, <1>2, <1>3, Constants DEF TypeOK, ReadReturns, tree, history
<1>5. Handed' BY <1>0, <1>2, <1>3 DEF Handed, ReadReturns, history, Idle
<1>6. QED BY <1>4, <1>5 DEF IInv

LEMMA LseekReturnsStep ==
  ASSUME IInv, moved' = "no", LseekReturns
  PROVE  IInv'
<1>0. TypeOK /\ Handed /\ got = <<>> /\ Len(got) = 0 BY EmptySeq DEF IInv, Handed, LseekReturns
<1>2. /\ call' \in [kind : {"none", "read", "lseek"}, pos : Nat, n : 0 .. MaxRead, good : 0 .. MaxRead]
      /\ call'.good = 0 /\ call'.n = 0
  BY Constants DEF LseekReturns, NoCall
<1>4. TypeOK' BY <1>0, <1>2, Constants DEF TypeOK, LseekReturns, tree, history
<1>5. Handed' BY <1>0, <1>2 DEF Handed, LseekReturns, history, Idle
<1>6. QED BY <1>4, <1>5 DEF IInv

LEMMA NextInv == IInv /\ [Next]_vars => IInv'
<1> SUFFICES ASSUME IInv, [Next]_vars PROVE IInv' OBVIOUS
<1>1. CASE Call
  <2>1. ASSUME NEW n \in 1 .. MaxRead, NEW g \in 0 .. n, Read(n, g) PROVE IInv'
    BY <1>1, <2>1, ReadStep DEF Call
  <2>2. ASSUME NEW o \in Offset, Lseek(o) PROVE IInv'
    <3>1. o \in Nat BY DEF Offset
    <3>2. QED BY <1>1, <2>2, <3>1, LseekStep DEF Call
  <2>3. QED BY <1>1, <2>1, <2>2, ReopenStep DEF Call
<1>2. CASE Running
  BY <1>2, StartPassesStep, StartFindsStep, StartEndsStep, ShowStep, ShowOverflowsStep,
     NextStepsStep, NextInFillStep, NextInTraverseStep, CopyLeftoverStep, NothingLeftStep,
     CopyRecordsStep, ReadReturnsStep, LseekReturnsStep
  DEF Running
<1>3. CASE Others
  BY <1>3, MountOneStep, UmountStep, FreeNamespaceStep DEF Others
<1>4. CASE UNCHANGED vars
  BY <1>4 DEF vars, IInv, TypeOK, Handed, Idle
<1>5. QED BY <1>1, <1>2, <1>3, <1>4 DEF Next, Undefined

\* The state keeps its type, whatever the mounts, lines and callers: no read copies out
\* more than was asked for, nor more than there is room for.
THEOREM TypeCorrect == Spec => []TypeOK
<1>1. Spec => []IInv BY InitInv, NextInv, PTL DEF Spec
<1>2. IInv => TypeOK BY DEF IInv
<1>3. QED BY <1>1, <1>2, PTL

-----------------------------------------------------------------------------
(* What the history says of the changes a step of the walk may meet.       *)

Turned ==
  /\ moved = "grown" => since.gained
  /\ moved = "shrunk" => since.lost
  /\ since.torn => since.gained \/ since.lost

\* What the steps of a call do to the history: only a step of the walk can tear.
LEMMA RunningSince ==
  ASSUME IInv, Running
  PROVE  since' = since \/ (moved # "no" /\ since' = [since EXCEPT !.torn = TRUE])
<1>1. CASE StartPasses \/ NextSteps BY <1>1 DEF StartPasses, NextSteps, Step
<1>2. CASE ~(StartPasses \/ NextSteps)
  BY <1>2 DEF Running, StartFinds, StartEnds, Show, ShowOverflows, NextInFill, NextInTraverse,
    CopyLeftover, NothingLeft, CopyRecords, CopyOut, ReadReturns, LseekReturns, history
<1>3. QED BY <1>1, <1>2

LEMMA TurnedInit == Init => Turned
BY DEF Init, Turned

LEMMA TurnedNext == IInv /\ Turned /\ [Next]_vars => Turned'
<1> SUFFICES ASSUME IInv, Turned, [Next]_vars PROVE Turned' OBVIOUS
<1>0. since \in Since /\ moved \in {"no", "grown", "shrunk"} BY DEF IInv, TypeOK, Since
<1>1. CASE Call
  <2>1. moved' = "no" BY <1>1 DEF Call
  <2>2. since' = since \/ since'.torn = FALSE
    BY <1>1 DEF Call, Read, Lseek, Reopen, Opened, Anew, history
  <2>3. QED BY <2>1, <2>2 DEF Turned
<1>2. CASE Running
  <2>1. moved' = "no" BY <1>2 DEF Running
  <2>2. since' = since \/ (moved # "no" /\ since' = [since EXCEPT !.torn = TRUE])
    BY <1>2, RunningSince
  <2>3. QED BY <1>0, <2>1, <2>2 DEF Turned, Since
<1>3. CASE Others
  <2>1. ASSUME NEW m \in Mount, MountOne(m) PROVE Turned'
    BY <1>0, <2>1 DEF MountOne, Turned, Since
  <2>2. ASSUME NEW m \in Mount, Umount(m) PROVE Turned'
    BY <1>0, <2>2 DEF Umount, Shrinks, Turned, Since
  <2>3. ASSUME FreeNamespace PROVE Turned'
    BY <1>0, <2>3 DEF FreeNamespace, Shrinks, Turned, Since
  <2>4. QED BY <1>3, <2>1, <2>2, <2>3 DEF Others
<1>4. CASE UNCHANGED vars BY <1>4 DEF vars, Turned
<1>5. QED BY <1>1, <1>2, <1>3, <1>4 DEF Next, Undefined

LEMMA TurnedAlways == Spec => []Turned
<1>1. Spec => []IInv BY InitInv, NextInv, PTL DEF Spec
<1>2. QED BY <1>1, TurnedInit, TurnedNext, PTL DEF Spec

-----------------------------------------------------------------------------
(* Counting the mounts that are listed.                                    *)

Span(T, a, b) == {k \in T : ~Skip(k) /\ a <= k /\ k < b}
Count(T, a, b) == Cardinality(Span(T, a, b))

LEMMA CountType ==
  ASSUME NEW T \in SUBSET Mount, NEW a, NEW b
  PROVE  IsFiniteSet(Span(T, a, b)) /\ Count(T, a, b) \in Nat
<1>1. Span(T, a, b) \in SUBSET Mount BY DEF Span
<1>2. IsFiniteSet(Span(T, a, b)) BY <1>1, Constants, FS_Subset
<1>3. QED BY <1>2, FS_CardinalityType DEF Count

\* Fewer mounts, or a narrower span, count less.
LEMMA CountMonotone ==
  ASSUME NEW T \in SUBSET Mount, NEW S \in SUBSET T,
         NEW a \in Nat, NEW b \in Nat, NEW c \in Nat, NEW d \in Nat, a <= c, d <= b
  PROVE  Count(S, c, d) <= Count(T, a, b)
<1>1. Mount \subseteq Nat BY Constants
<1>2. ASSUME NEW k \in S, ~Skip(k), c <= k, k < d PROVE k \in T /\ a <= k /\ k < b
  BY <1>1, <1>2
<1>3. Span(S, c, d) \subseteq Span(T, a, b) BY <1>2 DEF Span
<1>4. QED BY <1>3, CountType, FS_Subset DEF Count

LEMMA CountNone ==
  ASSUME NEW T \in SUBSET Mount, NEW a \in Nat, NEW b \in Nat,
         \A k \in T : ~(a <= k /\ k < b)
  PROVE  Count(T, a, b) = 0
<1>1. Span(T, a, b) = {} BY DEF Span
<1>2. QED BY <1>1, FS_EmptySet DEF Count

LEMMA CountSome ==
  ASSUME NEW T \in SUBSET Mount, NEW a \in Nat, NEW b \in Nat,
         NEW k \in T, ~Skip(k), a <= k, k < b
  PROVE  Count(T, a, b) >= 1
<1>1. k \in Span(T, a, b) BY DEF Span
<1>2. Count(T, a, b) # 0 BY <1>1, CountType, FS_EmptySet DEF Count
<1>3. QED BY <1>2, CountType

\* Two spans whose elements are the same count the same.
LEMMA CountSame ==
  ASSUME NEW T \in SUBSET Mount, NEW a \in Nat, NEW b \in Nat, NEW c \in Nat, NEW d \in Nat,
         \A k \in T : ~Skip(k) => ((a <= k /\ k < b) <=> (c <= k /\ k < d))
  PROVE  Count(T, a, b) = Count(T, c, d)
<1>1. Span(T, a, b) = Span(T, c, d) BY DEF Span
<1>2. QED BY <1>1 DEF Count

\* One more.
LEMMA CountOneMore ==
  ASSUME NEW T \in SUBSET Mount, NEW a \in Nat, NEW b \in Nat, NEW c \in Nat, NEW d \in Nat,
         NEW q \in T, ~Skip(q), ~(a <= q /\ q < b),
         \A k \in T : ~Skip(k) => ((c <= k /\ k < d) <=> ((a <= k /\ k < b) \/ k = q))
  PROVE  Count(T, c, d) = Count(T, a, b) + 1
<1>1. Span(T, c, d) = Span(T, a, b) \cup {q} BY DEF Span
<1>2. q \notin Span(T, a, b) BY DEF Span
<1>3. QED BY <1>1, <1>2, CountType, FS_AddElement DEF Count

\* One step of the walk: from a mount q of the tree to the node after it, r.
LEMMA Walked ==
  ASSUME TypeOK, NEW q \in mounts, NEW r \in RbNext(q)
  PROVE  /\ r = NULL => \A k \in mounts : k <= q
         /\ r # NULL =>
              /\ r \in mounts /\ q < r /\ \A k \in mounts : k <= q \/ r <= k
              /\ Count(mounts, 0, r) = Count(mounts, 0, q + 1)
              /\ ~Skip(q) => Count(mounts, 0, r) = Count(mounts, 0, q) + 1
              /\ Skip(q) => Count(mounts, 0, r) = Count(mounts, 0, q)
              /\ \A b \in Nat : q < b /\ ~Skip(q) => Count(mounts, q, b) = Count(mounts, r, b) + 1
              /\ \A b \in Nat : Skip(q) => Count(mounts, q, b) = Count(mounts, r, b)
<1>0. mounts \in SUBSET Mount /\ Mount \subseteq Nat \ {0} BY Constants DEF TypeOK
<1> DEFINE after == {k \in mounts : k > q}
<1>1. r \in IF after = {} THEN {NULL} ELSE {k \in after : \A h \in after : k <= h}
  BY DEF RbNext
<1>2. r = NULL => \A k \in mounts : k <= q
  <2>1. CASE after = {} BY <1>0, <2>1
  <2>2. CASE after # {}
    <3>1. r \in mounts BY <1>1, <2>2
    <3>2. QED BY <1>0, <3>1 DEF NULL
  <2>3. QED BY <2>1, <2>2
<1>3. SUFFICES ASSUME r # NULL
      PROVE  /\ r \in mounts /\ q < r /\ \A k \in mounts : k <= q \/ r <= k
             /\ Count(mounts, 0, r) = Count(mounts, 0, q + 1)
             /\ ~Skip(q) => Count(mounts, 0, r) = Count(mounts, 0, q) + 1
             /\ Skip(q) => Count(mounts, 0, r) = Count(mounts, 0, q)
             /\ \A b \in Nat : q < b /\ ~Skip(q) => Count(mounts, q, b) = Count(mounts, r, b) + 1
             /\ \A b \in Nat : Skip(q) => Count(mounts, q, b) = Count(mounts, r, b)
  BY <1>2
<1>4. r \in mounts /\ q < r /\ \A k \in mounts : k <= q \/ r <= k
  <2>1. r \in after /\ \A h \in after : r <= h BY <1>1, <1>3
  <2>2. QED BY <1>0, <2>1
<1> HIDE DEF after
<1>5. q \in Nat /\ r \in Nat /\ mounts \subseteq Nat BY <1>0, <1>4
<1>6. Count(mounts, 0, r) = Count(mounts, 0, q + 1)
  BY <1>0, <1>4, <1>5, CountSame
<1>7. ASSUME ~Skip(q) PROVE Count(mounts, 0, r) = Count(mounts, 0, q) + 1
  <2>1. ~(0 <= q /\ q < q) BY <1>5
  <2>2. \A k \in mounts : ~Skip(k) => ((0 <= k /\ k < r) <=> ((0 <= k /\ k < q) \/ k = q))
    BY <1>4, <1>5
  <2>3. QED BY <1>0, <1>5, <1>7, <2>1, <2>2, CountOneMore
<1>8. ASSUME Skip(q) PROVE Count(mounts, 0, r) = Count(mounts, 0, q)
  <2>1. \A k \in mounts : ~Skip(k) => ((0 <= k /\ k < r) <=> (0 <= k /\ k < q))
    <3> SUFFICES ASSUME NEW k \in mounts, ~Skip(k)
                 PROVE  (0 <= k /\ k < r) <=> (0 <= k /\ k < q) OBVIOUS
    <3>1. k # q BY <1>8
    <3>2. QED BY <1>4, <1>5, <3>1
  <2>2. QED BY <1>0, <1>5, <2>1, CountSame
<1>9. ASSUME NEW b \in Nat, q < b, ~Skip(q) PROVE Count(mounts, q, b) = Count(mounts, r, b) + 1
  <2>1. ~(r <= q /\ q < b) BY <1>4, <1>5
  <2>2. \A k \in mounts : ~Skip(k) => ((q <= k /\ k < b) <=> ((r <= k /\ k < b) \/ k = q))
    BY <1>4, <1>5, <1>9
  <2>3. QED BY <1>0, <1>5, <1>9, <2>1, <2>2, CountOneMore
<1>10. ASSUME NEW b \in Nat, Skip(q) PROVE Count(mounts, q, b) = Count(mounts, r, b)
  <2>1. \A k \in mounts : ~Skip(k) => ((q <= k /\ k < b) <=> (r <= k /\ k < b))
    <3> SUFFICES ASSUME NEW k \in mounts, ~Skip(k)
                 PROVE  (q <= k /\ k < b) <=> (r <= k /\ k < b) OBVIOUS
    <3>1. k # q BY <1>10
    <3>2. QED BY <1>4, <1>5, <3>1
  <2>2. QED BY <1>0, <1>5, <2>1, CountSame
<1>11. QED BY <1>4, <1>6, <1>7, <1>8, <1>9, <1>10

\* The start of a walk.
LEMMA WalkStarts ==
  ASSUME TypeOK, ns_alive, NEW q \in FirstNode
  PROVE  /\ q \in mounts /\ q # NULL /\ \A k \in mounts : q <= k
         /\ Count(mounts, 0, q) = 0
         /\ \A b \in Nat : Count(mounts, q, b) = Count(mounts, 0, b)
<1>0. mounts \in SUBSET Mount /\ Mount \subseteq Nat \ {0} BY Constants DEF TypeOK
<1>1. q \in mounts /\ \A k \in mounts : q <= k BY DEF FirstNode
<1>2. q \in Nat /\ q # NULL /\ mounts \subseteq Nat BY <1>0, <1>1 DEF NULL
<1>3. Count(mounts, 0, q) = 0
  <2>1. \A k \in mounts : ~(0 <= k /\ k < q) BY <1>1, <1>2
  <2>2. QED BY <1>0, <1>2, <2>1, CountNone
<1>4. ASSUME NEW b \in Nat PROVE Count(mounts, q, b) = Count(mounts, 0, b)
  <2>1. \A k \in mounts : ~Skip(k) => ((q <= k /\ k < b) <=> (0 <= k /\ k < b))
    BY <1>1, <1>2
  <2>2. QED BY <1>0, <1>2, <2>1, CountSame
<1>5. QED BY <1>1, <1>2, <1>3, <1>4
-----------------------------------------------------------------------------
(* UnmountingRepeatsNothing.                                               *)

Place == 1 .. Len(seq.left)

\* The buffered bytes are in the order of their mounts, and within a line in its order.
Rising ==
  \A j, k \in Place : j < k =>
    \/ seq.left[j][1] < seq.left[k][1]
    \/ seq.left[j][1] = seq.left[k][1] /\ seq.left[j][2] < seq.left[k][2]

ShownBefore == \A m \in shown, j \in Place : m < seq.left[j][1]

\* The mounts whose lines were delivered, or are buffered in part.
Passed == shown \cup {seq.left[j][1] : j \in Place}

\* The position once mymounts_next, where it runs, has moved it.
Reached == IF pc \in {"next", "advance"} THEN seq.index + 1 ELSE seq.index

\* No mount of the tree that was passed comes at or after the position.
Ranked == \A m \in Passed : Count(mounts, 0, m + 1) <= Reached

\* mymounts_start will have counted every passed mount before it stops.
StartCounts ==
  pc = "start" =>
    /\ i <= seq.index
    /\ p # NULL => /\ Count(mounts, 0, p) <= i
                   /\ \A m \in Passed : Count(mounts, p, m + 1) <= seq.index - i

\* The mount to show was not passed, nor was one after it.
ShowIsNew ==
  /\ pc = "show" => ~Skip(p)
  /\ pc = "next" => Count(mounts, 0, p + 1) <= Reached /\ \A m \in Passed : m <= p
  /\ pc \in {"show", "advance"} /\ p # NULL =>
       Count(mounts, 0, p) <= Reached /\ \A m \in Passed : m < p

Quiet == since.zero /\ ~since.gained /\ ~since.torn /\ ~wild

NoRepeat == Quiet => ~again /\ Rising /\ ShownBefore /\ Ranked /\ StartCounts /\ ShowIsNew

LEMMA Buffered ==
  ASSUME TypeOK
  PROVE  /\ Len(seq.left) \in Nat
         /\ \A j \in Place :
              /\ seq.left[j][1] \in Mount /\ seq.left[j][2] \in Nat
              /\ seq.left[j][2] <= LineLen[seq.left[j][1]]
              /\ seq.left[j] = <<seq.left[j][1], seq.left[j][2]>>
         /\ Passed \subseteq Mount
<1>1. seq.left \in Seq(Bytes) BY DEF TypeOK
<1>2. Len(seq.left) \in Nat BY <1>1, LenProperties
<1>3. ASSUME NEW j \in Place
      PROVE  /\ seq.left[j][1] \in Mount /\ seq.left[j][2] \in Nat
             /\ seq.left[j][2] <= LineLen[seq.left[j][1]]
             /\ seq.left[j] = <<seq.left[j][1], seq.left[j][2]>>
  <2>1. seq.left[j] \in Bytes BY <1>1, ElementOfSeq DEF Place
  <2>2. PICK m \in Mount, k \in Nat : k \in 1 .. LineLen[m] /\ seq.left[j] = <<m, k>>
    BY <2>1, ByteForm
  <2>3. LineLen[m] \in Nat BY Constants
  <2>4. QED BY <2>2, <2>3
<1>4. Passed \subseteq Mount BY <1>3 DEF Passed, TypeOK
<1>5. QED BY <1>2, <1>3, <1>4

LEMMA NumbersOf ==
  ASSUME IInv
  PROVE  /\ mounts \in SUBSET Mount /\ Mount \subseteq Nat \ {0} /\ NULL = 0
         /\ p \in Nat /\ i \in Nat /\ seq.index \in Nat /\ Reached \in Nat
         /\ \A m \in Passed : m \in Nat /\ m + 1 \in Nat /\ m \in Mount
         /\ \A a, b : Count(mounts, a, b) \in Nat
<1>1. mounts \in SUBSET Mount /\ Mount \subseteq Nat \ {0} BY Constants DEF IInv, TypeOK
<1>2. ASSUME NEW m \in Passed PROVE m \in Nat /\ m + 1 \in Nat /\ m \in Mount
  <2>1. m \in Mount BY Buffered DEF IInv
  <2>2. QED BY <1>1, <2>1
<1>3. seq.index \in Nat /\ p \in Nat /\ i \in Nat BY <1>1 DEF IInv, TypeOK, NULL
<1>4. \A a, b : Count(mounts, a, b) \in Nat BY <1>1, CountType
<1>5. QED BY <1>1, <1>2, <1>3, <1>4 DEF Reached, NULL

LEMMA NoRepeatInit == Init => NoRepeat
<1> SUFFICES ASSUME Init PROVE NoRepeat OBVIOUS
<1>1. seq.left = <<>> /\ shown = {} /\ ~again /\ pc = "user" BY DEF Init, NewSeq
<1>2. Place = {} BY <1>1, EmptySeq DEF Place
<1>3. Passed = {} BY <1>1, <1>2 DEF Passed
<1>4. QED BY <1>1, <1>2, <1>3 DEF NoRepeat, Rising, ShownBefore, Ranked, StartCounts, ShowIsNew

\* Mounts that go.
LEMMA NoRepeatShrinks ==
  ASSUME IInv, IInv', NoRepeat, mounts' \subseteq mounts, Quiet' => Quiet,
         UNCHANGED <<seq, pc, p, i, shown, again>>
  PROVE  NoRepeat'
<1> SUFFICES ASSUME Quiet' PROVE (~again /\ Rising /\ ShownBefore /\ Ranked /\ StartCounts /\ ShowIsNew)'
  BY DEF NoRepeat
<1>0. ~again /\ Rising /\ ShownBefore /\ Ranked /\ StartCounts /\ ShowIsNew BY DEF NoRepeat
<1>1. Passed' = Passed /\ Place' = Place /\ Reached' = Reached BY DEF Passed, Place, Reached
<1>2. \A a, b \in Nat : Count(mounts', a, b) <= Count(mounts, a, b)
  <2>1. mounts \in SUBSET Mount /\ mounts' \in SUBSET mounts BY NumbersOf
  <2>2. QED BY <2>1, CountMonotone
<1>3. (~again /\ Rising /\ ShownBefore)' BY <1>0, <1>1 DEF Rising, ShownBefore
<1>4. /\ p \in Nat /\ p + 1 \in Nat /\ i \in Nat /\ seq.index \in Nat /\ Reached \in Nat
      /\ \A m \in Passed : m + 1 \in Nat
      /\ \A a, b : Count(mounts, a, b) \in Nat /\ Count(mounts', a, b) \in Nat
  <2>1. \A a, b : Count(mounts', a, b) \in Nat
    BY NumbersOf, CountType
  <2>2. QED BY <2>1, NumbersOf
<1>5. Ranked' 
  <2> SUFFICES ASSUME NEW m \in Passed PROVE Count(mounts', 0, m + 1) <= Reached BY <1>1 DEF Ranked
  <2>1. Count(mounts, 0, m + 1) <= Reached BY <1>0 DEF Ranked
  <2>2. Count(mounts', 0, m + 1) <= Count(mounts, 0, m + 1) BY <1>2, <1>4
  <2>3. QED BY <2>1, <2>2, <1>4
<1>6. StartCounts'
  <2> SUFFICES ASSUME pc = "start"
               PROVE  /\ i <= seq.index
                      /\ p # NULL => /\ Count(mounts', 0, p) <= i
                                     /\ \A m \in Passed : Count(mounts', p, m + 1) <= seq.index - i
    BY <1>1 DEF StartCounts
  <2>1. p # NULL => Count(mounts', 0, p) <= i
    <3>1. p # NULL => Count(mounts, 0, p) <= i BY <1>0 DEF StartCounts
    <3>2. Count(mounts', 0, p) <= Count(mounts, 0, p) BY <1>2, <1>4
    <3>3. QED BY <3>1, <3>2, <1>4
  <2>2. ASSUME NEW m \in Passed, p # NULL PROVE Count(mounts', p, m + 1) <= seq.index - i
    <3>1. Count(mounts, p, m + 1) <= seq.index - i BY <1>0, <2>2 DEF StartCounts
    <3>2. Count(mounts', p, m + 1) <= Count(mounts, p, m + 1) BY <1>2, <1>4
    <3>3. QED BY <3>1, <3>2, <1>4
  <2>3. QED BY <1>0, <2>1, <2>2 DEF StartCounts
<1>7. ShowIsNew'
  <2>1. Count(mounts', 0, p) <= Count(mounts, 0, p) BY <1>2, <1>4
  <2>2. Count(mounts', 0, p + 1) <= Count(mounts, 0, p + 1) BY <1>2, <1>4
  <2>3. Count(mounts, 0, p) <= Reached => Count(mounts', 0, p) <= Reached BY <2>1, <1>4
  <2>4. Count(mounts, 0, p + 1) <= Reached => Count(mounts', 0, p + 1) <= Reached BY <2>2, <1>4
  <2>5. QED BY <1>0, <1>1, <2>3, <2>4 DEF ShowIsNew
<1>8. QED BY <1>3, <1>5, <1>6, <1>7
\* A position computed afresh.
LEMMA NoRepeatFresh ==
  ASSUME seq'.left = <<>>, shown' = {}, ~again', pc' \in Idle
  PROVE  NoRepeat'
<1>1. Place' = {} BY EmptySeq DEF Place
<1>2. Passed' = {} BY <1>1 DEF Passed
<1>3. QED BY <1>1, <1>2 DEF NoRepeat, Rising, ShownBefore, Ranked, StartCounts, ShowIsNew, Idle

\* The rank is kept by a step that leaves the position and passes no other mount.
LEMMA StillRanked ==
  ASSUME IInv, Ranked, Passed' \subseteq Passed, Reached' = Reached, mounts' = mounts
  PROVE  Ranked'
BY DEF Ranked

LEMMA NoRepeatEnters ==
  ASSUME IInv, Ranked, Passed' \subseteq Passed, Reached = seq.index, seq'.index = seq.index,
         mounts' = mounts, ns_alive, p' \in FirstNode, i' = 0, pc' = "start"
  PROVE  Ranked' /\ StartCounts' /\ ShowIsNew'
<1>1. Reached' = seq.index BY DEF Reached
<1>2. Ranked' BY <1>1, StillRanked
<1>3. /\ Count(mounts, 0, p') = 0
      /\ \A b \in Nat : Count(mounts, p', b) = Count(mounts, 0, b)
  BY WalkStarts DEF IInv
<1>4. ASSUME NEW m \in Passed' PROVE Count(mounts, p', m + 1) <= seq.index
  <2>1. m \in Passed /\ m + 1 \in Nat BY NumbersOf
  <2>2. Count(mounts, 0, m + 1) <= seq.index BY <2>1 DEF Ranked
  <2>3. QED BY <1>3, <2>1, <2>2
<1>5. seq.index \in Nat BY NumbersOf
<1>6. StartCounts' BY <1>3, <1>4, <1>5 DEF StartCounts
<1>7. ShowIsNew' BY DEF ShowIsNew
<1>8. QED BY <1>2, <1>6, <1>7

LEMMA NoRepeatCall ==
  ASSUME IInv, NoRepeat, Call
  PROVE  NoRepeat'
<1>0. <<>> \in Seq(Bytes) /\ TypeOK BY EmptySeq DEF IInv
<1>1. ASSUME NEW n \in 1 .. MaxRead, NEW g \in 0 .. n, Read(n, g) PROVE NoRepeat'
  <2>1. CASE f_pos = 0
    <3>1. seq'.left = <<>> /\ shown' = {} /\ ~again' /\ pc' \in Idle
      BY <1>0, <1>1, <2>1 DEF Read, Anew, Idle, TypeOK
    <3>2. QED BY <3>1, NoRepeatFresh
  <2>2. CASE f_pos # 0
    <3>1. /\ pc = "user" /\ pc' = "resume"
          /\ UNCHANGED <<seq, since, shown, again, wild, mounts, p, i>>
      BY <1>1, <2>2 DEF Read, history, tree
    <3>2. Passed' = Passed /\ Place' = Place /\ Reached' = Reached BY <3>1 DEF Passed, Place, Reached
    <3>3. QED BY <3>1, <3>2 DEF NoRepeat, Quiet, Rising, ShownBefore, Ranked, StartCounts, ShowIsNew
  <2>3. QED BY <2>1, <2>2
<1>2. ASSUME NEW o \in Offset, Lseek(o) PROVE NoRepeat'
  <2>1. CASE o = 0
    <3>1. seq'.left = <<>> /\ shown' = {} /\ ~again' /\ pc' \in Idle
      BY <1>0, <1>2, <2>1 DEF Lseek, Anew, Idle, TypeOK
    <3>2. QED BY <3>1, NoRepeatFresh
  <2>2. CASE o # 0 BY <1>2, <2>2 DEF Lseek, Anew, NoRepeat, Quiet
  <2>3. QED BY <2>1, <2>2
<1>3. ASSUME Reopen PROVE NoRepeat'
  <2>1. seq'.left = <<>> /\ shown' = {} /\ ~again' /\ pc' \in Idle
    BY <1>3 DEF Reopen, Opened, NewSeq, Anew, Idle
  <2>2. QED BY <2>1, NoRepeatFresh
<1>4. QED BY <1>1, <1>2, <1>3 DEF Call

LEMMA NoRepeatStartPasses ==
  ASSUME IInv, NoRepeat, StartPasses
  PROVE  NoRepeat'
<1> SUFFICES ASSUME Quiet'
             PROVE  (~again /\ Rising /\ ShownBefore /\ Ranked /\ StartCounts /\ ShowIsNew)'
  BY DEF NoRepeat
<1>s. p' \in RbNext(p) /\ Deref(p) /\ since' = since
  BY Steps DEF StartPasses, Quiet, IInv
<1>0. Quiet /\ p \in mounts /\ p # NULL /\ pc = "start" /\ pc' = "start"
      /\ p' \in RbNext(p) /\ (Skip(p) \/ i # seq.index) /\ i' = (IF Skip(p) THEN i ELSE i + 1)
      /\ UNCHANGED <<seq, shown, again, mounts>>
  BY <1>s DEF StartPasses, Quiet, Deref, tree
<1>1. ~again /\ Rising /\ ShownBefore /\ Ranked /\ StartCounts /\ ShowIsNew BY <1>0 DEF NoRepeat
<1>2. Passed' = Passed /\ Place' = Place /\ Reached' = Reached BY <1>0 DEF Passed, Place, Reached
<1>3. (~again /\ Rising /\ ShownBefore /\ Ranked /\ ShowIsNew)'
  BY <1>0, <1>1, <1>2 DEF Rising, ShownBefore, Ranked, ShowIsNew
<1>4. /\ p \in Nat /\ i \in Nat /\ seq.index \in Nat /\ mounts \in SUBSET Mount /\ Mount \subseteq Nat
      /\ \A m \in Passed : m \in Nat /\ m + 1 \in Nat
      /\ \A a, b : Count(mounts, a, b) \in Nat
  BY NumbersOf
<1>5. /\ i <= seq.index /\ Count(mounts, 0, p) <= i
      /\ \A m \in Passed : Count(mounts, p, m + 1) <= seq.index - i
  BY <1>0, <1>1 DEF StartCounts
<1>6. i' \in Nat /\ i' <= seq.index BY <1>0, <1>4, <1>5
<1>7. ASSUME p' # NULL
      PROVE  /\ Count(mounts, 0, p') <= i'
             /\ \A m \in Passed : Count(mounts, p', m + 1) <= seq.index - i'
  <2>1. /\ p' \in mounts /\ p < p'
        /\ ~Skip(p) => Count(mounts, 0, p') = Count(mounts, 0, p) + 1
        /\ Skip(p) => Count(mounts, 0, p') = Count(mounts, 0, p)
        /\ \A b \in Nat : p < b /\ ~Skip(p) => Count(mounts, p, b) = Count(mounts, p', b) + 1
        /\ \A b \in Nat : Skip(p) => Count(mounts, p, b) = Count(mounts, p', b)
    BY <1>0, <1>7, Walked DEF IInv
  <2>2. p' \in Nat BY <1>4, <2>1
  <2>3. Count(mounts, 0, p') <= i' BY <1>0, <1>4, <1>5, <2>1
  <2>4. ASSUME NEW m \in Passed PROVE Count(mounts, p', m + 1) <= seq.index - i'
    <3>1. CASE Skip(p)
      <4>1. Count(mounts, p', m + 1) = Count(mounts, p, m + 1) BY <1>4, <2>1, <3>1
      <4>2. QED BY <1>0, <1>5, <3>1, <4>1
    <3>2. CASE ~Skip(p) /\ p < m + 1
      <4>1. Count(mounts, p, m + 1) = Count(mounts, p', m + 1) + 1 BY <1>4, <2>1, <3>2
      <4>2. Count(mounts, p, m + 1) <= seq.index - i BY <1>5
      <4>3. QED BY <1>0, <1>4, <3>2, <4>1, <4>2
    <3>3. CASE ~(p < m + 1)
      <4>1. \A k \in mounts : ~(p' <= k /\ k < m + 1) BY <1>4, <2>1, <2>2, <3>3
      <4>2. Count(mounts, p', m + 1) = 0 BY <1>4, <2>2, <4>1, CountNone
      <4>3. QED BY <1>4, <1>6, <4>2
    <3>4. QED BY <3>1, <3>2, <3>3
  <2>5. QED BY <2>3, <2>4
<1>8. StartCounts' BY <1>0, <1>2, <1>6, <1>7 DEF StartCounts
<1>9. QED BY <1>3, <1>8

LEMMA NoRepeatStartFinds ==
  ASSUME IInv, NoRepeat, StartFinds
  PROVE  NoRepeat'
<1> SUFFICES ASSUME Quiet'
             PROVE  (~again /\ Rising /\ ShownBefore /\ Ranked /\ StartCounts /\ ShowIsNew)'
  BY DEF NoRepeat
<1>0. Quiet /\ p \in mounts /\ p # NULL /\ pc = "start" /\ pc' = "show" /\ ~Skip(p) /\ i = seq.index
      /\ UNCHANGED <<seq, shown, again, mounts, p, i>>
  BY DEF StartFinds, Quiet, Deref, history, tree
<1>1. ~again /\ Rising /\ ShownBefore /\ Ranked /\ StartCounts /\ ShowIsNew BY <1>0 DEF NoRepeat
<1>2. Passed' = Passed /\ Place' = Place /\ Reached' = Reached /\ Reached = seq.index
  BY <1>0 DEF Passed, Place, Reached
<1>3. (~again /\ Rising /\ ShownBefore /\ Ranked /\ StartCounts)'
  BY <1>0, <1>1, <1>2 DEF Rising, ShownBefore, Ranked, StartCounts
<1>4. Count(mounts, 0, p) <= seq.index BY <1>0, <1>1 DEF StartCounts
<1>5. ASSUME NEW m \in Passed PROVE m < p
  <2>1. /\ p \in Nat /\ seq.index \in Nat /\ mounts \in SUBSET Mount
        /\ m \in Nat /\ m + 1 \in Nat /\ Count(mounts, p, m + 1) \in Nat
    BY NumbersOf
  <2>2. Count(mounts, p, m + 1) <= seq.index - i BY <1>0, <1>1 DEF StartCounts
  <2>3. SUFFICES ASSUME ~(m < p) PROVE FALSE OBVIOUS
  <2>4. p <= p /\ p < m + 1 BY <2>1, <2>3
  <2>5. Count(mounts, p, m + 1) >= 1 BY <1>0, <2>1, <2>4, CountSome
  <2>6. QED BY <1>0, <2>1, <2>2, <2>5
<1>6. ShowIsNew' BY <1>0, <1>2, <1>4, <1>5 DEF ShowIsNew
<1>7. QED BY <1>3, <1>6

\* Steps that leave the walk, or go on to copy or return, and pass nothing.
LEMMA NoRepeatLeaves ==
  ASSUME IInv, NoRepeat, Quiet' => Quiet, mounts' = mounts, Reached' = Reached,
         seq'.left = seq.left, UNCHANGED <<shown, again>>,
         pc' \in Idle \cup {"copy"}
  PROVE  NoRepeat'
<1>1. Passed' = Passed /\ Place' = Place BY DEF Passed, Place
<1>2. QED BY <1>1 DEF NoRepeat, Rising, ShownBefore, Ranked, StartCounts, ShowIsNew, Idle

LEMMA NoRepeatStartEnds ==
  ASSUME IInv, NoRepeat, StartEnds
  PROVE  NoRepeat'
<1>0. TypeOK /\ Handed BY DEF IInv
<1>1. seq.left = <<>> /\ seq'.left = seq.left /\ seq'.index = seq.index
  BY <1>0 DEF StartEnds, Handed, TypeOK
<1>2. /\ pc = "start" /\ pc' \in Idle \cup {"copy"} /\ (Quiet' => Quiet)
      /\ mounts' = mounts /\ UNCHANGED <<shown, again>>
  BY DEF StartEnds, Quiet, history, tree, Idle
<1>3. Reached' = Reached BY <1>1, <1>2 DEF Reached, Idle
<1>4. QED BY <1>1, <1>2, <1>3, NoRepeatLeaves
LEMMA NoRepeatShow ==
  ASSUME IInv, NoRepeat, Show
  PROVE  NoRepeat'
<1> SUFFICES ASSUME Quiet'
             PROVE  (~again /\ Rising /\ ShownBefore /\ Ranked /\ StartCounts /\ ShowIsNew)'
  BY DEF NoRepeat
<1>0. /\ Quiet /\ p \in mounts /\ p # NULL /\ pc = "show" /\ pc' = "next" /\ p \in Mount
      /\ UNCHANGED <<shown, again, mounts, p, i>>
  BY NumbersOf DEF Show, Quiet, Deref, history, tree
<1>1. ~again /\ Rising /\ ShownBefore /\ Ranked /\ StartCounts /\ ShowIsNew BY <1>0 DEF NoRepeat
<1>2. seq'.left = Shown /\ seq'.index = seq.index BY DEF Show, IInv, TypeOK
<1>3. Reached = seq.index /\ Reached' = seq.index + 1 BY <1>0, <1>2 DEF Reached
<1>4. /\ ~Skip(p) /\ Count(mounts, 0, p) <= seq.index /\ \A m \in Passed : m < p
  BY <1>0, <1>1, <1>3 DEF ShowIsNew
<1> DEFINE n == Len(seq.left)
<1>5. /\ n \in Nat /\ LineLen[p] \in Nat /\ Len(Shown) = n + LineLen[p]
      /\ \A j \in 1 .. n : Shown[j] = seq.left[j]
      /\ \A j \in 1 .. LineLen[p] : Shown[n + j] = <<p, j>>
  BY <1>0, ShownIs, Constants
<1>6. /\ p \in Nat /\ seq.index \in Nat /\ mounts \in SUBSET Mount
      /\ \A m \in Passed : m \in Nat /\ m + 1 \in Nat
      /\ \A a, b : Count(mounts, a, b) \in Nat
  BY NumbersOf
<1>7. Place = 1 .. n /\ Place' = 1 .. n + LineLen[p] BY <1>2, <1>5 DEF Place
<1> HIDE DEF n
<1>8. \A j \in Place' :
        \/ j \in Place /\ seq'.left[j] = seq.left[j]
        \/ j - n \in 1 .. LineLen[p] /\ seq'.left[j] = <<p, j - n>>
  <2>1. ASSUME NEW j \in Place PROVE seq'.left[j] = seq.left[j]
    <3>1. j \in 1 .. n BY <1>7
    <3>2. QED BY <1>2, <1>5, <3>1
  <2>2. ASSUME NEW j \in Place', j \notin Place
        PROVE  j - n \in 1 .. LineLen[p] /\ seq'.left[j] = <<p, j - n>>
    <3>1. j - n \in 1 .. LineLen[p] /\ n + (j - n) = j BY <1>5, <1>7, <2>2
    <3>2. QED BY <1>2, <1>5, <3>1
  <2>3. QED BY <2>1, <2>2
<1>9. \A j \in Place : seq.left[j][1] < p /\ seq.left[j][1] \in Nat BY <1>4, <1>6 DEF Passed
<1>10. Rising'
  <2> SUFFICES ASSUME NEW j \in Place', NEW k \in Place', j < k
               PROVE  \/ seq'.left[j][1] < seq'.left[k][1]
                      \/ seq'.left[j][1] = seq'.left[k][1] /\ seq'.left[j][2] < seq'.left[k][2]
    BY DEF Rising
  <2>1. CASE j \in Place /\ k \in Place
    <3>1. seq'.left[j] = seq.left[j] /\ seq'.left[k] = seq.left[k] BY <1>2, <1>5, <1>7, <2>1
    <3>2. QED BY <1>1, <2>1, <3>1 DEF Rising
  <2>2. CASE j \in Place /\ k \notin Place
    <3>1. seq'.left[j] = seq.left[j] /\ seq'.left[k] = <<p, k - n>>
      BY <1>2, <1>5, <1>7, <1>8, <2>2
    <3>2. QED BY <1>9, <2>2, <3>1
  <2>3. CASE j \notin Place
    <3>1. k \notin Place BY <1>5, <1>7, <2>3
    <3>2. seq'.left[j] = <<p, j - n>> /\ seq'.left[k] = <<p, k - n>> BY <1>8, <2>3, <3>1
    <3>3. j - n < k - n BY <1>5, <1>7
    <3>4. QED BY <3>2, <3>3
  <2>4. QED BY <2>1, <2>2, <2>3
<1>11. Passed' \subseteq Passed \cup {p}
  <2>1. ASSUME NEW j \in Place' PROVE seq'.left[j][1] \in Passed \cup {p}
    BY <1>8 DEF Passed
  <2>2. QED BY <1>0, <2>1 DEF Passed
<1>12. ShownBefore'
  <2> SUFFICES ASSUME NEW m \in shown, NEW j \in Place' PROVE m < seq'.left[j][1]
    BY <1>0 DEF ShownBefore
  <2>1. m < p BY <1>4 DEF Passed
  <2>2. QED BY <1>1, <1>8, <2>1 DEF ShownBefore
<1>13. Count(mounts, 0, p + 1) <= seq.index + 1
  <2>1. \A k \in mounts : ~Skip(k) => ((0 <= k /\ k < p + 1) <=> ((0 <= k /\ k < p) \/ k = p))
    <3>1. mounts \subseteq Nat BY Constants, <1>6
    <3>2. QED BY <1>6, <3>1
  <2>2. ~(0 <= p /\ p < p) BY <1>6
  <2>3. Count(mounts, 0, p + 1) = Count(mounts, 0, p) + 1
    BY <1>0, <1>4, <1>6, <2>1, <2>2, CountOneMore
  <2>4. QED BY <1>4, <1>6, <2>3
<1>14. Ranked'
  <2> SUFFICES ASSUME NEW m \in Passed' PROVE Count(mounts, 0, m + 1) <= seq.index + 1
    BY <1>0, <1>3 DEF Ranked
  <2>1. CASE m = p BY <1>13, <2>1
  <2>2. CASE m \in Passed
    <3>1. Count(mounts, 0, m + 1) <= seq.index BY <1>1, <1>3, <2>2 DEF Ranked
    <3>2. QED BY <1>6, <3>1
  <2>3. QED BY <1>11, <2>1, <2>2
<1>15. StartCounts' BY <1>0 DEF StartCounts
<1>16. ShowIsNew'
  <2>1. \A m \in Passed' : m <= p BY <1>4, <1>6, <1>11
  <2>2. QED BY <1>0, <1>3, <1>13, <2>1 DEF ShowIsNew
<1>17. QED BY <1>0, <1>1, <1>10, <1>12, <1>14, <1>15, <1>16

LEMMA NoRepeatShowOverflows ==
  ASSUME IInv, NoRepeat, ShowOverflows
  PROVE  NoRepeat'
<1>0. TypeOK /\ Handed /\ pc = "show" BY DEF IInv, ShowOverflows
<1>1. CASE phase = "fill"
  <2>1. /\ pc' \in Idle \cup {"copy"} /\ (Quiet' => Quiet) /\ pc' = "copy" /\ seq' = seq
        /\ mounts' = mounts /\ UNCHANGED <<shown, again>>
    BY <1>0, <1>1 DEF ShowOverflows, Quiet, Deref, history, tree
  <2>2. Reached' = Reached BY <1>0, <2>1 DEF Reached
  <2>3. QED BY <2>1, <2>2, NoRepeatLeaves
<1>2. CASE phase # "fill"
  <2> SUFFICES ASSUME Quiet'
               PROVE  (~again /\ Rising /\ ShownBefore /\ Ranked /\ StartCounts /\ ShowIsNew)'
    BY DEF NoRepeat
  <2>1. /\ Quiet /\ ns_alive /\ phase = "first"
        /\ seq' = [seq EXCEPT !.size = 2 * @, !.left = <<>>,
                              !.index = IF phase = "traverse" THEN 0 ELSE @]
        /\ pc' = "start" /\ i' = 0 /\ p' \in FirstNode
        /\ mounts' = mounts /\ UNCHANGED <<shown, again>>
    BY <1>0, <1>2 DEF ShowOverflows, Quiet, Handed, history, tree
  <2>2. seq'.left = seq.left /\ seq'.index = seq.index BY <1>0, <2>1 DEF Handed, TypeOK
  <2>3. ~again /\ Rising /\ ShownBefore /\ Ranked BY <2>1 DEF NoRepeat
  <2>4. Passed' = Passed /\ Place' = Place /\ Reached = seq.index
    BY <1>0, <2>1, <2>2 DEF Passed, Place, Reached
  <2>5. Ranked' /\ StartCounts' /\ ShowIsNew' BY <2>1, <2>2, <2>3, <2>4, NoRepeatEnters
  <2>6. (~again /\ Rising /\ ShownBefore)' BY <2>1, <2>2, <2>3, <2>4 DEF Rising, ShownBefore
  <2>7. QED BY <2>5, <2>6
<1>3. QED BY <1>1, <1>2

LEMMA NoRepeatNextSteps ==
  ASSUME IInv, NoRepeat, NextSteps
  PROVE  NoRepeat'
<1> SUFFICES ASSUME Quiet'
             PROVE  (~again /\ Rising /\ ShownBefore /\ Ranked /\ StartCounts /\ ShowIsNew)'
  BY DEF NoRepeat
<1>s. p' \in RbNext(p) /\ Deref(p) /\ since' = since
  BY Steps DEF NextSteps, Quiet, IInv
<1>0. /\ Quiet /\ p \in mounts /\ p # NULL /\ pc \in {"next", "advance"} /\ pc' = "advance"
      /\ (pc = "next" \/ Skip(p)) /\ p' \in RbNext(p)
      /\ UNCHANGED <<seq, shown, again, mounts>>
  BY <1>s, NumbersOf DEF NextSteps, Quiet, Deref, tree
<1>1. ~again /\ Rising /\ ShownBefore /\ Ranked /\ StartCounts /\ ShowIsNew BY <1>0 DEF NoRepeat
<1>2. Passed' = Passed /\ Place' = Place /\ Reached' = Reached BY <1>0 DEF Passed, Place, Reached
<1>3. (~again /\ Rising /\ ShownBefore /\ Ranked /\ StartCounts)'
  BY <1>0, <1>1, <1>2 DEF Rising, ShownBefore, Ranked, StartCounts
<1>4. /\ p \in Nat /\ p' \in Nat /\ \A m \in Passed : m \in Nat
  <2>1. p' \in Mount \cup {NULL} BY <1>0, Nodes DEF IInv
  <2>2. QED BY <2>1, NumbersOf
<1>5. ASSUME p' # NULL PROVE Count(mounts, 0, p') <= Reached /\ \A m \in Passed : m < p'
  <2>1. /\ p < p' /\ Count(mounts, 0, p') = Count(mounts, 0, p + 1)
        /\ Skip(p) => Count(mounts, 0, p') = Count(mounts, 0, p)
    BY <1>0, <1>5, Walked DEF IInv
  <2>2. CASE pc = "next"
    <3>1. Count(mounts, 0, p + 1) <= Reached /\ \A m \in Passed : m <= p
      BY <1>1, <2>2 DEF ShowIsNew
    <3>2. QED BY <1>4, <2>1, <3>1
  <2>3. CASE pc = "advance"
    <3>1. Count(mounts, 0, p) <= Reached /\ \A m \in Passed : m < p
      BY <1>0, <1>1, <2>3 DEF ShowIsNew
    <3>2. Skip(p) BY <1>0, <2>3
    <3>3. QED BY <1>4, <2>1, <3>1, <3>2
  <2>4. QED BY <1>0, <2>2, <2>3
<1>6. ShowIsNew' BY <1>0, <1>2, <1>5 DEF ShowIsNew
<1>7. QED BY <1>3, <1>6

LEMMA NoRepeatNextInFill ==
  ASSUME IInv, NoRepeat, NextInFill
  PROVE  NoRepeat'
<1> SUFFICES ASSUME Quiet'
             PROVE  (~again /\ Rising /\ ShownBefore /\ Ranked /\ StartCounts /\ ShowIsNew)'
  BY DEF NoRepeat
<1>0. /\ Quiet /\ pc = "advance" /\ pc' \in {"copy", "show"} /\ (p = NULL \/ ~Skip(p))
      /\ (pc' = "show" => p # NULL)
      /\ UNCHANGED <<shown, again, mounts, p, i>>
  BY DEF NextInFill, NextReturns, Quiet, history, tree
<1>1. ~again /\ Rising /\ ShownBefore /\ Ranked /\ StartCounts /\ ShowIsNew BY <1>0 DEF NoRepeat
<1>2. seq'.left = seq.left /\ seq'.index = seq.index + 1
  BY DEF NextInFill, NextIndex, IInv, TypeOK
<1>3. Passed' = Passed /\ Place' = Place /\ Reached' = Reached
  BY <1>0, <1>2 DEF Passed, Place, Reached
<1>4. (~again /\ Rising /\ ShownBefore /\ Ranked /\ StartCounts)'
  BY <1>0, <1>1, <1>2, <1>3 DEF Rising, ShownBefore, Ranked, StartCounts
<1>5. ShowIsNew' BY <1>0, <1>1, <1>3 DEF ShowIsNew
<1>6. QED BY <1>4, <1>5

\* A line that ends in what is taken is not in what is left, and was not delivered before.
LEMMA NoRepeatCopyOut ==
  ASSUME IInv, CopyOut, ~again, Rising, ShownBefore
  PROVE  /\ ~again' /\ Rising' /\ ShownBefore' /\ Passed' \subseteq Passed
         /\ seq'.index = seq.index
<1> DEFINE new == SubSeq(seq.left, 1, Taken)
           ended == {m \in Mount : since.zero /\ \E j \in 1 .. Taken : new[j] = <<m, LineLen[m]>>}
<1>0. TypeOK /\ Handed BY DEF IInv
<1>1. /\ Taken \in 0 .. Len(seq.left) /\ Len(seq.left) \in Nat
      /\ Len(seq'.left) = Len(seq.left) - Taken
      /\ \A j \in 1 .. Len(seq.left) - Taken : seq'.left[j] = seq.left[Taken + j]
  BY TakenIs, CopyOutIs
<1>2. \A j \in 1 .. Taken : new[j] = seq.left[j]
  BY <1>0, <1>1, Halves DEF TypeOK
<1>3. shown' = shown \cup ended /\ again' = (again \/ ended \cap shown # {}) BY DEF CopyOut
<1>4. \A m \in ended : \E j \in 1 .. Taken : seq.left[j] = <<m, LineLen[m]>> BY <1>2
<1> HIDE DEF new, ended
<1>5. \A j \in Place' : Taken + j \in Place /\ j \in Nat \ {0} /\ seq'.left[j] = seq.left[Taken + j]
  BY <1>1 DEF Place
<1>6. \A j \in 1 .. Taken : j \in Place BY <1>1 DEF Place
<1>7. /\ Mount \subseteq Nat
      /\ \A j \in Place :
           /\ seq.left[j][1] \in Mount /\ seq.left[j][2] \in Nat
           /\ seq.left[j][2] <= LineLen[seq.left[j][1]]
  BY <1>0, Buffered, Constants
<1>8. ASSUME NEW m \in ended PROVE m \in Passed /\ m \notin shown
  <2>1. PICK j \in 1 .. Taken : seq.left[j] = <<m, LineLen[m]>> BY <1>4
  <2>2. j \in Place /\ seq.left[j][1] = m BY <1>6, <2>1
  <2>3. m \in Nat BY <1>7, <2>2
  <2>4. m \in shown => m < m BY <2>2 DEF ShownBefore
  <2>5. QED BY <2>2, <2>3, <2>4 DEF Passed
<1>9. ~again' BY <1>3, <1>8
<1>10. Rising'
  <2> SUFFICES ASSUME NEW j \in Place', NEW k \in Place', j < k
               PROVE  \/ seq'.left[j][1] < seq'.left[k][1]
                      \/ seq'.left[j][1] = seq'.left[k][1] /\ seq'.left[j][2] < seq'.left[k][2]
    BY DEF Rising
  <2>1. Taken + j \in Place /\ Taken + k \in Place /\ Taken + j < Taken + k BY <1>1, <1>5
  <2>2. QED BY <1>5, <2>1 DEF Rising
<1>11. ShownBefore'
  <2> SUFFICES ASSUME NEW m \in shown', NEW j \in Place' PROVE m < seq'.left[j][1]
    BY DEF ShownBefore
  <2>1. Taken + j \in Place /\ seq'.left[j] = seq.left[Taken + j] BY <1>5
  <2>2. CASE m \in shown BY <2>1, <2>2 DEF ShownBefore
  <2>3. CASE m \in ended
    <3>1. PICK k \in 1 .. Taken : seq.left[k] = <<m, LineLen[m]>> BY <1>4, <2>3
    <3>2. /\ k \in Place /\ k < Taken + j
          /\ seq.left[k][1] = m /\ seq.left[k][2] = LineLen[m]
      BY <1>1, <1>5, <1>6, <3>1
    <3>3. \/ m < seq.left[Taken + j][1]
          \/ m = seq.left[Taken + j][1] /\ LineLen[m] < seq.left[Taken + j][2]
      BY <2>1, <3>2 DEF Rising
    <3>4. seq.left[Taken + j][2] \in Nat
          /\ seq.left[Taken + j][2] <= LineLen[seq.left[Taken + j][1]]
          /\ LineLen[seq.left[Taken + j][1]] \in Nat
      BY <1>7, <2>1, Constants
    <3>5. QED BY <2>1, <3>3, <3>4
  <2>4. QED BY <1>3, <2>2, <2>3
<1>12. Passed' \subseteq Passed
  <2>1. ASSUME NEW j \in Place' PROVE seq'.left[j][1] \in Passed BY <1>5 DEF Passed
  <2>2. shown' \subseteq Passed BY <1>3, <1>8 DEF Passed
  <2>3. QED BY <2>1, <2>2 DEF Passed
<1>13. seq'.index = seq.index BY <1>0 DEF CopyOut, TypeOK
<1>14. QED BY <1>9, <1>10, <1>11, <1>12, <1>13

LEMMA NoRepeatCopyLeftover ==
  ASSUME IInv, NoRepeat, CopyLeftover
  PROVE  NoRepeat'
<1> SUFFICES ASSUME Quiet'
             PROVE  (~again /\ Rising /\ ShownBefore /\ Ranked /\ StartCounts /\ ShowIsNew)'
  BY DEF NoRepeat
<1>0. CopyOut /\ pc = "resume" /\ mounts' = mounts /\ since' = since BY DEF CopyLeftover, CopyOut, tree
<1>1. wild' \/ ~wild BY DEF CopyLeftover, EnterStart, Quiet
<1>2. Quiet BY <1>0, <1>1 DEF Quiet
<1>3. ~again /\ Rising /\ ShownBefore /\ Ranked /\ StartCounts /\ ShowIsNew BY <1>2 DEF NoRepeat
<1>4. /\ ~again' /\ Rising' /\ ShownBefore' /\ Passed' \subseteq Passed
      /\ seq'.index = seq.index
  BY <1>0, <1>3, NoRepeatCopyOut
<1>5. Reached = seq.index BY <1>0 DEF Reached
<1>6. CASE seq'.left # <<>>
  <2>1. pc' = "done" BY <1>6 DEF CopyLeftover
  <2>2. Reached' = Reached BY <1>4, <1>5, <2>1 DEF Reached
  <2>3. Ranked' BY <1>0, <1>3, <1>4, <2>2, StillRanked
  <2>4. QED BY <1>4, <2>1, <2>3 DEF StartCounts, ShowIsNew
<1>7. CASE seq'.left = <<>>
  <2>1. ns_alive /\ p' \in FirstNode /\ i' = 0 /\ pc' = "start"
    BY <1>7 DEF CopyLeftover, EnterStart, Quiet
  <2>2. Ranked' /\ StartCounts' /\ ShowIsNew'
    BY <1>0, <1>3, <1>4, <1>5, <2>1, NoRepeatEnters
  <2>3. QED BY <1>4, <2>2
<1>8. QED BY <1>6, <1>7

LEMMA NoRepeatNothingLeft ==
  ASSUME IInv, NoRepeat, NothingLeft
  PROVE  NoRepeat'
<1> SUFFICES ASSUME Quiet'
             PROVE  (~again /\ Rising /\ ShownBefore /\ Ranked /\ StartCounts /\ ShowIsNew)'
  BY DEF NoRepeat
<1>0. /\ Quiet /\ ns_alive /\ pc = "resume" /\ pc' = "start" /\ i' = 0 /\ p' \in FirstNode
      /\ UNCHANGED <<seq, shown, again, mounts>>
  BY DEF NothingLeft, EnterStart, Quiet, history, tree
<1>1. ~again /\ Rising /\ ShownBefore /\ Ranked BY <1>0 DEF NoRepeat
<1>2. Passed' = Passed /\ Place' = Place /\ Reached = seq.index BY <1>0 DEF Passed, Place, Reached
<1>3. Ranked' /\ StartCounts' /\ ShowIsNew' BY <1>0, <1>1, <1>2, NoRepeatEnters
<1>4. (~again /\ Rising /\ ShownBefore)' BY <1>0, <1>1, <1>2 DEF Rising, ShownBefore
<1>5. QED BY <1>3, <1>4

LEMMA NoRepeatCopyRecords ==
  ASSUME IInv, NoRepeat, CopyRecords
  PROVE  NoRepeat'
<1> SUFFICES ASSUME Quiet'
             PROVE  (~again /\ Rising /\ ShownBefore /\ Ranked /\ StartCounts /\ ShowIsNew)'
  BY DEF NoRepeat
<1>0. CopyOut /\ pc = "copy" /\ pc' = "done" /\ mounts' = mounts /\ since' = since /\ wild' = wild
  BY DEF CopyRecords, CopyOut, tree
<1>1. ~again /\ Rising /\ ShownBefore /\ Ranked BY <1>0 DEF NoRepeat, Quiet
<1>2. /\ ~again' /\ Rising' /\ ShownBefore' /\ Passed' \subseteq Passed
      /\ seq'.index = seq.index
  BY <1>0, <1>1, NoRepeatCopyOut
<1>3. Reached' = Reached BY <1>0, <1>2 DEF Reached
<1>4. Ranked' BY <1>0, <1>1, <1>2, <1>3, StillRanked
<1>5. QED BY <1>0, <1>2, <1>4 DEF StartCounts, ShowIsNew

LEMMA NoRepeatReturns ==
  ASSUME IInv, NoRepeat, ReadReturns \/ LseekReturns
  PROVE  NoRepeat'
<1>1. /\ pc \in Idle /\ pc' \in Idle /\ (Quiet' => Quiet) /\ seq' = seq
      /\ mounts' = mounts /\ UNCHANGED <<shown, again>>
  BY DEF ReadReturns, LseekReturns, Quiet, history, tree, Idle
<1>2. Reached' = Reached BY <1>1 DEF Reached, Idle
<1>3. QED BY <1>1, <1>2, NoRepeatLeaves

LEMMA NoRepeatNext == IInv /\ IInv' /\ NoRepeat /\ [Next]_vars => NoRepeat'
<1> SUFFICES ASSUME IInv, IInv', NoRepeat, [Next]_vars PROVE NoRepeat' OBVIOUS
<1>1. CASE Call BY <1>1, NoRepeatCall
<1>2. CASE NextInTraverse
  <2>1. ~Quiet' BY <1>2 DEF NextInTraverse, IInv, Handed, Quiet, history
  <2>2. QED BY <2>1 DEF NoRepeat
<1>3. CASE Running
  BY <1>2, <1>3, NoRepeatStartPasses, NoRepeatStartFinds, NoRepeatStartEnds, NoRepeatShow,
     NoRepeatShowOverflows, NoRepeatNextSteps, NoRepeatNextInFill, NoRepeatCopyLeftover,
     NoRepeatNothingLeft, NoRepeatCopyRecords, NoRepeatReturns
  DEF Running
<1>4. CASE Others
  <2>1. ASSUME NEW m \in Mount, MountOne(m) PROVE NoRepeat'
    <3>1. since'.gained BY <2>1 DEF MountOne, IInv, TypeOK
    <3>2. QED BY <3>1 DEF NoRepeat, Quiet
  <2>2. ASSUME NEW m \in Mount, Umount(m) PROVE NoRepeat'
    <3>1. /\ mounts' \subseteq mounts /\ (Quiet' => Quiet)
          /\ UNCHANGED <<seq, pc, p, i, shown, again>>
      BY <2>2 DEF Umount, Quiet, IInv, TypeOK
    <3>2. QED BY <3>1, NoRepeatShrinks
  <2>3. ASSUME FreeNamespace PROVE NoRepeat'
    <3>1. /\ mounts' \subseteq mounts /\ (Quiet' => Quiet)
          /\ UNCHANGED <<seq, pc, p, i, shown, again>>
      BY <2>3 DEF FreeNamespace, Quiet, IInv, TypeOK
    <3>2. QED BY <3>1, NoRepeatShrinks
  <2>4. QED BY <1>4, <2>1, <2>2, <2>3 DEF Others
<1>5. CASE UNCHANGED vars
  <2>1. Passed' = Passed /\ Place' = Place /\ Reached' = Reached
    BY <1>5 DEF vars, Passed, Place, Reached
  <2>2. QED BY <1>5, <2>1
    DEF vars, NoRepeat, Quiet, Rising, ShownBefore, Ranked, StartCounts, ShowIsNew
<1>6. QED BY <1>1, <1>3, <1>4, <1>5 DEF Next, Undefined

\* However many mounts there are and whenever they go, a listing from the start prints
\* none of them twice, as long as mymounts_next is not standing on one that went and no
\* change falls into an rb_next.
THEOREM NothingRepeated == Spec => []UnmountingRepeatsNothing
<1>1. Spec => []IInv BY InitInv, NextInv, PTL DEF Spec
<1>2. Spec => []NoRepeat BY <1>1, NoRepeatInit, NoRepeatNext, PTL DEF Spec
<1>3. NoRepeat => UnmountingRepeatsNothing BY DEF NoRepeat, Quiet, UnmountingRepeatsNothing
<1>4. QED BY <1>2, <1>3, PTL
-----------------------------------------------------------------------------
(* MountingHidesNothing.                                                   *)

\* The line of m is buffered to its end.
Ready(m) == \E j \in Place : seq.left[j] = <<m, LineLen[m]>>

\* Listed mounts that were there throughout and are still to come.
Missing == {m \in stayed : ~Skip(m) /\ m \notin shown /\ ~Ready(m)}

\* The mount a handler holds is in the tree, and is NULL only when none is to come.
OnTree ==
  pc \in {"start", "show", "next", "advance"} =>
    IF p = NULL THEN Missing = {} ELSE p \in mounts

\* mymounts_start has not counted a missing mount, and will not.
StartMisses ==
  pc = "start" =>
    /\ i <= seq.index
    /\ p # NULL => /\ i <= Count(mounts, 0, p)
                   /\ \A m \in Missing : p <= m /\ seq.index - i <= Count(mounts, p, m)

\* Nor has the walk that shows the lines.
ShowMisses ==
  /\ pc = "show" => ~Skip(p)
  /\ pc = "next" => Reached <= Count(mounts, 0, p + 1) /\ \A m \in Missing : p < m
  /\ pc \in {"show", "advance"} /\ p # NULL =>
       Reached <= Count(mounts, 0, p) /\ \A m \in Missing : p <= m

\* Between calls, and after the buffer is full, the position is not past a missing mount.
RestMisses ==
  pc \in Idle \cup {"copy"} => \A m \in Missing : seq.index <= Count(mounts, 0, m)

EndMisses == AtEnd => Missing = {}

Growing == since.zero /\ ~since.lost /\ ~since.torn

NoneHidden ==
  Growing => ns_alive /\ OnTree /\ StartMisses /\ ShowMisses /\ RestMisses /\ EndMisses

LEMMA MissingOf ==
  ASSUME IInv
  PROVE  Missing \subseteq mounts /\ \A m \in Missing : m \in Nat /\ m \in mounts /\ ~Skip(m)
<1>1. mounts \subseteq Nat /\ stayed \subseteq mounts BY NumbersOf DEF IInv, TypeOK
<1>2. QED BY <1>1 DEF Missing

\* A walk starts over, or for the first time.
LEMMA NoneHiddenEnters ==
  ASSUME IInv, Missing' \subseteq Missing, \A m \in Missing : seq.index <= Count(mounts, 0, m),
         seq'.index = seq.index, mounts' = mounts, ns_alive, ns_alive',
         p' \in FirstNode, i' = 0, pc' = "start"
  PROVE  (ns_alive /\ OnTree /\ StartMisses /\ ShowMisses /\ RestMisses /\ EndMisses)'
<1>1. /\ p' \in mounts /\ p' # NULL /\ \A k \in mounts : p' <= k
      /\ \A b \in Nat : Count(mounts, p', b) = Count(mounts, 0, b)
      /\ Count(mounts, 0, p') = 0
  BY WalkStarts DEF IInv
<1>2. OnTree' BY <1>1 DEF OnTree
<1>3. StartMisses'
  <2>1. seq.index \in Nat BY NumbersOf
  <2>2. ASSUME NEW m \in Missing PROVE p' <= m /\ seq.index <= Count(mounts, p', m)
    BY <1>1, MissingOf
  <2>3. i' <= Count(mounts, 0, p') BY <1>1
  <2>4. \A m \in Missing' : p' <= m /\ seq'.index - i' <= Count(mounts', p', m) BY <2>1, <2>2
  <2>5. i' <= seq'.index BY <2>1
  <2>6. QED BY <2>3, <2>4, <2>5 DEF StartMisses
<1>4. (ShowMisses /\ RestMisses /\ EndMisses)' BY DEF ShowMisses, RestMisses, EndMisses, AtEnd, Idle
<1>5. QED BY <1>2, <1>3, <1>4

LEMMA NoneHiddenInit == Init => NoneHidden
<1> SUFFICES ASSUME Init PROVE NoneHidden OBVIOUS
<1>0. pc = "user" /\ ns_alive /\ seq.index = 0 /\ mounts \in SUBSET Mount /\ ~AtEnd
  BY DEF Init, NewSeq, AtEnd
<1>1. \A m \in Missing : seq.index <= Count(mounts, 0, m) BY <1>0, CountType
<1>2. QED BY <1>0, <1>1
  DEF NoneHidden, OnTree, StartMisses, ShowMisses, RestMisses, EndMisses, AtEnd

\* A position computed afresh.
LEMMA NoneHiddenFresh ==
  ASSUME IInv', seq'.index = 0, pc' \in {"user", "resume"}, Growing' => ns_alive'
  PROVE  NoneHidden'
<1>1. \A m : Count(mounts', 0, m) \in Nat BY CountType DEF IInv, TypeOK
<1>2. RestMisses' BY <1>1 DEF RestMisses
<1>3. QED BY <1>2 DEF NoneHidden, OnTree, StartMisses, ShowMisses, EndMisses, AtEnd

LEMMA NoneHiddenCall ==
  ASSUME IInv, IInv', NoneHidden, Call
  PROVE  NoneHidden'
<1>1. ASSUME NEW n \in 1 .. MaxRead, NEW g \in 0 .. n, Read(n, g) PROVE NoneHidden'
  <2>1. CASE f_pos = 0
    <3>1. seq' = [seq EXCEPT !.index = 0, !.left = <<>>] /\ pc' = "resume" /\ Anew(0)
          /\ ns_alive' = ns_alive
      BY <1>1, <2>1 DEF Read, tree
    <3>2. seq'.index = 0 BY <3>1 DEF IInv, TypeOK
    <3>3. Growing' => ns_alive' BY <3>1 DEF Anew, Growing
    <3>4. QED BY <3>1, <3>2, <3>3, NoneHiddenFresh
  <2>2. CASE f_pos # 0
    <3>1. /\ pc = "user" /\ pc' = "resume"
          /\ UNCHANGED <<seq, since, shown, stayed, ns_alive, mounts, p, i>>
      BY <1>1, <2>2 DEF Read, history, tree
    <3>2. Missing' = Missing BY <3>1 DEF Missing, Ready, Place
    <3>3. QED BY <3>1, <3>2
      DEF NoneHidden, Growing, OnTree, StartMisses, ShowMisses, RestMisses, EndMisses, AtEnd, Idle
  <2>3. QED BY <2>1, <2>2
<1>2. ASSUME NEW o \in Offset, Lseek(o) PROVE NoneHidden'
  <2>1. CASE o = 0
    <3>1. seq'.index = 0 /\ pc' \in {"user", "resume"} /\ (Growing' => ns_alive')
      BY <1>2, <2>1 DEF Lseek, Anew, tree, Growing, IInv, TypeOK
    <3>2. QED BY <3>1, NoneHiddenFresh
  <2>2. CASE o # 0 BY <1>2, <2>2 DEF Lseek, Anew, NoneHidden, Growing
  <2>3. QED BY <2>1, <2>2
<1>3. ASSUME Reopen PROVE NoneHidden'
  <2>1. seq'.index = 0 /\ pc' \in {"user", "resume"} /\ (Growing' => ns_alive')
    BY <1>3 DEF Reopen, Opened, NewSeq, Anew, tree, Growing
  <2>2. QED BY <2>1, NoneHiddenFresh
<1>4. QED BY <1>1, <1>2, <1>3 DEF Call

\* A mount that comes only adds to what is counted.
LEMMA NoneHiddenMountOne ==
  ASSUME IInv, IInv', NoneHidden, NEW q \in Mount, MountOne(q)
  PROVE  NoneHidden'
<1> SUFFICES ASSUME Growing'
             PROVE  (ns_alive /\ OnTree /\ StartMisses /\ ShowMisses /\ RestMisses /\ EndMisses)'
  BY DEF NoneHidden
<1>0. /\ Growing /\ mounts \subseteq mounts' /\ ns_alive' = ns_alive
      /\ UNCHANGED <<seq, got, pc, p, i, stayed, shown>>
  BY DEF MountOne, Growing, IInv, TypeOK
<1>1. ns_alive /\ OnTree /\ StartMisses /\ ShowMisses /\ RestMisses /\ EndMisses
  BY <1>0 DEF NoneHidden
<1>2. Missing' = Missing /\ Reached' = Reached BY <1>0 DEF Missing, Ready, Place, Reached
<1>3. \A a, b \in Nat : Count(mounts, a, b) <= Count(mounts', a, b)
  <2>1. mounts' \in SUBSET Mount /\ mounts \in SUBSET mounts' BY <1>0, NumbersOf DEF IInv, TypeOK
  <2>2. QED BY <2>1, CountMonotone
<1>4. /\ p \in Nat /\ p + 1 \in Nat /\ i \in Nat /\ seq.index \in Nat /\ Reached \in Nat
      /\ \A m \in Missing : m \in Nat
      /\ \A a, b : Count(mounts, a, b) \in Nat /\ Count(mounts', a, b) \in Nat
  <2>1. \A a, b : Count(mounts', a, b) \in Nat BY CountType DEF IInv, TypeOK
  <2>2. QED BY <2>1, NumbersOf, MissingOf
<1>5. \A n \in Int, a, b \in Nat : n <= Count(mounts, a, b) => n <= Count(mounts', a, b)
  <2> SUFFICES ASSUME NEW n \in Int, NEW a \in Nat, NEW b \in Nat, n <= Count(mounts, a, b)
               PROVE  n <= Count(mounts', a, b) OBVIOUS
  <2>1. Count(mounts, a, b) <= Count(mounts', a, b) BY <1>3
  <2>2. Count(mounts, a, b) \in Nat /\ Count(mounts', a, b) \in Nat BY <1>4
  <2>3. QED BY <2>1, <2>2
<1>6. OnTree' BY <1>0, <1>1, <1>2 DEF OnTree
<1>7. StartMisses'
  <2> SUFFICES ASSUME pc = "start"
               PROVE  /\ i <= seq.index
                      /\ p # NULL => /\ i <= Count(mounts', 0, p)
                                     /\ \A m \in Missing :
                                          p <= m /\ seq.index - i <= Count(mounts', p, m)
    BY <1>0, <1>2 DEF StartMisses
  <2>1. p # NULL => i <= Count(mounts', 0, p) BY <1>1, <1>4, <1>5 DEF StartMisses
  <2>2. ASSUME p # NULL, NEW m \in Missing
        PROVE  p <= m /\ seq.index - i <= Count(mounts', p, m)
    <3>1. p <= m /\ seq.index - i <= Count(mounts, p, m) BY <1>1, <2>2 DEF StartMisses
    <3>2. seq.index - i \in Int BY <1>4
    <3>3. QED BY <1>4, <1>5, <3>1, <3>2
  <2>3. QED BY <1>1, <2>1, <2>2 DEF StartMisses
<1>8. ShowMisses'
  <2>1. /\ Reached <= Count(mounts, 0, p) => Reached <= Count(mounts', 0, p)
        /\ Reached <= Count(mounts, 0, p + 1) => Reached <= Count(mounts', 0, p + 1)
    BY <1>4, <1>5
  <2>2. QED BY <1>0, <1>1, <1>2, <2>1 DEF ShowMisses
<1>9. RestMisses'
  <2> SUFFICES ASSUME pc \in Idle \cup {"copy"}, NEW m \in Missing
               PROVE  seq.index <= Count(mounts', 0, m)
    BY <1>0, <1>2 DEF RestMisses
  <2>1. seq.index <= Count(mounts, 0, m) BY <1>1 DEF RestMisses
  <2>2. QED BY <1>4, <1>5, <2>1
<1>10. EndMisses' BY <1>0, <1>1, <1>2 DEF EndMisses, AtEnd
<1>11. QED BY <1>0, <1>1, <1>6, <1>7, <1>8, <1>9, <1>10
LEMMA NoneHiddenStartPasses ==
  ASSUME IInv, IInv', NoneHidden, StartPasses
  PROVE  NoneHidden'
<1> SUFFICES ASSUME Growing'
             PROVE  (ns_alive /\ OnTree /\ StartMisses /\ ShowMisses /\ RestMisses /\ EndMisses)'
  BY DEF NoneHidden
<1>s. p' \in RbNext(p) /\ since' = since BY Steps DEF StartPasses, Growing, IInv
<1>0. Growing /\ p # NULL /\ pc = "start" /\ pc' = "start" /\ p' \in RbNext(p)
      /\ (Skip(p) \/ i # seq.index) /\ i' = (IF Skip(p) THEN i ELSE i + 1)
      /\ UNCHANGED <<seq, stayed, shown, mounts, ns_alive>>
  BY <1>s DEF StartPasses, Growing, tree
<1>1. ns_alive /\ OnTree /\ StartMisses /\ ShowMisses /\ RestMisses /\ EndMisses
  BY <1>0 DEF NoneHidden
<1>2. Missing' = Missing BY <1>0 DEF Missing, Ready, Place
<1>3. p \in mounts BY <1>0, <1>1 DEF OnTree
<1>4. /\ i <= seq.index /\ i <= Count(mounts, 0, p)
      /\ \A m \in Missing : p <= m /\ seq.index - i <= Count(mounts, p, m)
  BY <1>0, <1>1 DEF StartMisses
<1>5. /\ p \in Nat /\ p' \in Nat /\ i \in Nat /\ seq.index \in Nat /\ mounts \in SUBSET Mount
      /\ \A m \in Missing : m \in Nat /\ m \in mounts /\ ~Skip(m)
      /\ \A a, b : Count(mounts, a, b) \in Nat
  <2>1. p' \in Mount \cup {NULL} BY <1>0, Nodes DEF IInv
  <2>2. QED BY <2>1, NumbersOf, MissingOf
<1>6. i' \in Nat /\ i' <= seq.index BY <1>0, <1>4, <1>5
<1>7. \A m \in Missing : p < m
  <2> SUFFICES ASSUME NEW m \in Missing PROVE p < m OBVIOUS
  <2>1. SUFFICES ASSUME m = p PROVE FALSE BY <1>4, <1>5
  <2>2. i # seq.index BY <1>0, <1>5, <2>1
  <2>3. \A k \in mounts : ~(p <= k /\ k < m)
    <3>1. mounts \subseteq Nat BY NumbersOf
    <3>2. QED BY <1>5, <2>1, <3>1
  <2>4. Count(mounts, p, m) = 0 BY <1>5, <2>3, CountNone
  <2>5. QED BY <1>4, <1>5, <2>2, <2>4
<1>8. p' = NULL => Missing = {}
  <2>1. p' = NULL => \A k \in mounts : k <= p BY <1>0, <1>3, Walked DEF IInv
  <2>2. QED BY <1>5, <1>7, <2>1
<1>9. ASSUME p' # NULL
      PROVE  /\ p' \in mounts /\ i' <= Count(mounts, 0, p')
             /\ \A m \in Missing : p' <= m /\ seq.index - i' <= Count(mounts, p', m)
  <2>1. /\ p' \in mounts /\ p < p' /\ \A k \in mounts : k <= p \/ p' <= k
        /\ ~Skip(p) => Count(mounts, 0, p') = Count(mounts, 0, p) + 1
        /\ Skip(p) => Count(mounts, 0, p') = Count(mounts, 0, p)
        /\ \A b \in Nat : p < b /\ ~Skip(p) => Count(mounts, p, b) = Count(mounts, p', b) + 1
        /\ \A b \in Nat : Skip(p) => Count(mounts, p, b) = Count(mounts, p', b)
    BY <1>0, <1>3, <1>9, Walked DEF IInv
  <2>2. i' <= Count(mounts, 0, p') BY <1>0, <1>4, <1>5, <2>1
  <2>3. ASSUME NEW m \in Missing PROVE p' <= m /\ seq.index - i' <= Count(mounts, p', m)
    <3>1. p' <= m BY <1>5, <1>7, <2>1
    <3>2. seq.index - i <= Count(mounts, p, m) /\ p < m BY <1>4, <1>7
    <3>3. CASE Skip(p)
      <4>1. Count(mounts, p', m) = Count(mounts, p, m) BY <1>5, <2>1, <3>3
      <4>2. QED BY <1>0, <3>1, <3>2, <3>3, <4>1
    <3>4. CASE ~Skip(p)
      <4>1. Count(mounts, p, m) = Count(mounts, p', m) + 1 BY <1>5, <2>1, <3>2, <3>4
      <4>2. QED BY <1>0, <1>5, <3>1, <3>2, <3>4, <4>1
    <3>5. QED BY <3>3, <3>4
  <2>4. QED BY <2>1, <2>2, <2>3
<1>10. OnTree' BY <1>0, <1>2, <1>8, <1>9 DEF OnTree
<1>11. StartMisses' BY <1>0, <1>2, <1>6, <1>9 DEF StartMisses
<1>12. (ShowMisses /\ RestMisses /\ EndMisses)'
  BY <1>0 DEF ShowMisses, RestMisses, EndMisses, AtEnd, Idle
<1>13. QED BY <1>0, <1>1, <1>10, <1>11, <1>12

LEMMA NoneHiddenStartFinds ==
  ASSUME IInv, NoneHidden, StartFinds
  PROVE  NoneHidden'
<1> SUFFICES ASSUME Growing'
             PROVE  (ns_alive /\ OnTree /\ StartMisses /\ ShowMisses /\ RestMisses /\ EndMisses)'
  BY DEF NoneHidden
<1>0. Growing /\ p # NULL /\ pc = "start" /\ pc' = "show" /\ ~Skip(p) /\ i = seq.index
      /\ UNCHANGED <<seq, stayed, shown, mounts, ns_alive, p, i>>
  BY DEF StartFinds, Growing, history, tree
<1>1. ns_alive /\ OnTree /\ StartMisses /\ ShowMisses /\ RestMisses /\ EndMisses
  BY <1>0 DEF NoneHidden
<1>2. Missing' = Missing /\ Reached' = seq.index BY <1>0 DEF Missing, Ready, Place, Reached
<1>3. i <= Count(mounts, 0, p) /\ \A m \in Missing : p <= m BY <1>0, <1>1 DEF StartMisses
<1>4. OnTree' BY <1>0, <1>1, <1>2 DEF OnTree
<1>5. ShowMisses' BY <1>0, <1>2, <1>3 DEF ShowMisses
<1>6. (StartMisses /\ RestMisses /\ EndMisses)'
  BY <1>0 DEF StartMisses, RestMisses, EndMisses, AtEnd, Idle
<1>7. QED BY <1>0, <1>1, <1>4, <1>5, <1>6

\* The end of the file: mymounts_start came past every mount.
LEMMA NoneHiddenStartEnds ==
  ASSUME IInv, NoneHidden, StartEnds
  PROVE  NoneHidden'
<1> SUFFICES ASSUME Growing'
             PROVE  (ns_alive /\ OnTree /\ StartMisses /\ ShowMisses /\ RestMisses /\ EndMisses)'
  BY DEF NoneHidden
<1>0. Growing /\ p = NULL /\ pc = "start" /\ pc' \in {"resume", "done"}
      /\ UNCHANGED <<stayed, shown, mounts, ns_alive>>
  BY DEF StartEnds, Growing, history, tree
<1>1. ns_alive /\ OnTree BY <1>0 DEF NoneHidden
<1>2. seq.left = <<>> /\ seq'.left = <<>> BY <1>0 DEF StartEnds, IInv, Handed, TypeOK
<1>3. Missing' = Missing BY <1>0, <1>2 DEF Missing, Ready, Place
<1>4. Missing' = {} BY <1>0, <1>1, <1>3 DEF OnTree
<1>5. QED BY <1>0, <1>1, <1>4 DEF OnTree, StartMisses, ShowMisses, RestMisses, EndMisses

LEMMA NoneHiddenShow ==
  ASSUME IInv, IInv', NoneHidden, Show
  PROVE  NoneHidden'
<1> SUFFICES ASSUME Growing'
             PROVE  (ns_alive /\ OnTree /\ StartMisses /\ ShowMisses /\ RestMisses /\ EndMisses)'
  BY DEF NoneHidden
<1>0. /\ Growing /\ p # NULL /\ pc = "show" /\ pc' = "next" /\ p \in Mount
      /\ UNCHANGED <<stayed, shown, mounts, ns_alive, p, i>>
  BY NumbersOf DEF Show, Growing, IInv, Handed, history, tree
<1>1. ns_alive /\ OnTree /\ StartMisses /\ ShowMisses /\ RestMisses /\ EndMisses
  BY <1>0 DEF NoneHidden
<1>2. seq'.left = Shown /\ seq'.index = seq.index BY DEF Show, IInv, TypeOK
<1>3. Reached = seq.index /\ Reached' = seq.index + 1 BY <1>0, <1>2 DEF Reached
<1>4. /\ ~Skip(p) /\ seq.index <= Count(mounts, 0, p) /\ \A m \in Missing : p <= m
  BY <1>0, <1>1, <1>3 DEF ShowMisses
<1>5. p \in mounts BY <1>0, <1>1 DEF OnTree
<1> DEFINE n == Len(seq.left)
<1>6. /\ n \in Nat /\ LineLen[p] \in Nat \ {0} /\ Len(Shown) = n + LineLen[p]
      /\ \A j \in 1 .. n : Shown[j] = seq.left[j]
      /\ \A j \in 1 .. LineLen[p] : Shown[n + j] = <<p, j>>
  BY <1>0, ShownIs, Constants
<1>7. Place = 1 .. n /\ Place' = 1 .. n + LineLen[p] BY <1>2, <1>6 DEF Place
<1> HIDE DEF n
<1>8. \A m : Ready(m) => Ready(m)'
  <2>1. \A j \in Place : j \in Place' /\ seq'.left[j] = seq.left[j] BY <1>2, <1>6, <1>7
  <2>2. QED BY <2>1 DEF Ready
<1>9. Ready(p)'
  <2>1. n + LineLen[p] \in Place' /\ LineLen[p] \in 1 .. LineLen[p] BY <1>6, <1>7
  <2>2. seq'.left[n + LineLen[p]] = <<p, LineLen[p]>> BY <1>2, <1>6, <2>1
  <2>3. QED BY <1>0, <2>1, <2>2 DEF Ready
<1>10. /\ p \in Nat /\ seq.index \in Nat /\ mounts \in SUBSET Mount /\ mounts \subseteq Nat
       /\ \A m \in Missing : m \in Nat
       /\ \A a, b : Count(mounts, a, b) \in Nat
  BY NumbersOf, MissingOf
<1>11. Missing' \subseteq Missing /\ p \notin Missing' BY <1>0, <1>8, <1>9 DEF Missing
<1>12. \A m \in Missing' : p < m BY <1>4, <1>10, <1>11
<1>13. seq.index + 1 <= Count(mounts, 0, p + 1)
  <2>1. \A k \in mounts : ~Skip(k) => ((0 <= k /\ k < p + 1) <=> ((0 <= k /\ k < p) \/ k = p))
    BY <1>10
  <2>2. ~(0 <= p /\ p < p) BY <1>10
  <2>3. Count(mounts, 0, p + 1) = Count(mounts, 0, p) + 1
    BY <1>4, <1>5, <1>10, <2>1, <2>2, CountOneMore
  <2>4. QED BY <1>4, <1>10, <2>3
<1>14. OnTree' BY <1>0, <1>5 DEF OnTree
<1>15. ShowMisses' BY <1>0, <1>3, <1>12, <1>13 DEF ShowMisses
<1>16. (StartMisses /\ RestMisses /\ EndMisses)'
  BY <1>0 DEF StartMisses, RestMisses, EndMisses, AtEnd, Idle
<1>17. QED BY <1>0, <1>1, <1>14, <1>15, <1>16

\* Every missing mount is counted before itself at least up to a mount that is not past it.
LEMMA MissingBehind ==
  ASSUME IInv, NEW q \in Nat, NEW n \in Nat, n <= Count(mounts, 0, q), \A m \in Missing : q <= m
  PROVE  \A m \in Missing : n <= Count(mounts, 0, m)
<1> SUFFICES ASSUME NEW m \in Missing PROVE n <= Count(mounts, 0, m) OBVIOUS
<1>1. m \in Nat /\ q <= m /\ mounts \in SUBSET Mount BY MissingOf, NumbersOf
<1>2. Count(mounts, 0, q) <= Count(mounts, 0, m) BY <1>1, CountMonotone
<1>3. Count(mounts, 0, q) \in Nat /\ Count(mounts, 0, m) \in Nat BY NumbersOf
<1>4. QED BY <1>2, <1>3

LEMMA NoneHiddenShowOverflows ==
  ASSUME IInv, NoneHidden, ShowOverflows
  PROVE  NoneHidden'
<1> SUFFICES ASSUME Growing'
             PROVE  (ns_alive /\ OnTree /\ StartMisses /\ ShowMisses /\ RestMisses /\ EndMisses)'
  BY DEF NoneHidden
<1>0. TypeOK /\ Handed /\ pc = "show" /\ p \in Nat /\ p # NULL /\ seq.index \in Nat
  BY NumbersOf DEF IInv, ShowOverflows, Handed
<1>1. Growing /\ UNCHANGED <<stayed, shown, mounts, ns_alive>>
  BY DEF ShowOverflows, Growing, history, tree
<1>2. ns_alive /\ OnTree /\ StartMisses /\ ShowMisses /\ RestMisses /\ EndMisses
  BY <1>1 DEF NoneHidden
<1>3. Reached = seq.index BY <1>0 DEF Reached
<1>4. \A m \in Missing : seq.index <= Count(mounts, 0, m)
  <2>1. seq.index <= Count(mounts, 0, p) /\ \A m \in Missing : p <= m
    BY <1>0, <1>2, <1>3 DEF ShowMisses
  <2>2. QED BY <1>0, <2>1, MissingBehind
<1>5. CASE phase = "fill"
  <2>1. pc' = "copy" /\ seq' = seq BY <1>0, <1>5 DEF ShowOverflows
  <2>2. Missing' = Missing BY <1>1, <2>1 DEF Missing, Ready, Place
  <2>3. QED BY <1>1, <1>2, <1>4, <2>1, <2>2
    DEF OnTree, StartMisses, ShowMisses, RestMisses, EndMisses, AtEnd
<1>6. CASE phase # "fill"
  <2>1. /\ phase = "first"
        /\ seq' = [seq EXCEPT !.size = 2 * @, !.left = <<>>,
                              !.index = IF phase = "traverse" THEN 0 ELSE @]
        /\ pc' = "start" /\ i' = 0 /\ p' \in FirstNode
    BY <1>0, <1>1, <1>6 DEF ShowOverflows, Growing, Handed
  <2>2. seq'.left = seq.left /\ seq'.index = seq.index BY <1>0, <2>1 DEF Handed, TypeOK
  <2>3. Missing' = Missing BY <1>1, <2>2 DEF Missing, Ready, Place
  <2>4. QED BY <1>1, <1>2, <1>4, <2>1, <2>2, <2>3, NoneHiddenEnters
<1>7. QED BY <1>5, <1>6

LEMMA NoneHiddenNextSteps ==
  ASSUME IInv, NoneHidden, NextSteps
  PROVE  NoneHidden'
<1> SUFFICES ASSUME Growing'
             PROVE  (ns_alive /\ OnTree /\ StartMisses /\ ShowMisses /\ RestMisses /\ EndMisses)'
  BY DEF NoneHidden
<1>s. p' \in RbNext(p) /\ since' = since BY Steps DEF NextSteps, Growing, IInv
<1>0. /\ Growing /\ p # NULL /\ pc \in {"next", "advance"} /\ pc' = "advance"
      /\ (pc = "next" \/ Skip(p)) /\ p' \in RbNext(p)
      /\ UNCHANGED <<seq, stayed, shown, mounts, ns_alive>>
  BY <1>s, NumbersOf DEF NextSteps, Growing, IInv, Handed, tree
<1>1. ns_alive /\ OnTree /\ StartMisses /\ ShowMisses /\ RestMisses /\ EndMisses
  BY <1>0 DEF NoneHidden
<1>2. Missing' = Missing /\ Reached' = Reached BY <1>0 DEF Missing, Ready, Place, Reached
<1>3. p \in mounts BY <1>0, <1>1 DEF OnTree
<1>4. /\ p \in Nat /\ p' \in Nat
      /\ \A m \in Missing : m \in Nat /\ m \in mounts /\ ~Skip(m)
  <2>1. p' \in Mount \cup {NULL} BY <1>0, Nodes DEF IInv
  <2>2. QED BY <2>1, NumbersOf, MissingOf
<1>5. \A m \in Missing : p < m
  <2>1. CASE pc = "next" BY <1>1, <2>1 DEF ShowMisses
  <2>2. CASE pc = "advance"
    <3>1. Skip(p) /\ \A m \in Missing : p <= m BY <1>0, <1>1, <2>2 DEF ShowMisses
    <3>2. QED BY <1>4, <3>1
  <2>3. QED BY <1>0, <2>1, <2>2
<1>6. p' = NULL => Missing = {}
  <2>1. p' = NULL => \A k \in mounts : k <= p BY <1>0, <1>3, Walked DEF IInv
  <2>2. QED BY <1>4, <1>5, <2>1
<1>7. ASSUME p' # NULL
      PROVE  p' \in mounts /\ Reached <= Count(mounts, 0, p') /\ \A m \in Missing : p' <= m
  <2>1. /\ p' \in mounts /\ p < p' /\ \A k \in mounts : k <= p \/ p' <= k
        /\ Count(mounts, 0, p') = Count(mounts, 0, p + 1)
        /\ Skip(p) => Count(mounts, 0, p') = Count(mounts, 0, p)
    BY <1>0, <1>3, <1>7, Walked DEF IInv
  <2>2. \A m \in Missing : p' <= m BY <1>4, <1>5, <2>1
  <2>3. CASE pc = "next" BY <1>1, <2>1, <2>2, <2>3 DEF ShowMisses
  <2>4. CASE pc = "advance" BY <1>0, <1>1, <2>1, <2>2, <2>4 DEF ShowMisses
  <2>5. QED BY <1>0, <2>3, <2>4
<1>8. OnTree' BY <1>0, <1>2, <1>6, <1>7 DEF OnTree
<1>9. ShowMisses' BY <1>0, <1>2, <1>7 DEF ShowMisses
<1>10. (StartMisses /\ RestMisses /\ EndMisses)'
  BY <1>0 DEF StartMisses, RestMisses, EndMisses, AtEnd, Idle
<1>11. QED BY <1>0, <1>1, <1>8, <1>9, <1>10

LEMMA NoneHiddenNextInFill ==
  ASSUME IInv, NoneHidden, NextInFill
  PROVE  NoneHidden'
<1> SUFFICES ASSUME Growing'
             PROVE  (ns_alive /\ OnTree /\ StartMisses /\ ShowMisses /\ RestMisses /\ EndMisses)'
  BY DEF NoneHidden
<1>0. /\ Growing /\ pc = "advance" /\ pc' \in {"copy", "show"} /\ (p = NULL \/ ~Skip(p))
      /\ (pc' = "show" => p # NULL)
      /\ UNCHANGED <<stayed, shown, mounts, ns_alive, p, i>>
  BY DEF NextInFill, NextReturns, Growing, history, tree
<1>1. ns_alive /\ OnTree /\ StartMisses /\ ShowMisses /\ RestMisses /\ EndMisses
  BY <1>0 DEF NoneHidden
<1>2. seq'.left = seq.left /\ seq'.index = seq.index + 1
  BY DEF NextInFill, NextIndex, IInv, TypeOK
<1>3. Missing' = Missing /\ Reached' = Reached /\ Reached = seq.index + 1
  BY <1>0, <1>2 DEF Missing, Ready, Place, Reached
<1>4. OnTree' BY <1>0, <1>1, <1>3 DEF OnTree
<1>5. ShowMisses' BY <1>0, <1>1, <1>3 DEF ShowMisses
<1>6. RestMisses'
  <2>1. CASE p = NULL BY <1>0, <1>1, <1>3, <2>1 DEF OnTree, RestMisses
  <2>2. CASE p # NULL
    <3>1. Reached <= Count(mounts, 0, p) /\ \A m \in Missing : p <= m
      BY <1>0, <1>1, <2>2 DEF ShowMisses
    <3>2. p \in Nat /\ Reached \in Nat BY NumbersOf
    <3>3. \A m \in Missing : Reached <= Count(mounts, 0, m) BY <3>1, <3>2, MissingBehind
    <3>4. QED BY <1>0, <1>2, <1>3, <3>3 DEF RestMisses
  <2>3. QED BY <2>1, <2>2
<1>7. (StartMisses /\ EndMisses)' BY <1>0 DEF StartMisses, EndMisses, AtEnd
<1>8. QED BY <1>0, <1>1, <1>4, <1>5, <1>6, <1>7

\* What is taken is delivered: a line ready in the buffer is delivered or still in it.
LEMMA MissingCopyOut ==
  ASSUME IInv, CopyOut, since.zero
  PROVE  Missing' \subseteq Missing /\ seq'.index = seq.index
<1> DEFINE new == SubSeq(seq.left, 1, Taken)
           ended == {m \in Mount : since.zero /\ \E j \in 1 .. Taken : new[j] = <<m, LineLen[m]>>}
<1>0. TypeOK /\ Handed BY DEF IInv
<1>1. /\ Taken \in 0 .. Len(seq.left) /\ Len(seq.left) \in Nat
      /\ Len(seq'.left) = Len(seq.left) - Taken /\ stayed' = stayed
      /\ \A j \in 1 .. Len(seq.left) - Taken : seq'.left[j] = seq.left[Taken + j]
  BY TakenIs, CopyOutIs
<1>2. \A j \in 1 .. Taken : new[j] = seq.left[j]
  BY <1>0, <1>1, Halves DEF TypeOK
<1>3. shown' = shown \cup ended BY DEF CopyOut
<1>4. ASSUME NEW m \in Mount, Ready(m) PROVE m \in shown' \/ Ready(m)'
  <2>1. PICK j \in Place : seq.left[j] = <<m, LineLen[m]>> BY <1>4 DEF Ready
  <2>2. CASE j \in 1 .. Taken
    <3>1. new[j] = <<m, LineLen[m]>> BY <1>2, <2>1, <2>2
    <3>2. m \in ended BY <2>2, <3>1
    <3>3. QED BY <1>3, <3>2
  <2>3. CASE j \notin 1 .. Taken
    <3>1. /\ j - Taken \in 1 .. Len(seq.left) - Taken /\ Taken + (j - Taken) = j
          /\ j - Taken \in Place'
      BY <1>1, <2>3 DEF Place
    <3>2. seq'.left[j - Taken] = <<m, LineLen[m]>> BY <1>1, <2>1, <3>1
    <3>3. QED BY <3>1, <3>2 DEF Ready
  <2>4. QED BY <2>2, <2>3
<1>5. Missing \subseteq Mount /\ stayed \subseteq Mount BY <1>0 DEF TypeOK, Missing
<1> HIDE DEF new, ended
<1>6. Missing' \subseteq Missing BY <1>1, <1>3, <1>4, <1>5 DEF Missing
<1>7. seq'.index = seq.index BY <1>0 DEF CopyOut, TypeOK
<1>8. QED BY <1>6, <1>7
LEMMA NoneHiddenCopyLeftover ==
  ASSUME IInv, NoneHidden, CopyLeftover
  PROVE  NoneHidden'
<1> SUFFICES ASSUME Growing'
             PROVE  (ns_alive /\ OnTree /\ StartMisses /\ ShowMisses /\ RestMisses /\ EndMisses)'
  BY DEF NoneHidden
<1>0. CopyOut /\ pc = "resume" /\ UNCHANGED <<mounts, ns_alive, since>>
  BY DEF CopyLeftover, CopyOut, tree
<1>1. Growing /\ since.zero BY <1>0 DEF Growing
<1>2. ns_alive /\ RestMisses BY <1>1 DEF NoneHidden
<1>3. Missing' \subseteq Missing /\ seq'.index = seq.index BY <1>0, <1>1, MissingCopyOut
<1>4. \A m \in Missing : seq.index <= Count(mounts, 0, m) BY <1>0, <1>2 DEF RestMisses, Idle
<1>5. CASE seq'.left # <<>>
  <2>1. pc' = "done" BY <1>5 DEF CopyLeftover
  <2>2. QED BY <1>0, <1>2, <1>3, <1>4, <1>5, <2>1
    DEF OnTree, StartMisses, ShowMisses, RestMisses, EndMisses, AtEnd
<1>6. CASE seq'.left = <<>>
  <2>1. p' \in FirstNode /\ i' = 0 /\ pc' = "start" BY <1>6 DEF CopyLeftover, EnterStart
  <2>2. QED BY <1>0, <1>2, <1>3, <1>4, <2>1, NoneHiddenEnters
<1>7. QED BY <1>5, <1>6

LEMMA NoneHiddenNothingLeft ==
  ASSUME IInv, NoneHidden, NothingLeft
  PROVE  NoneHidden'
<1> SUFFICES ASSUME Growing'
             PROVE  (ns_alive /\ OnTree /\ StartMisses /\ ShowMisses /\ RestMisses /\ EndMisses)'
  BY DEF NoneHidden
<1>0. /\ Growing /\ pc = "resume" /\ pc' = "start" /\ i' = 0 /\ p' \in FirstNode
      /\ UNCHANGED <<seq, stayed, shown, mounts, ns_alive>>
  BY DEF NothingLeft, EnterStart, Growing, history, tree
<1>1. ns_alive /\ RestMisses BY <1>0 DEF NoneHidden
<1>2. Missing' = Missing BY <1>0 DEF Missing, Ready, Place
<1>3. \A m \in Missing : seq.index <= Count(mounts, 0, m) BY <1>0, <1>1 DEF RestMisses, Idle
<1>4. QED BY <1>0, <1>1, <1>2, <1>3, NoneHiddenEnters

\* There is a line to copy, so this read is not the end of the file.
LEMMA NoneHiddenCopyRecords ==
  ASSUME IInv, NoneHidden, CopyRecords
  PROVE  NoneHidden'
<1> SUFFICES ASSUME Growing'
             PROVE  (ns_alive /\ OnTree /\ StartMisses /\ ShowMisses /\ RestMisses /\ EndMisses)'
  BY DEF NoneHidden
<1>0. CopyOut /\ pc = "copy" /\ pc' = "done" /\ UNCHANGED <<mounts, ns_alive, since>>
  BY DEF CopyRecords, CopyOut, tree
<1>1. Growing /\ since.zero BY <1>0 DEF Growing
<1>2. ns_alive /\ RestMisses BY <1>1 DEF NoneHidden
<1>3. Missing' \subseteq Missing /\ seq'.index = seq.index BY <1>0, <1>1, MissingCopyOut
<1>4. \A m \in Missing : seq.index <= Count(mounts, 0, m) BY <1>0, <1>2 DEF RestMisses
<1>5. seq.left # <<>> BY <1>0 DEF IInv, Handed
<1>6. ~AtEnd' BY <1>0, <1>5, CopyOutIs DEF AtEnd
<1>7. QED BY <1>0, <1>2, <1>3, <1>4, <1>6
  DEF OnTree, StartMisses, ShowMisses, RestMisses, EndMisses

LEMMA NoneHiddenReturns ==
  ASSUME IInv, NoneHidden, ReadReturns \/ LseekReturns
  PROVE  NoneHidden'
<1>1. /\ pc \in Idle /\ pc' = "user" /\ (Growing' => Growing)
      /\ UNCHANGED <<seq, stayed, shown, mounts, ns_alive>>
  BY DEF ReadReturns, LseekReturns, Growing, history, tree, Idle
<1>2. Missing' = Missing BY <1>1 DEF Missing, Ready, Place
<1>3. QED BY <1>1, <1>2
  DEF NoneHidden, OnTree, StartMisses, ShowMisses, RestMisses, EndMisses, AtEnd

LEMMA NoneHiddenNext == IInv /\ IInv' /\ NoneHidden /\ [Next]_vars => NoneHidden'
<1> SUFFICES ASSUME IInv, IInv', NoneHidden, [Next]_vars PROVE NoneHidden' OBVIOUS
<1>1. CASE Call BY <1>1, NoneHiddenCall
<1>2. CASE NextInTraverse
  <2>1. ~Growing' BY <1>2 DEF NextInTraverse, IInv, Handed, Growing, history
  <2>2. QED BY <2>1 DEF NoneHidden
<1>3. CASE Running
  BY <1>2, <1>3, NoneHiddenStartPasses, NoneHiddenStartFinds, NoneHiddenStartEnds, NoneHiddenShow,
     NoneHiddenShowOverflows, NoneHiddenNextSteps, NoneHiddenNextInFill, NoneHiddenCopyLeftover,
     NoneHiddenNothingLeft, NoneHiddenCopyRecords, NoneHiddenReturns
  DEF Running
<1>4. CASE Others
  <2>1. ASSUME NEW m \in Mount, Umount(m) PROVE NoneHidden'
    <3>1. since'.lost BY <2>1 DEF Umount, IInv, TypeOK
    <3>2. QED BY <3>1 DEF NoneHidden, Growing
  <2>2. ASSUME FreeNamespace PROVE NoneHidden'
    <3>1. since'.lost BY <2>2 DEF FreeNamespace, IInv, TypeOK
    <3>2. QED BY <3>1 DEF NoneHidden, Growing
  <2>3. QED BY <1>4, <2>1, <2>2, NoneHiddenMountOne DEF Others
<1>5. CASE UNCHANGED vars
  <2>1. Missing' = Missing /\ Reached' = Reached BY <1>5 DEF vars, Missing, Ready, Place, Reached
  <2>2. QED BY <1>5, <2>1
    DEF vars, NoneHidden, Growing, OnTree, StartMisses, ShowMisses, RestMisses, EndMisses, AtEnd
<1>6. QED BY <1>1, <1>3, <1>4, <1>5 DEF Next, Undefined

\* However many mounts are made while the file is read in pieces of any size, a reader
\* that started at the beginning and sees the end was given every mount that was there
\* throughout, as long as none is made inside an rb_next.
THEOREM NothingHidden == Spec => []MountingHidesNothing
<1>1. Spec => []IInv BY InitInv, NextInv, PTL DEF Spec
<1>2. Spec => []NoneHidden BY <1>1, NoneHiddenInit, NoneHiddenNext, PTL DEF Spec
<1>3. NoneHidden => MountingHidesNothing
  <2> SUFFICES ASSUME NoneHidden, AtEnd, since.zero, ~since.lost, ~since.torn
               PROVE  {m \in stayed : ~Skip(m)} \subseteq shown
    BY DEF MountingHidesNothing
  <2>1. Missing = {} BY DEF NoneHidden, Growing, EndMisses
  <2>2. Place = {} BY EmptySeq DEF AtEnd, Place
  <2>3. QED BY <2>1, <2>2 DEF Missing, Ready
<1>4. QED BY <1>2, <1>3, PTL
-----------------------------------------------------------------------------
(* StillListing: how long the lines of some mounts are.                    *)

BytesOf(M) == {b \in Bytes : b[1] \in M}

LEMMA BytesFinite == IsFiniteSet(Bytes)
<1> DEFINE lines == [m \in Mount |-> {Line(m)[j] : j \in 1 .. LineLen[m]}]
<1>1. ASSUME NEW m \in Mount PROVE IsFiniteSet(lines[m])
  <2>1. LineLen[m] \in Nat BY Constants
  <2>2. lines[m] = Range(Line(m)) BY DEF Range, Line
  <2>3. Line(m) \in [1 .. LineLen[m] -> Bytes] BY <2>1, ByteForm DEF Line
  <2>4. Line(m) \in Surjection(1 .. LineLen[m], Range(Line(m))) BY <2>3, Fun_RangeProperties
  <2>5. IsFiniteSet(1 .. LineLen[m]) BY <2>1, FS_Interval
  <2>6. QED BY <2>2, <2>4, <2>5, FS_Surjection
<1>2. lines \in [Mount -> Range(lines)] /\ Bytes = UNION Range(lines) BY DEF Range, Bytes
<1>3. \A T \in Range(lines) : IsFiniteSet(T) BY <1>1 DEF Range
<1> HIDE DEF lines
<1>4. lines \in Surjection(Mount, Range(lines)) BY <1>2, Fun_RangeProperties
<1>5. IsFiniteSet(Range(lines)) BY <1>4, Constants, FS_Surjection
<1>6. QED BY <1>2, <1>3, <1>5, FS_UNION

LEMMA LengthType ==
  \A M : IsFiniteSet(BytesOf(M)) /\ Length(M) \in Nat /\ Length(M) = Cardinality(BytesOf(M))
<1> SUFFICES ASSUME NEW M
             PROVE  IsFiniteSet(BytesOf(M)) /\ Length(M) \in Nat /\ Length(M) = Cardinality(BytesOf(M))
  OBVIOUS
<1>1. BytesOf(M) \in SUBSET Bytes /\ Length(M) = Cardinality(BytesOf(M)) BY DEF BytesOf, Length
<1>2. IsFiniteSet(BytesOf(M)) BY <1>1, BytesFinite, FS_Subset
<1>3. QED BY <1>1, <1>2, FS_CardinalityType

LEMMA LengthNone == Length({}) = 0
<1>1. BytesOf({}) = {} BY DEF BytesOf
<1>2. QED BY <1>1, LengthType, FS_EmptySet

LEMMA LengthMonotone ==
  ASSUME NEW M, NEW N, M \subseteq N
  PROVE  Length(M) <= Length(N)
<1>1. BytesOf(M) \in SUBSET BytesOf(N) BY DEF BytesOf
<1>2. QED BY <1>1, LengthType, FS_Subset

\* One mount more makes a listing longer by its line.
LEMMA LengthMore ==
  ASSUME NEW M, NEW m \in Mount, m \notin M
  PROVE  Length(M \cup {m}) = Length(M) + LineLen[m]
<1>1. BytesOf(M \cup {m}) = BytesOf(M) \cup BytesOf({m}) /\ BytesOf(M) \cap BytesOf({m}) = {}
  BY DEF BytesOf
<1>2. LineLen[m] \in Nat /\ Cardinality(BytesOf({m})) = LineLen[m]
  <2>0. LineLen[m] \in Nat BY Constants
  <2>1. /\ Line(m) \in [1 .. LineLen[m] -> BytesOf({m})]
        /\ \A j \in 1 .. LineLen[m] : Line(m)[j] = <<m, j>>
    BY <2>0, ByteForm DEF Line, BytesOf
  <2>2. ASSUME NEW b \in BytesOf({m}) PROVE \E j \in 1 .. LineLen[m] : Line(m)[j] = b
    <3>1. b \in Bytes /\ b[1] = m BY DEF BytesOf
    <3>2. PICK k \in Mount, j \in Nat : j \in 1 .. LineLen[k] /\ b = <<k, j>> BY <3>1, ByteForm
    <3>3. k = m BY <3>1, <3>2
    <3>4. QED BY <2>1, <3>2, <3>3
  <2>3. \A j, k \in 1 .. LineLen[m] : Line(m)[j] = Line(m)[k] => j = k BY <2>1
  <2>4. Line(m) \in Bijection(1 .. LineLen[m], BytesOf({m})) BY <2>1, <2>2, <2>3, Fun_IsBij
  <2>5. ExistsBijection(1 .. LineLen[m], BytesOf({m})) BY <2>4 DEF ExistsBijection
  <2>6. IsFiniteSet(1 .. LineLen[m]) /\ Cardinality(1 .. LineLen[m]) = LineLen[m]
    BY <2>0, FS_Interval
  <2>7. QED BY <2>0, <2>5, <2>6, FS_Bijection
<1>3. /\ IsFiniteSet(BytesOf(M)) /\ IsFiniteSet(BytesOf({m}))
      /\ Length(M) = Cardinality(BytesOf(M)) /\ Length(M) \in Nat
      /\ Length(M \cup {m}) = Cardinality(BytesOf(M \cup {m}))
  BY LengthType
<1>4. Cardinality(BytesOf(M) \cup BytesOf({m})) =
        Cardinality(BytesOf(M)) + Cardinality(BytesOf({m})) - Cardinality({})
  BY <1>1, <1>3, FS_Union
<1>5. Cardinality({}) = 0 BY FS_EmptySet
<1>6. Length(M \cup {m}) = Cardinality(BytesOf(M) \cup BytesOf({m})) BY <1>1, <1>3
<1>7. QED BY <1>2, <1>3, <1>4, <1>5, <1>6

-----------------------------------------------------------------------------
(* StillListing: positions and offsets.                                    *)

\* Position k of a listing is where the k-th mount of it stands, from 0: its offset,
\* and that no mount stands at it or after.
From(T, k) == Length({m \in Listed(T) : Count(T, 0, m) < k})
Past(T, k) == \A m \in Listed(T) : Count(T, 0, m) < k

LEMMA ListedType ==
  ASSUME NEW T \in SUBSET Mount
  PROVE  /\ Mount \subseteq Nat \ {NULL}
         /\ \A m \in Listed(T) : m \in Nat /\ m \in Mount /\ m \in T /\ ~Skip(m)
         /\ \A m \in T : m \in Nat /\ (~Skip(m) => m \in Listed(T))
         /\ \A a, b : Count(T, a, b) \in Nat
         /\ \A k : From(T, k) \in Nat
         /\ \A m : Begins(T, m) \in Nat
         /\ LastLine(T) \in Nat /\ Length(Listed(T)) \in Nat
<1>1. Mount \subseteq Nat \ {NULL} BY Constants DEF NULL
<1>2. \A a, b : Count(T, a, b) \in Nat BY CountType
<1>3. QED BY <1>1, <1>2, LengthType DEF Listed, From, Begins, LastLine

LEMMA CountOrder ==
  ASSUME NEW T \in SUBSET Mount, NEW k \in Listed(T), NEW m \in Listed(T)
  PROVE  /\ Count(T, 0, k) < Count(T, 0, m) <=> k < m
         /\ Count(T, 0, k) < Count(T, 0, m) + 1 <=> k < m \/ k = m
<1>1. /\ k \in Nat /\ m \in Nat /\ Count(T, 0, k) \in Nat /\ Count(T, 0, m) \in Nat
      /\ \A h \in T : h \in Nat
  BY ListedType
<1>2. ASSUME NEW a \in Listed(T), NEW b \in Nat, a < b
      PROVE  Count(T, 0, a) + 1 <= Count(T, 0, b)
  <2>1. a \in Nat /\ a \in T /\ ~Skip(a) BY ListedType
  <2>2. \A h \in T : ~Skip(h) => ((0 <= h /\ h < a + 1) <=> ((0 <= h /\ h < a) \/ h = a))
    BY <1>1, <2>1
  <2>3. ~(0 <= a /\ a < a) BY <2>1
  <2>4. Count(T, 0, a + 1) = Count(T, 0, a) + 1 BY <2>1, <2>2, <2>3, CountOneMore
  <2>5. Count(T, 0, a + 1) <= Count(T, 0, b) BY <1>2, <2>1, CountMonotone
  <2>6. QED BY <2>4, <2>5
<1>3. k < m => Count(T, 0, k) + 1 <= Count(T, 0, m) BY <1>1, <1>2
<1>4. m < k => Count(T, 0, m) + 1 <= Count(T, 0, k) BY <1>1, <1>2
<1>5. QED BY <1>1, <1>3, <1>4

\* The line of a mount lies from the offset of its position to that of the next.
LEMMA LineLies ==
  ASSUME NEW T \in SUBSET Mount, NEW m \in Listed(T)
  PROVE  /\ From(T, Count(T, 0, m)) = Begins(T, m)
         /\ From(T, Count(T, 0, m) + 1) = Begins(T, m) + LineLen[m]
<1> DEFINE before == {k \in Listed(T) : k < m}
<1>1. m \in Mount /\ m \in Nat BY ListedType
<1>2. {k \in Listed(T) : Count(T, 0, k) < Count(T, 0, m)} = before BY CountOrder
<1>3. {k \in Listed(T) : Count(T, 0, k) < Count(T, 0, m) + 1} = before \cup {m}
  BY CountOrder
<1>4. m \notin before BY <1>1
<1>5. Begins(T, m) = Length(before) BY DEF Begins
<1> HIDE DEF before
<1>6. Length(before \cup {m}) = Length(before) + LineLen[m] BY <1>1, <1>4, LengthMore
<1>7. QED BY <1>2, <1>3, <1>5, <1>6 DEF From

LEMMA FromZero ==
  ASSUME NEW T \in SUBSET Mount
  PROVE  From(T, 0) = 0
<1>1. {m \in Listed(T) : Count(T, 0, m) < 0} = {} BY ListedType
<1>2. QED BY <1>1, LengthNone DEF From

LEMMA FromPast ==
  ASSUME NEW T, NEW k, Past(T, k)
  PROVE  From(T, k) = Length(Listed(T))
<1>1. {m \in Listed(T) : Count(T, 0, m) < k} = Listed(T) BY DEF Past
<1>2. QED BY <1>1 DEF From

\* The offset of the last position is that of the last line.
LEMMA FromLast ==
  ASSUME NEW T \in SUBSET Mount, NEW q \in Listed(T), Past(T, Count(T, 0, q) + 1)
  PROVE  LastLine(T) = From(T, Count(T, 0, q))
<1>1. \A k \in Listed(T) : k <= q
  <2> SUFFICES ASSUME NEW k \in Listed(T) PROVE k <= q OBVIOUS
  <2>1. k < q \/ k = q BY CountOrder DEF Past
  <2>2. QED BY <2>1, ListedType
<1> DEFINE last == CHOOSE m \in Listed(T) : \A k \in Listed(T) : k <= m
<1>2. last \in Listed(T) /\ \A k \in Listed(T) : k <= last BY <1>1
<1>3. last = q
  <2>1. last \in Nat /\ q \in Nat BY <1>2, ListedType
  <2>2. QED BY <1>1, <1>2, <2>1
<1>4. QED BY <1>3, LineLies DEF LastLine

\* The walk leaves the last mount of the tree.
LEMMA WalkedOff ==
  ASSUME NEW T \in SUBSET Mount, NEW q \in T, \A k \in T : k <= q
  PROVE  Past(T, IF Skip(q) THEN Count(T, 0, q) ELSE Count(T, 0, q) + 1)
<1> SUFFICES ASSUME NEW m \in Listed(T)
             PROVE  Count(T, 0, m) < IF Skip(q) THEN Count(T, 0, q) ELSE Count(T, 0, q) + 1
  BY DEF Past
<1>1. /\ m \in Nat /\ m \in T /\ ~Skip(m) /\ q \in Nat /\ \A k \in T : k \in Nat
      /\ Count(T, 0, m) \in Nat /\ Count(T, 0, q) \in Nat
  BY ListedType
<1>2. m <= q BY <1>1
<1>3. CASE Skip(q)
  <2>1. m < q BY <1>1, <1>2, <1>3
  <2>2. \A k \in T : ~Skip(k) => ((0 <= k /\ k < m + 1) <=> ((0 <= k /\ k < m) \/ k = m))
    BY <1>1
  <2>3. ~(0 <= m /\ m < m) BY <1>1
  <2>4. Count(T, 0, m + 1) = Count(T, 0, m) + 1 BY <1>1, <2>2, <2>3, CountOneMore
  <2>5. Count(T, 0, m + 1) <= Count(T, 0, q) BY <1>1, <2>1, CountMonotone
  <2>6. QED BY <1>1, <1>3, <2>4, <2>5
<1>4. CASE ~Skip(q)
  <2>1. q \in Listed(T) BY <1>4 DEF Listed
  <2>2. Count(T, 0, m) < Count(T, 0, q) + 1 BY <1>1, <1>2, <2>1, CountOrder
  <2>3. QED BY <1>4, <2>2
<1>5. QED BY <1>3, <1>4
-----------------------------------------------------------------------------
(* StillListing: the invariant.                                            *)

\* Which call runs in which loop, and that a read starts at the file position.
Called ==
  /\ call.kind = "none" <=> pc = "user"
  /\ call.kind = "read" => call.pos = f_pos
  /\ phase = "traverse" => call.kind = "lseek"
  /\ phase \in {"first", "fill"} \/ pc = "done" => call.kind = "read"

Alive == ns_alive \/ since.lost

\* The offset of the first byte in the buffer.
Base ==
  IF phase = "traverse" THEN at ELSE IF pc = "user" THEN f_pos ELSE call.pos + Len(got)

\* Byte b stands at offset o of the listing of T, counting from 1.
Stands(T, b, o) == b[1] \in Listed(T) /\ Begins(T, b[1]) + b[2] = o

\* The buffer and what was copied are cut from the listing, and the position of the
\* seq_file is where the buffer ends.
BufferStands ==
  /\ \A x \in Place : Stands(mounts, seq.left[x], Base + x)
  /\ Base + Len(seq.left) = From(mounts, Reached)

GotStands == \A x \in 1 .. Len(got) : Stands(mounts, got[x], call.pos + x)

\* traverse has not come to the offset it looks for, and will on some line.
Traverses ==
  phase = "traverse" =>
    /\ at < call.pos /\ call.pos <= LastLine(mounts)
    /\ at = From(mounts, seq.index)
    /\ pc = "start" => seq.index = 0

\* The mount a handler holds is the one at the position it counts.
Walks ==
  /\ pc = "start" =>
       /\ i <= seq.index
       /\ IF p = NULL THEN Past(mounts, i) ELSE p \in mounts /\ Count(mounts, 0, p) = i
  /\ pc \in {"show", "next"} => p \in Listed(mounts) /\ Count(mounts, 0, p) = seq.index
  /\ pc = "advance" =>
       /\ \E q \in Listed(mounts) : Count(mounts, 0, q) = seq.index
       /\ IF p = NULL THEN Past(mounts, Reached)
          ELSE p \in mounts /\ Count(mounts, 0, p) = Reached

Ends == AtEnd => Past(mounts, seq.index)

Steady == Still /\ ~since.late

Kept ==
  /\ Called /\ Alive
  /\ Steady => BufferStands /\ GotStands /\ Traverses /\ Walks /\ Ends

LEMMA SteadyIs ==
  ASSUME IInv, Kept, Steady
  PROVE  /\ ns_alive /\ BufferStands /\ GotStands /\ Traverses /\ Walks /\ Ends
         /\ mounts \in SUBSET Mount /\ Root \in Listed(mounts)
         /\ Len(seq.left) \in Nat /\ Len(got) \in Nat /\ call.pos \in Nat /\ at \in Nat
         /\ f_pos \in Nat /\ Base \in Nat /\ i \in Nat /\ seq.index \in Nat /\ Reached \in Nat
         /\ p \in Nat
<1>1. ns_alive BY DEF Kept, Steady, Still, Alive
<1>2. mounts \in SUBSET Mount /\ Root \in mounts BY <1>1 DEF IInv, TypeOK
<1>3. Root \in Listed(mounts) BY <1>2 DEF Listed, Skip
<1>4. Len(seq.left) \in Nat /\ Len(got) \in Nat BY TakenIs
<1>5. call.pos \in Nat /\ at \in Nat /\ f_pos \in Nat BY DEF IInv, TypeOK
<1>6. Base \in Nat BY <1>4, <1>5 DEF Base
<1>7. QED BY <1>1, <1>2, <1>3, <1>4, <1>5, <1>6, NumbersOf DEF Kept

LEMMA KeptInit == Init => Kept
<1> SUFFICES ASSUME Init PROVE Kept OBVIOUS
<1>0. /\ pc = "user" /\ phase = "none" /\ call = NoCall /\ ns_alive /\ f_pos = 0
      /\ seq.left = <<>> /\ seq.index = 0 /\ got = <<>> /\ mounts \in SUBSET Mount
  BY DEF Init, NewSeq
<1>1. Called /\ Alive BY <1>0 DEF Called, Alive, NoCall
<1>2. Len(<<>>) = 0 BY EmptySeq
<1>3. BufferStands
  <2>1. Place = {} /\ Base = 0 /\ Reached = 0 BY <1>0, <1>2 DEF Place, Base, Reached
  <2>2. QED BY <1>0, <1>2, <2>1, FromZero DEF BufferStands
<1>4. GotStands BY <1>0, <1>2 DEF GotStands
<1>5. QED BY <1>0, <1>1, <1>3, <1>4 DEF Kept, Traverses, Walks, Ends, AtEnd

\* A position computed afresh, before the first byte.
LEMMA KeptFresh ==
  ASSUME IInv', Called', Alive', pc' \in {"user", "resume"}, phase' = "none",
         seq'.index = 0, seq'.left = <<>>, got' = <<>>,
         IF pc' = "user" THEN f_pos' = 0 ELSE call'.pos = 0
  PROVE  Kept'
<1>0. mounts' \in SUBSET Mount BY DEF IInv, TypeOK
<1>1. Len(<<>>) = 0 BY EmptySeq
<1>2. Place' = {} /\ Base' = 0 /\ Reached' = 0 BY <1>1 DEF Place, Base, Reached
<1>3. BufferStands' BY <1>0, <1>1, <1>2, FromZero DEF BufferStands
<1>4. GotStands' BY <1>1 DEF GotStands
<1>5. QED BY <1>3, <1>4 DEF Kept, Traverses, Walks, Ends, AtEnd

\* The start of a walk for the position of the seq_file.
LEMMA WalksEnters ==
  ASSUME TypeOK, ns_alive, mounts' = mounts, p' \in FirstNode, i' = 0, pc' = "start",
         seq'.index \in Nat
  PROVE  Walks'
<1>1. p' \in mounts /\ p' # NULL /\ Count(mounts, 0, p') = 0 BY WalkStarts
<1>2. QED BY <1>1 DEF Walks

LEMMA CalledNext == IInv /\ Called /\ [Next]_vars => Called'
<1> SUFFICES ASSUME IInv, Called, [Next]_vars PROVE Called' OBVIOUS
<1>0. TypeOK /\ Handed /\ call.kind \in {"none", "read", "lseek"} BY DEF IInv, TypeOK
<1>1. CASE Call
  <2>0. pc = "user" => phase = "none" BY <1>0 DEF Handed, Idle
  <2>1. ASSUME NEW n \in 1 .. MaxRead, NEW g \in 0 .. n, Read(n, g) PROVE Called'
    BY <2>0, <2>1 DEF Read, Called
  <2>2. ASSUME NEW o \in Offset, Lseek(o) PROVE Called'
    <3>1. call'.kind = "lseek" /\ phase' \in {"none", "traverse"} /\ pc' \in {"resume", "start"}
      BY <2>0, <2>2 DEF Lseek, EnterStart
    <3>2. QED BY <3>1 DEF Called
  <2>3. ASSUME Reopen PROVE Called' BY <2>3 DEF Reopen, Called
  <2>4. QED BY <1>1, <2>1, <2>2, <2>3 DEF Call
<1>2. CASE StartPasses \/ StartFinds \/ Show \/ ShowOverflows \/ NextSteps \/ NextInFill
  <2>1. /\ pc # "user" /\ pc # "done" /\ pc' # "user" /\ pc' # "done" /\ UNCHANGED <<call, f_pos>>
        /\ phase' = "traverse" => phase = "traverse"
        /\ phase' \in {"first", "fill"} => phase \in {"first", "fill"}
    BY <1>2
    DEF StartPasses, StartFinds, Show, ShowOverflows, NextSteps, NextInFill, NextReturns
  <2>2. QED BY <2>1 DEF Called
<1>3. CASE StartEnds
  <2>1. phase # "none" BY <1>0, <1>3 DEF StartEnds, Handed, Idle
  <2>2. phase # "traverse" => phase \in {"first", "fill"} BY <1>0, <2>1 DEF TypeOK
  <2>3. QED BY <1>3, <2>2 DEF StartEnds, Called
<1>4. CASE NextInTraverse BY <1>4 DEF NextInTraverse, NextReturns, Called
<1>5. CASE CopyLeftover \/ NothingLeft
  <2>1. /\ call.kind = "read" /\ UNCHANGED <<call, f_pos>> /\ pc' \in {"done", "start"}
        /\ phase' # "traverse"
    <3>1. pc = "resume" /\ call.kind # "lseek" BY <1>5 DEF CopyLeftover, NothingLeft
    <3>2. call.kind = "read" /\ phase = "none" BY <1>0, <3>1 DEF Called, Handed, Idle
    <3>3. QED BY <1>5, <3>2 DEF CopyLeftover, NothingLeft, EnterStart
  <2>2. QED BY <2>1 DEF Called
<1>6. CASE CopyRecords
  <2>1. call.kind = "read" BY <1>0, <1>6 DEF CopyRecords, Handed, Called
  <2>2. QED BY <1>6, <2>1 DEF CopyRecords, Called
<1>7. CASE ReadReturns \/ LseekReturns
  <2>1. phase = "none" BY <1>0, <1>7 DEF ReadReturns, LseekReturns, Handed, Idle
  <2>2. QED BY <1>7, <2>1 DEF ReadReturns, LseekReturns, NoCall, Called
<1>8. CASE Others
  <2>1. UNCHANGED <<call, f_pos, phase, pc>> BY <1>8 DEF Others, MountOne, Umount, FreeNamespace
  <2>2. QED BY <2>1 DEF Called
<1>9. CASE UNCHANGED vars BY <1>9 DEF vars, Called
<1>10. QED BY <1>1, <1>2, <1>3, <1>4, <1>5, <1>6, <1>7, <1>8, <1>9 DEF Next, Running, Undefined

LEMMA AliveNext == IInv /\ Alive /\ [Next]_vars => Alive'
<1> SUFFICES ASSUME IInv, Alive, [Next]_vars PROVE Alive' OBVIOUS
<1>1. ASSUME NEW o, Anew(o), ns_alive' = ns_alive PROVE Alive'
  <2>1. since'.lost = ~ns_alive BY <1>1 DEF Anew
  <2>2. ns_alive \in BOOLEAN BY DEF IInv, TypeOK
  <2>3. QED BY <1>1, <2>1, <2>2 DEF Alive
<1>2. CASE Call
  <2>1. ASSUME NEW n \in 1 .. MaxRead, NEW g \in 0 .. n, Read(n, g) PROVE Alive'
    <3>1. CASE f_pos = 0 BY <1>1, <2>1, <3>1 DEF Read, tree
    <3>2. CASE f_pos # 0 BY <2>1, <3>2 DEF Read, tree, history, Alive
    <3>3. QED BY <3>1, <3>2
  <2>2. ASSUME NEW o \in Offset, Lseek(o) PROVE Alive' BY <1>1, <2>2 DEF Lseek, tree
  <2>3. ASSUME Reopen PROVE Alive' BY <1>1, <2>3 DEF Reopen, Opened, tree
  <2>4. QED BY <1>2, <2>1, <2>2, <2>3 DEF Call
<1>3. CASE Running
  <2>1. ns_alive' = ns_alive
    BY <1>3 DEF Running, StartPasses, StartFinds, StartEnds, Show, ShowOverflows, NextSteps,
      NextInFill, NextInTraverse, CopyLeftover, NothingLeft, CopyRecords, CopyOut, ReadReturns,
      LseekReturns, tree
  <2>2. since'.lost = since.lost BY <1>3, RunningSince DEF IInv, TypeOK
  <2>3. QED BY <2>1, <2>2 DEF Alive
<1>4. CASE Others
  <2>1. \/ since' = [since EXCEPT !.gained = TRUE] /\ ns_alive' = ns_alive
        \/ since'.lost
    BY <1>4 DEF Others, MountOne, Umount, FreeNamespace, IInv, TypeOK
  <2>2. QED BY <2>1 DEF Alive, IInv, TypeOK
<1>5. CASE UNCHANGED vars BY <1>5 DEF vars, Alive
<1>6. QED BY <1>2, <1>3, <1>4, <1>5 DEF Next, Undefined

LEMMA KeptCall ==
  ASSUME IInv, IInv', Kept, Called', Alive', Call
  PROVE  Kept'
<1>0. TypeOK /\ Handed BY DEF IInv
<1>1. pc = "user" => phase = "none" /\ got = <<>> /\ at = 0 BY <1>0 DEF Handed, Idle
<1>2. ASSUME NEW n \in 1 .. MaxRead, NEW g \in 0 .. n, Read(n, g) PROVE Kept'
  <2>1. /\ pc = "user" /\ pc' = "resume" /\ phase = "none" /\ call'.pos = f_pos
        /\ UNCHANGED <<mounts, phase, p, i, at, got>> /\ got = <<>>
    BY <1>1, <1>2 DEF Read, tree
  <2>2. CASE f_pos = 0
    <3>1. seq'.index = 0 /\ seq'.left = <<>> BY <1>0, <1>2, <2>2 DEF Read, TypeOK
    <3>2. QED BY <2>1, <2>2, <3>1, KeptFresh
  <2>3. CASE f_pos # 0
    <3>1. UNCHANGED <<seq, since>> BY <1>2, <2>3 DEF Read, history
    <3>2. SUFFICES ASSUME Steady'
                   PROVE  (BufferStands /\ GotStands /\ Traverses /\ Walks /\ Ends)'
      BY DEF Kept
    <3>3. Steady BY <3>1, <3>2 DEF Steady, Still
    <3>4. BufferStands /\ f_pos \in Nat BY <3>3, SteadyIs
    <3>5. Len(<<>>) = 0 BY EmptySeq
    <3>6. Base' = Base /\ Reached' = Reached /\ Place' = Place
      BY <2>1, <3>1, <3>4, <3>5 DEF Base, Reached, Place
    <3>7. BufferStands' BY <2>1, <3>1, <3>4, <3>6 DEF BufferStands
    <3>8. QED BY <2>1, <3>5, <3>7 DEF GotStands, Traverses, Walks, Ends, AtEnd
  <2>4. QED BY <2>2, <2>3
<1>3. ASSUME NEW o \in Offset, Lseek(o) PROVE Kept'
  <2>0. o \in Nat BY DEF Offset
  <2>1. /\ pc = "user" /\ phase = "none" /\ call'.pos = o /\ got = <<>> /\ at = 0
        /\ UNCHANGED <<mounts, at, got, ns_alive>>
    BY <1>1, <1>3 DEF Lseek, tree
  <2>2. seq'.index = 0 /\ seq'.left = <<>> BY <1>0, <1>3 DEF Lseek, TypeOK
  <2>3. CASE o = 0 BY <1>3, <2>1, <2>2, <2>3, KeptFresh DEF Lseek
  <2>4. CASE o # 0
    <3>1. pc' = "start" /\ phase' = "traverse" /\ i' = 0 /\ p' \in FirstNode
      BY <1>3, <2>4 DEF Lseek, EnterStart
    <3>2. SUFFICES ASSUME Steady'
                   PROVE  (BufferStands /\ GotStands /\ Traverses /\ Walks /\ Ends)'
      BY DEF Kept
    <3>3. ns_alive /\ ~(o > LastLine(mounts))
      <4>1. since'.late = (ns_alive /\ o > LastLine(mounts)) /\ since'.lost = ~ns_alive
        BY <1>3 DEF Lseek, Anew
      <4>2. QED BY <1>0, <3>2, <4>1 DEF TypeOK, Steady, Still
    <3>4. mounts \in SUBSET Mount /\ From(mounts, 0) = 0 /\ LastLine(mounts) \in Nat
      BY <1>0, FromZero, ListedType DEF TypeOK
    <3>5. Len(<<>>) = 0 BY EmptySeq
    <3>6. Base' = 0 /\ Reached' = 0 /\ Place' = {} BY <2>1, <2>2, <3>1, <3>5 DEF Base, Reached, Place
    <3>7. BufferStands' BY <2>1, <2>2, <3>4, <3>5, <3>6 DEF BufferStands
    <3>8. GotStands' BY <2>1, <3>5 DEF GotStands
    <3>9. Traverses' BY <2>0, <2>1, <2>2, <2>4, <3>3, <3>4 DEF Traverses
    <3>10. Walks' BY <1>0, <2>1, <2>2, <3>1, <3>3, WalksEnters
    <3>11. QED BY <3>1, <3>7, <3>8, <3>9, <3>10 DEF Ends, AtEnd
  <2>5. QED BY <2>3, <2>4
<1>4. ASSUME Reopen PROVE Kept'
  <2>1. /\ pc' = "user" /\ phase' = "none" /\ f_pos' = 0 /\ got' = <<>>
        /\ seq'.index = 0 /\ seq'.left = <<>>
    BY <1>1, <1>4 DEF Reopen, Opened, NewSeq
  <2>2. QED BY <2>1, KeptFresh
<1>5. QED BY <1>2, <1>3, <1>4 DEF Call

LEMMA KeptStartPasses ==
  ASSUME IInv, Turned', Kept, Called', Alive', StartPasses
  PROVE  Kept'
<1> SUFFICES ASSUME Steady'
             PROVE  (BufferStands /\ GotStands /\ Traverses /\ Walks /\ Ends)'
  BY DEF Kept
<1>s. p' \in RbNext(p) /\ since' = since
  BY Steps DEF StartPasses, Turned, Steady, Still, IInv
<1>0. /\ Steady /\ pc = "start" /\ pc' = "start" /\ p # NULL /\ (Skip(p) \/ i # seq.index)
      /\ i' = (IF Skip(p) THEN i ELSE i + 1) /\ p' \in RbNext(p)
      /\ UNCHANGED <<mounts, f_pos, seq, call, phase, at, got>>
  BY <1>s DEF StartPasses, Steady, Still, tree
<1>1. /\ BufferStands /\ GotStands /\ Traverses /\ Walks
      /\ mounts \in SUBSET Mount /\ i \in Nat /\ seq.index \in Nat
  BY <1>0, SteadyIs
<1>2. Base' = Base /\ Reached' = Reached /\ Place' = Place BY <1>0 DEF Base, Reached, Place
<1>3. (BufferStands /\ GotStands /\ Traverses /\ Ends)'
  BY <1>0, <1>1, <1>2 DEF BufferStands, GotStands, Traverses, Ends, AtEnd
<1>4. i <= seq.index /\ p \in mounts /\ Count(mounts, 0, p) = i BY <1>0, <1>1 DEF Walks
<1>5. i' <= seq.index BY <1>0, <1>1, <1>4
<1>6. CASE p' = NULL
  <2>1. \A k \in mounts : k <= p BY <1>0, <1>4, <1>6, Walked DEF IInv
  <2>2. Past(mounts, IF Skip(p) THEN Count(mounts, 0, p) ELSE Count(mounts, 0, p) + 1)
    BY <1>1, <1>4, <2>1, WalkedOff
  <2>3. Past(mounts, i') BY <1>0, <1>4, <2>2
  <2>4. QED BY <1>0, <1>3, <1>5, <1>6, <2>3 DEF Walks
<1>7. CASE p' # NULL
  <2>1. /\ p' \in mounts
        /\ ~Skip(p) => Count(mounts, 0, p') = Count(mounts, 0, p) + 1
        /\ Skip(p) => Count(mounts, 0, p') = Count(mounts, 0, p)
    BY <1>0, <1>4, <1>7, Walked DEF IInv
  <2>2. Count(mounts, 0, p') = i' BY <1>0, <1>4, <2>1
  <2>3. QED BY <1>0, <1>3, <1>5, <1>7, <2>1, <2>2 DEF Walks
<1>8. QED BY <1>6, <1>7

LEMMA KeptStartFinds ==
  ASSUME IInv, Kept, Called', Alive', StartFinds
  PROVE  Kept'
<1> SUFFICES ASSUME Steady'
             PROVE  (BufferStands /\ GotStands /\ Traverses /\ Walks /\ Ends)'
  BY DEF Kept
<1>0. /\ Steady /\ pc = "start" /\ pc' = "show" /\ p # NULL /\ ~Skip(p) /\ i = seq.index
      /\ UNCHANGED <<mounts, f_pos, seq, call, phase, at, got, p, i>>
  BY DEF StartFinds, Steady, Still, history, tree
<1>1. BufferStands /\ GotStands /\ Traverses /\ Walks BY <1>0, SteadyIs
<1>2. Base' = Base /\ Reached' = Reached /\ Place' = Place BY <1>0 DEF Base, Reached, Place
<1>3. (BufferStands /\ GotStands /\ Traverses /\ Ends)'
  BY <1>0, <1>1, <1>2 DEF BufferStands, GotStands, Traverses, Ends, AtEnd
<1>4. p \in mounts /\ Count(mounts, 0, p) = seq.index BY <1>0, <1>1 DEF Walks
<1>5. p \in Listed(mounts) BY <1>0, <1>4 DEF Listed
<1>6. QED BY <1>0, <1>3, <1>4, <1>5 DEF Walks

\* Only a read comes to the end of the tree here: traverse starts with position 0, and
\* the root is in the listing.
LEMMA KeptStartEnds ==
  ASSUME IInv, Kept, Called', Alive', StartEnds
  PROVE  Kept'
<1> SUFFICES ASSUME Steady'
             PROVE  (BufferStands /\ GotStands /\ Traverses /\ Walks /\ Ends)'
  BY DEF Kept
<1>0. TypeOK /\ Handed BY DEF IInv
<1>1. /\ Steady /\ pc = "start" /\ p = NULL
      /\ UNCHANGED <<mounts, f_pos, call, at, got, p, i>>
  BY DEF StartEnds, Steady, Still, history, tree
<1>2. /\ seq.left = <<>> /\ seq' = [seq EXCEPT !.left = <<>>] BY <1>0, <1>1 DEF StartEnds, Handed
<1>3. seq'.left = seq.left /\ seq'.index = seq.index BY <1>0, <1>2 DEF TypeOK
<1>4. /\ BufferStands /\ GotStands /\ Traverses /\ Walks
      /\ mounts \in SUBSET Mount /\ i \in Nat /\ seq.index \in Nat /\ Root \in Listed(mounts)
  BY <1>1, SteadyIs
<1>5. i <= seq.index /\ Past(mounts, i) BY <1>1, <1>4 DEF Walks
<1>6. Past(mounts, seq.index)
  <2>1. \A m : Count(mounts, 0, m) \in Nat BY <1>4, CountType
  <2>2. ASSUME NEW m \in Listed(mounts) PROVE Count(mounts, 0, m) < seq.index
    <3>1. Count(mounts, 0, m) < i BY <1>5 DEF Past
    <3>2. QED BY <1>4, <1>5, <2>1, <3>1
  <2>3. QED BY <2>2 DEF Past
<1>7. phase # "traverse"
  <2>1. seq.index # 0
    <3>1. Count(mounts, 0, Root) < seq.index BY <1>4, <1>6 DEF Past
    <3>2. Count(mounts, 0, Root) \in Nat BY <1>4, CountType
    <3>3. QED BY <1>4, <3>1, <3>2
  <2>2. QED BY <1>1, <1>4, <2>1 DEF Traverses
<1>8. pc' = "done" /\ phase' = "none" BY <1>7 DEF StartEnds
<1>9. Base' = Base /\ Reached' = Reached /\ Place' = Place
  BY <1>1, <1>3, <1>7, <1>8 DEF Base, Reached, Place
<1>10. (BufferStands /\ GotStands)' BY <1>1, <1>3, <1>4, <1>9 DEF BufferStands, GotStands
<1>11. QED BY <1>1, <1>3, <1>6, <1>8, <1>10 DEF Traverses, Walks, Ends

\* A line is appended where the buffer ends.
LEMMA KeptShow ==
  ASSUME IInv, Kept, Called', Alive', Show
  PROVE  Kept'
<1> SUFFICES ASSUME Steady'
             PROVE  (BufferStands /\ GotStands /\ Traverses /\ Walks /\ Ends)'
  BY DEF Kept
<1>0. /\ Steady /\ pc = "show" /\ pc' = "next" /\ seq' = [seq EXCEPT !.left = Shown]
      /\ (phase' = "traverse" <=> phase = "traverse")
      /\ UNCHANGED <<mounts, f_pos, call, at, got, p, i>>
  BY DEF Show, Steady, Still, history, tree
<1>1. seq'.left = Shown /\ seq'.index = seq.index BY <1>0 DEF IInv, TypeOK
<1>2. /\ BufferStands /\ GotStands /\ Traverses /\ Walks
      /\ mounts \in SUBSET Mount /\ Len(seq.left) \in Nat /\ Base \in Nat /\ seq.index \in Nat
  BY <1>0, SteadyIs
<1>3. p \in Listed(mounts) /\ Count(mounts, 0, p) = seq.index BY <1>0, <1>2 DEF Walks
<1>4. Base' = Base /\ Reached = seq.index /\ Reached' = seq.index + 1
  BY <1>0, <1>1 DEF Base, Reached
<1>5. /\ From(mounts, seq.index) = Begins(mounts, p) /\ p \in Mount /\ LineLen[p] \in Nat
      /\ From(mounts, seq.index + 1) = Begins(mounts, p) + LineLen[p]
      /\ Begins(mounts, p) \in Nat
  BY <1>2, <1>3, LineLies, ListedType, Constants
<1>6. Base + Len(seq.left) = Begins(mounts, p) BY <1>2, <1>4, <1>5 DEF BufferStands
<1>7. /\ Len(Shown) = Len(seq.left) + LineLen[p]
      /\ \A j \in 1 .. Len(seq.left) : Shown[j] = seq.left[j]
      /\ \A j \in 1 .. LineLen[p] : Shown[Len(seq.left) + j] = <<p, j>>
  BY <1>0, ShownIs
<1>8. ASSUME NEW x \in 1 .. Len(Shown) PROVE Stands(mounts, Shown[x], Base + x)
  <2>1. CASE x \in 1 .. Len(seq.left)
    BY <1>2, <1>7, <2>1 DEF BufferStands, Place
  <2>2. CASE x \notin 1 .. Len(seq.left)
    <3>1. x - Len(seq.left) \in 1 .. LineLen[p] /\ Len(seq.left) + (x - Len(seq.left)) = x
      BY <1>2, <1>5, <1>7, <2>2
    <3>2. Shown[x] = <<p, x - Len(seq.left)>> BY <1>7, <3>1
    <3>3. Begins(mounts, p) + (x - Len(seq.left)) = Base + x BY <1>2, <1>5, <1>6, <3>1
    <3>4. QED BY <1>3, <3>2, <3>3 DEF Stands
  <2>3. QED BY <2>1, <2>2
<1>9. Base + Len(Shown) = From(mounts, seq.index + 1) BY <1>2, <1>5, <1>6, <1>7
<1>10. BufferStands' BY <1>0, <1>1, <1>4, <1>8, <1>9 DEF BufferStands, Place
<1>11. (GotStands /\ Traverses /\ Walks /\ Ends)'
  BY <1>0, <1>1, <1>2, <1>3 DEF GotStands, Traverses, Walks, Ends, AtEnd
<1>12. QED BY <1>10, <1>11

LEMMA KeptShowOverflows ==
  ASSUME IInv, Kept, Called', Alive', ShowOverflows
  PROVE  Kept'
<1> SUFFICES ASSUME Steady'
             PROVE  (BufferStands /\ GotStands /\ Traverses /\ Walks /\ Ends)'
  BY DEF Kept
<1>0. /\ TypeOK /\ Handed /\ Steady /\ pc = "show"
      /\ UNCHANGED <<mounts, ns_alive, f_pos, call, phase, got>>
  BY DEF IInv, ShowOverflows, Steady, Still, history, tree
<1>1. /\ ns_alive /\ BufferStands /\ GotStands /\ Traverses /\ Walks
      /\ mounts \in SUBSET Mount /\ seq.index \in Nat /\ call.pos \in Nat /\ at \in Nat
  BY <1>0, SteadyIs
<1>2. GotStands' BY <1>0, <1>1 DEF GotStands
<1>3. Len(<<>>) = 0 BY EmptySeq
<1>4. CASE phase = "fill"
  <2>1. pc' = "copy" /\ UNCHANGED <<seq, at, p, i>> BY <1>4 DEF ShowOverflows
  <2>2. Base' = Base /\ Reached' = Reached /\ Place' = Place BY <1>0, <2>1 DEF Base, Reached, Place
  <2>3. BufferStands' BY <1>0, <1>1, <2>1, <2>2 DEF BufferStands
  <2>4. QED BY <1>0, <1>2, <1>4, <2>1, <2>3 DEF Traverses, Walks, Ends, AtEnd
<1>5. CASE phase # "fill"
  <2>1. /\ phase \in {"traverse", "first"} /\ at' = 0
        /\ seq' = [seq EXCEPT !.size = 2 * @, !.left = <<>>,
                              !.index = IF phase = "traverse" THEN 0 ELSE @]
        /\ pc' = "start" /\ i' = 0 /\ p' \in FirstNode
    BY <1>5 DEF ShowOverflows
  <2>2. seq'.left = <<>> /\ seq'.index = IF phase = "traverse" THEN 0 ELSE seq.index
    BY <1>0, <2>1 DEF TypeOK
  <2>3. Walks' BY <1>0, <1>1, <2>1, <2>2, WalksEnters
  <2>4. CASE phase = "traverse"
    <3>1. From(mounts, 0) = 0 BY <1>1, FromZero
    <3>2. Base' = 0 /\ Reached' = 0 /\ Place' = {}
      BY <1>0, <1>3, <2>1, <2>2, <2>4 DEF Base, Reached, Place
    <3>3. BufferStands' BY <1>0, <1>3, <2>2, <3>1, <3>2 DEF BufferStands
    <3>4. 0 < call.pos BY <1>1, <2>4 DEF Traverses
    <3>5. Traverses' BY <1>0, <1>1, <2>1, <2>2, <2>4, <3>1, <3>4 DEF Traverses
    <3>6. QED BY <1>2, <2>1, <2>3, <3>3, <3>5 DEF Ends, AtEnd
  <2>5. CASE phase = "first"
    <3>1. seq.left = <<>> /\ seq'.left = seq.left /\ seq'.index = seq.index
      BY <1>0, <2>2, <2>5 DEF Handed
    <3>2. Base' = Base /\ Reached' = Reached /\ Place' = Place
      BY <1>0, <2>1, <2>5, <3>1 DEF Base, Reached, Place
    <3>3. BufferStands' BY <1>0, <1>1, <3>1, <3>2 DEF BufferStands
    <3>4. QED BY <1>0, <1>2, <2>1, <2>3, <2>5, <3>3 DEF Traverses, Ends, AtEnd
  <2>6. QED BY <2>1, <2>4, <2>5
<1>6. QED BY <1>4, <1>5

LEMMA KeptNextSteps ==
  ASSUME IInv, Turned', Kept, Called', Alive', NextSteps
  PROVE  Kept'
<1> SUFFICES ASSUME Steady'
             PROVE  (BufferStands /\ GotStands /\ Traverses /\ Walks /\ Ends)'
  BY DEF Kept
<1>s. p' \in RbNext(p) /\ since' = since
  BY Steps DEF NextSteps, Turned, Steady, Still, IInv
<1>0. /\ TypeOK /\ Handed /\ Steady /\ pc' = "advance" /\ p' \in RbNext(p)
      /\ pc = "next" \/ (pc = "advance" /\ p # NULL /\ Skip(p))
      /\ UNCHANGED <<mounts, f_pos, seq, call, phase, at, got>>
  BY <1>s DEF IInv, NextSteps, Steady, Still, tree
<1>1. /\ BufferStands /\ GotStands /\ Traverses /\ Walks
      /\ mounts \in SUBSET Mount /\ seq.index \in Nat
  BY <1>0, SteadyIs
<1>2. Base' = Base /\ Reached' = Reached /\ Reached = seq.index + 1 /\ Place' = Place
  BY <1>0 DEF Base, Reached, Place
<1>3. (BufferStands /\ GotStands /\ Traverses /\ Ends)'
  BY <1>0, <1>1, <1>2 DEF BufferStands, GotStands, Traverses, Ends, AtEnd
<1>4. /\ p \in mounts
      /\ Reached = IF Skip(p) THEN Count(mounts, 0, p) ELSE Count(mounts, 0, p) + 1
      /\ \E q \in Listed(mounts) : Count(mounts, 0, q) = seq.index
  <2>1. CASE pc = "next"
    <3>1. p \in Listed(mounts) /\ Count(mounts, 0, p) = seq.index BY <1>1, <2>1 DEF Walks
    <3>2. QED BY <1>2, <3>1 DEF Listed
  <2>2. CASE pc = "advance" BY <1>0, <1>1, <2>2 DEF Walks
  <2>3. QED BY <1>0, <2>1, <2>2
<1>5. IF p' = NULL THEN Past(mounts, Reached) ELSE p' \in mounts /\ Count(mounts, 0, p') = Reached
  <2>1. CASE p' = NULL
    <3>1. \A k \in mounts : k <= p BY <1>0, <1>4, <2>1, Walked
    <3>2. Past(mounts, IF Skip(p) THEN Count(mounts, 0, p) ELSE Count(mounts, 0, p) + 1)
      BY <1>1, <1>4, <3>1, WalkedOff
    <3>3. QED BY <1>4, <2>1, <3>2
  <2>2. CASE p' # NULL BY <1>0, <1>4, <2>2, Walked
  <2>3. QED BY <2>1, <2>2
<1>6. QED BY <1>0, <1>2, <1>3, <1>4, <1>5 DEF Walks

LEMMA KeptNextInFill ==
  ASSUME IInv, Kept, Called', Alive', NextInFill
  PROVE  Kept'
<1> SUFFICES ASSUME Steady'
             PROVE  (BufferStands /\ GotStands /\ Traverses /\ Walks /\ Ends)'
  BY DEF Kept
<1>0. /\ Steady /\ pc = "advance" /\ phase = "fill" /\ pc' \in {"copy", "show"}
      /\ (pc' = "show" => p # NULL) /\ (p = NULL \/ ~Skip(p))
      /\ UNCHANGED <<mounts, f_pos, call, phase, at, got, p, i>>
  BY DEF NextInFill, NextReturns, Steady, Still, history, tree
<1>1. seq'.left = seq.left /\ seq'.index = seq.index + 1
  BY DEF NextInFill, NextIndex, IInv, TypeOK
<1>2. BufferStands /\ GotStands /\ Walks BY <1>0, SteadyIs
<1>3. Base' = Base /\ Reached' = Reached /\ Reached = seq.index + 1 /\ Place' = Place
  BY <1>0, <1>1 DEF Base, Reached, Place
<1>4. (BufferStands /\ GotStands)' BY <1>0, <1>1, <1>2, <1>3 DEF BufferStands, GotStands
<1>5. Walks'
  <2>1. pc' = "show" => p \in mounts /\ ~Skip(p) /\ Count(mounts, 0, p) = Reached
    BY <1>0, <1>2 DEF Walks
  <2>2. QED BY <1>0, <1>1, <1>3, <2>1 DEF Walks, Listed
<1>6. QED BY <1>0, <1>4, <1>5 DEF Traverses, Ends, AtEnd

\* The offset looked for is on some line, not past the start of the last: the record that
\* holds it, or ends at it, is found before mymounts_next comes to the end of the tree.
LEMMA KeptNextInTraverse ==
  ASSUME IInv, Kept, Called', Alive', NextInTraverse
  PROVE  Kept'
<1> SUFFICES ASSUME Steady'
             PROVE  (BufferStands /\ GotStands /\ Traverses /\ Walks /\ Ends)'
  BY DEF Kept
<1> DEFINE after == at + Len(seq.left)
<1>0. /\ TypeOK /\ Handed /\ Steady /\ pc = "advance" /\ phase = "traverse" /\ got = <<>>
      /\ (p = NULL \/ ~Skip(p))
      /\ UNCHANGED <<mounts, f_pos, call, got, p, i>>
  BY DEF IInv, Handed, NextInTraverse, NextReturns, Steady, Still, history, tree
<1>1. /\ BufferStands /\ Traverses /\ Walks /\ mounts \in SUBSET Mount
      /\ seq.index \in Nat /\ Len(seq.left) \in Nat /\ at \in Nat /\ call.pos \in Nat
  BY <1>0, SteadyIs
<1>2. /\ at < call.pos /\ call.pos <= LastLine(mounts) /\ at = From(mounts, seq.index)
      /\ after = From(mounts, seq.index + 1) /\ after \in Nat
      /\ \A x \in Place : Stands(mounts, seq.left[x], at + x)
  BY <1>0, <1>1 DEF Traverses, BufferStands, Base, Reached
<1>3. p # NULL
  <2> SUFFICES ASSUME p = NULL PROVE FALSE OBVIOUS
  <2>1. PICK q \in Listed(mounts) : Count(mounts, 0, q) = seq.index BY <1>0, <1>1 DEF Walks
  <2>2. Past(mounts, seq.index + 1) BY <1>0, <1>1 DEF Walks, Reached
  <2>3. LastLine(mounts) = at BY <1>1, <1>2, <2>1, <2>2, FromLast
  <2>4. QED BY <1>1, <1>2, <2>3
<1>4. p \in Listed(mounts) /\ Count(mounts, 0, p) = seq.index + 1
  BY <1>0, <1>1, <1>3 DEF Walks, Reached, Listed
<1>5. /\ seq'.index = seq.index + 1
      /\ seq'.left = IF after > call.pos
                     THEN SubSeq(seq.left, call.pos - at + 1, Len(seq.left)) ELSE <<>>
      /\ at' = IF after > call.pos THEN at ELSE after
      /\ pc' = IF after >= call.pos THEN "resume" ELSE "show"
      /\ phase' = IF after >= call.pos THEN "none" ELSE "traverse"
  BY <1>0, <1>3 DEF NextInTraverse, NextIndex, TypeOK
<1> HIDE DEF after
<1>6. Len(<<>>) = 0 BY EmptySeq
<1>7. GotStands' /\ Ends' BY <1>0, <1>5, <1>6 DEF GotStands, Ends, AtEnd
<1>8. Reached' = seq.index + 1 BY <1>5 DEF Reached
<1>9. CASE after > call.pos
  <2>1. Base' = call.pos BY <1>0, <1>1, <1>5, <1>6, <1>9, <1>2 DEF Base
  <2>2. /\ call.pos - at \in 0 .. Len(seq.left) /\ seq.left \in Seq(Bytes)
        /\ Len(seq.left) - (call.pos - at) = after - call.pos
    BY <1>0, <1>1, <1>2, <1>9 DEF after, TypeOK
  <2>3. /\ Len(seq'.left) = Len(seq.left) - (call.pos - at)
        /\ \A j \in 1 .. Len(seq.left) - (call.pos - at) :
             seq'.left[j] = seq.left[call.pos - at + j]
    BY <1>5, <1>9, <2>2, Halves
  <2>4. ASSUME NEW x \in Place' PROVE Stands(mounts, seq'.left[x], call.pos + x)
    <3>1. x \in 1 .. Len(seq.left) - (call.pos - at) BY <2>3 DEF Place
    <3>2. call.pos - at + x \in Place /\ at + (call.pos - at + x) = call.pos + x
      <4>1. call.pos - at \in Nat /\ x \in Nat BY <1>1, <2>2, <3>1
      <4>2. call.pos - at + x \in 1 .. Len(seq.left) BY <1>1, <2>2, <3>1, <4>1
      <4>3. at + (call.pos - at + x) = call.pos + x BY <1>1, <4>1
      <4>4. QED BY <4>2, <4>3 DEF Place
    <3>3. Stands(mounts, seq.left[call.pos - at + x], call.pos + x) BY <1>2, <3>2
    <3>4. QED BY <2>3, <3>1, <3>3
  <2>5. call.pos + Len(seq'.left) = From(mounts, seq.index + 1) BY <1>1, <1>2, <2>2, <2>3
  <2>6. BufferStands' BY <1>0, <1>8, <2>1, <2>4, <2>5 DEF BufferStands
  <2>7. phase' = "none" /\ pc' = "resume" BY <1>1, <1>2, <1>5, <1>9
  <2>8. QED BY <1>7, <2>6, <2>7 DEF Traverses, Walks
<1>10. CASE ~(after > call.pos)
  <2>1. seq'.left = <<>> /\ at' = after BY <1>5, <1>10
  <2>2. Place' = {} BY <1>6, <2>1 DEF Place
  <2>3. Base' = after BY <1>0, <1>1, <1>2, <1>5, <1>6, <1>10 DEF Base
  <2>4. BufferStands' BY <1>0, <1>2, <1>6, <1>8, <2>1, <2>2, <2>3 DEF BufferStands
  <2>5. Traverses' BY <1>0, <1>1, <1>2, <1>5, <2>1 DEF Traverses
  <2>6. Walks' BY <1>0, <1>4, <1>5 DEF Walks
  <2>7. QED BY <1>7, <2>4, <2>5, <2>6
<1>11. QED BY <1>9, <1>10

\* What is taken from the front of the buffer goes to the end of what was delivered.
LEMMA KeptCopyOut ==
  ASSUME IInv, Kept, Steady, CopyOut, phase # "traverse", pc # "user", pc \notin {"next", "advance"},
         UNCHANGED <<mounts, call>>, phase' # "traverse", pc' # "user",
         pc' \notin {"next", "advance"}
  PROVE  (BufferStands /\ GotStands)' /\ seq'.index = seq.index
<1> DEFINE new == SubSeq(seq.left, 1, Taken)
<1>1. /\ BufferStands /\ GotStands
      /\ Len(seq.left) \in Nat /\ Len(got) \in Nat /\ call.pos \in Nat
      /\ seq.left \in Seq(Bytes) /\ got \in Seq(Bytes)
  BY SteadyIs DEF IInv, TypeOK, Handed
<1>2. /\ Taken \in 0 .. Len(seq.left) /\ Taken \in Nat
      /\ Len(seq'.left) = Len(seq.left) - Taken
      /\ \A j \in 1 .. Len(seq.left) - Taken : seq'.left[j] = seq.left[Taken + j]
  BY TakenIs, CopyOutIs
<1>3. new \in Seq(Bytes) /\ Len(new) = Taken /\ \A j \in 1 .. Taken : new[j] = seq.left[j]
  BY <1>1, <1>2, Halves
<1>4. got' = got \o new /\ seq'.index = seq.index BY DEF CopyOut, IInv, TypeOK
<1> HIDE DEF new
<1>5. /\ Len(got') = Len(got) + Taken
      /\ \A j \in 1 .. Len(got) + Taken :
           got'[j] = IF j <= Len(got) THEN got[j] ELSE new[j - Len(got)]
  BY <1>1, <1>3, <1>4, ConcatProperties
<1>6. Base = call.pos + Len(got) /\ Base' = call.pos + (Len(got) + Taken) BY <1>5 DEF Base
<1>7. Reached' = seq.index /\ Reached = seq.index BY <1>4 DEF Reached
<1>8. /\ Len(seq.left) \in Nat /\ Len(got) \in Nat /\ call.pos \in Nat /\ Taken \in Nat
      /\ Taken <= Len(seq.left)
  BY <1>1, <1>2
<1>9. BufferStands'
  <2>1. ASSUME NEW x \in Place' PROVE Stands(mounts, seq'.left[x], Base' + x)
    <3>1. x \in 1 .. Len(seq.left) - Taken BY <1>2 DEF Place
    <3>2. Taken + x \in Place /\ Base + (Taken + x) = Base' + x BY <1>1, <1>2, <1>6, <3>1 DEF Place
    <3>3. Stands(mounts, seq.left[Taken + x], Base' + x) BY <1>1, <3>2 DEF BufferStands
    <3>4. QED BY <1>2, <3>1, <3>3
  <2>2. Base' + Len(seq'.left) = From(mounts, seq.index)
    <3>1. Base + Len(seq.left) = From(mounts, seq.index) BY <1>1, <1>7 DEF BufferStands
    <3>2. Len(seq'.left) = Len(seq.left) - Taken BY <1>2
    <3>3. QED BY <1>6, <1>8, <3>1, <3>2
  <2>3. QED BY <1>7, <2>1, <2>2 DEF BufferStands
<1>10. GotStands'
  <2>1. ASSUME NEW x \in 1 .. Len(got') PROVE Stands(mounts, got'[x], call.pos + x)
    <3>1. CASE x <= Len(got)
      <4>1. x \in 1 .. Len(got) /\ got'[x] = got[x] BY <1>1, <1>2, <1>5, <3>1
      <4>2. QED BY <1>1, <4>1 DEF GotStands
    <3>2. CASE ~(x <= Len(got))
      <4>1. /\ x - Len(got) \in 1 .. Taken /\ x - Len(got) \in Place
            /\ Base + (x - Len(got)) = call.pos + x
        <5>1. x \in 1 .. Len(got) + Taken BY <1>5
        <5>2. x - Len(got) \in 1 .. Taken BY <1>8, <3>2, <5>1
        <5>3. x - Len(got) \in 1 .. Len(seq.left) BY <1>8, <5>2
        <5>4. Base + (x - Len(got)) = call.pos + x BY <1>6, <1>8, <5>1
        <5>5. QED BY <5>2, <5>3, <5>4 DEF Place
      <4>2. got'[x] = seq.left[x - Len(got)] BY <1>3, <1>5, <3>2, <4>1
      <4>3. Stands(mounts, seq.left[x - Len(got)], call.pos + x) BY <1>1, <4>1 DEF BufferStands
      <4>4. QED BY <4>2, <4>3
    <3>3. QED BY <3>1, <3>2
  <2>2. QED BY <2>1 DEF GotStands
<1>11. QED BY <1>4, <1>9, <1>10

LEMMA KeptCopyLeftover ==
  ASSUME IInv, Kept, Called', Alive', CopyLeftover
  PROVE  Kept'
<1> SUFFICES ASSUME Steady'
             PROVE  (BufferStands /\ GotStands /\ Traverses /\ Walks /\ Ends)'
  BY DEF Kept
<1>0. /\ TypeOK /\ Handed /\ CopyOut /\ Steady /\ pc = "resume"
      /\ UNCHANGED <<mounts, ns_alive, call>>
  BY DEF IInv, CopyLeftover, CopyOut, Steady, Still, tree
<1>1. phase = "none" BY <1>0 DEF Handed, Idle
<1>2. pc' \in {"done", "start"} /\ phase' \in {"none", "first"}
  BY <1>1 DEF CopyLeftover, EnterStart
<1>3. (BufferStands /\ GotStands)' /\ seq'.index = seq.index BY <1>0, <1>1, <1>2, KeptCopyOut
<1>4. ns_alive /\ seq.index \in Nat BY <1>0, SteadyIs
<1>5. CASE seq'.left # <<>>
  <2>1. pc' = "done" BY <1>5 DEF CopyLeftover
  <2>2. QED BY <1>2, <1>3, <1>5, <2>1 DEF Traverses, Walks, Ends, AtEnd
<1>6. CASE seq'.left = <<>>
  <2>1. p' \in FirstNode /\ i' = 0 /\ pc' = "start" BY <1>6 DEF CopyLeftover, EnterStart
  <2>2. Walks' BY <1>0, <1>3, <1>4, <2>1, WalksEnters
  <2>3. QED BY <1>2, <1>3, <2>1, <2>2 DEF Traverses, Ends, AtEnd
<1>7. QED BY <1>5, <1>6

LEMMA KeptNothingLeft ==
  ASSUME IInv, Kept, Called', Alive', NothingLeft
  PROVE  Kept'
<1> SUFFICES ASSUME Steady'
             PROVE  (BufferStands /\ GotStands /\ Traverses /\ Walks /\ Ends)'
  BY DEF Kept
<1>0. /\ TypeOK /\ Handed /\ Steady /\ pc = "resume" /\ pc' = "start" /\ i' = 0
      /\ p' \in FirstNode /\ phase' = "first"
      /\ UNCHANGED <<mounts, ns_alive, f_pos, seq, call, at, got>>
  BY DEF IInv, NothingLeft, EnterStart, Steady, Still, history, tree
<1>1. phase = "none" BY <1>0 DEF Handed, Idle
<1>2. ns_alive /\ BufferStands /\ GotStands /\ seq.index \in Nat BY <1>0, SteadyIs
<1>3. Base' = Base /\ Reached' = Reached /\ Place' = Place BY <1>0, <1>1 DEF Base, Reached, Place
<1>4. (BufferStands /\ GotStands)' BY <1>0, <1>2, <1>3 DEF BufferStands, GotStands
<1>5. Walks' BY <1>0, <1>2, WalksEnters
<1>6. QED BY <1>0, <1>4, <1>5 DEF Traverses, Ends, AtEnd

LEMMA KeptCopyRecords ==
  ASSUME IInv, Kept, Called', Alive', CopyRecords
  PROVE  Kept'
<1> SUFFICES ASSUME Steady'
             PROVE  (BufferStands /\ GotStands /\ Traverses /\ Walks /\ Ends)'
  BY DEF Kept
<1>0. /\ Handed /\ CopyOut /\ Steady /\ pc = "copy" /\ pc' = "done" /\ phase' = "none"
      /\ UNCHANGED <<mounts, call>>
  BY DEF IInv, CopyRecords, CopyOut, Steady, Still, tree
<1>1. phase = "fill" /\ seq.left # <<>> BY <1>0 DEF Handed
<1>2. (BufferStands /\ GotStands)' BY <1>0, <1>1, KeptCopyOut
<1>3. ~AtEnd' BY <1>0, <1>1, CopyOutIs DEF AtEnd
<1>4. QED BY <1>0, <1>2, <1>3 DEF Traverses, Walks, Ends

\* The file position moves to where the buffer begins.
LEMMA KeptReturns ==
  ASSUME IInv, Kept, Called', Alive', ReadReturns \/ LseekReturns
  PROVE  Kept'
<1> SUFFICES ASSUME Steady'
             PROVE  (BufferStands /\ GotStands /\ Traverses /\ Walks /\ Ends)'
  BY DEF Kept
<1>0. /\ Handed /\ Steady /\ pc \in Idle \ {"user"} /\ pc' = "user"
      /\ UNCHANGED <<mounts, seq, phase>>
  BY DEF IInv, ReadReturns, LseekReturns, Steady, Still, history, tree, Idle
<1>1. phase = "none" BY <1>0 DEF Handed
<1>2. /\ BufferStands /\ Called /\ call.pos \in Nat /\ Len(got) \in Nat BY <1>0, SteadyIs DEF Kept
<1>3. Len(<<>>) = 0 BY EmptySeq
<1>4. got' = <<>> /\ f_pos' = call.pos + Len(got)
  <2>1. CASE ReadReturns BY <1>2, <2>1 DEF ReadReturns, Called
  <2>2. CASE LseekReturns
    <3>1. got = <<>> BY <1>0, <2>2 DEF LseekReturns, Handed
    <3>2. QED BY <1>2, <1>3, <2>2, <3>1 DEF LseekReturns
  <2>3. QED BY <2>1, <2>2
<1>5. Base' = Base /\ Reached' = Reached /\ Place' = Place
  BY <1>0, <1>1, <1>4 DEF Base, Reached, Place, Idle
<1>6. BufferStands' BY <1>0, <1>2, <1>5 DEF BufferStands
<1>7. GotStands' BY <1>3, <1>4 DEF GotStands
<1>8. QED BY <1>0, <1>1, <1>6, <1>7 DEF Traverses, Walks, Ends, AtEnd

LEMMA KeptNext == IInv /\ IInv' /\ Turned' /\ Kept /\ [Next]_vars => Kept'
<1> SUFFICES ASSUME IInv, IInv', Turned', Kept, [Next]_vars PROVE Kept' OBVIOUS
<1>1. Called' /\ Alive' BY CalledNext, AliveNext DEF Kept
<1>2. CASE Call BY <1>1, <1>2, KeptCall
<1>3. CASE Running
  BY <1>1, <1>3, KeptStartPasses, KeptStartFinds, KeptStartEnds, KeptShow, KeptShowOverflows,
     KeptNextSteps, KeptNextInFill, KeptNextInTraverse, KeptCopyLeftover, KeptNothingLeft,
     KeptCopyRecords, KeptReturns
  DEF Running
<1>4. CASE Others
  <2>1. ~Steady' BY <1>4 DEF Others, MountOne, Umount, FreeNamespace, IInv, TypeOK, Steady, Still
  <2>2. QED BY <1>1, <2>1 DEF Kept
<1>5. CASE UNCHANGED vars
  <2>1. /\ (Steady' => Steady) /\ Base' = Base /\ Reached' = Reached /\ Place' = Place
        /\ UNCHANGED <<mounts, seq, got, call, phase, at, pc, p, i>>
    BY <1>5 DEF vars, Steady, Still, Base, Reached, Place
  <2>2. QED BY <1>1, <2>1
    DEF Kept, BufferStands, GotStands, Traverses, Walks, Ends, AtEnd
<1>6. QED BY <1>2, <1>3, <1>4, <1>5 DEF Next, Undefined

\* While no mount comes or goes, reads of any sizes, with any buffer, and seeks up to the
\* last line deliver the listing, byte for byte from the offset of each read, and the end
\* of the file is reported where the listing ends.
THEOREM ListingRead == Spec => []StillListing
<1>1. Spec => []IInv BY InitInv, NextInv, PTL DEF Spec
<1>2. Spec => []Kept BY <1>1, TurnedAlways, KeptInit, KeptNext, PTL DEF Spec
<1>3. IInv /\ Kept => StillListing
  <2> SUFFICES ASSUME IInv, Kept, Steady PROVE Exact BY DEF StillListing, Steady
  <2>1. /\ BufferStands /\ GotStands /\ Ends /\ call.pos \in Nat /\ mounts \in SUBSET Mount
    BY SteadyIs
  <2>2. ASSUME AtEnd PROVE call.pos >= Length(Listed(mounts))
    <3>1. Len(<<>>) = 0 BY EmptySeq
    <3>2. phase # "traverse" BY <2>2 DEF IInv, Handed, Idle, AtEnd
    <3>3. Base + Len(seq.left) = call.pos /\ Reached = seq.index
      BY <2>1, <2>2, <3>1, <3>2 DEF AtEnd, Base, Reached
    <3>4. call.pos = From(mounts, seq.index) BY <2>1, <3>3 DEF BufferStands
    <3>5. From(mounts, seq.index) = Length(Listed(mounts)) BY <2>1, <2>2, FromPast DEF Ends
    <3>6. QED BY <2>1, <3>4, <3>5
  <2>3. QED BY <2>1, <2>2 DEF Exact, GotStands, Stands
<1>4. QED BY <1>1, <1>2, <1>3, PTL

-----------------------------------------------------------------------------
(* Freed pointers.                                                         *)

\* Unless something went away since the position was computed, the namespace lives and
\* the mount a handler of a walk holds is in its tree.
Afoot == {"start", "show", "next", "advance"}
Held == ~since.lost => ns_alive /\ (pc \in Afoot => p \in mounts \cup {NULL})

\* The nodes the tree leads to are in it.
LEMMA NodesOfTree ==
  /\ ns_alive => FirstNode \subseteq mounts
  /\ p \in mounts => RbNext(p) \subseteq mounts \cup {NULL}
  /\ moved = "grown" => RbNextTorn \subseteq mounts \cup {NULL}
BY DEF FirstNode, RbNext, RbNextTorn

\* Only a change that took something away leads a step of a walk into freed memory.
LEMMA StepHeld ==
  ASSUME IInv, Turned, Step, ~since.lost, p \in mounts
  PROVE  p' \in mounts \cup {NULL} /\ wild' = wild
<1>0. moved \in {"no", "grown", "shrunk"} /\ wild \in BOOLEAN BY DEF IInv, TypeOK
<1>1. moved # "shrunk" BY DEF Turned
<1>2. QED BY <1>0, <1>1, NodesOfTree DEF Step, Deref

LEMMA HeldInit == Init => Held
BY DEF Init, Held, Afoot

LEMMA HeldNext == IInv /\ Turned /\ Held /\ [Next]_vars => Held'
<1> SUFFICES ASSUME IInv, Turned, Held, [Next]_vars PROVE Held' OBVIOUS
<1>0. Handed /\ TypeOK /\ NULL \notin Mount BY Constants DEF IInv, NULL
<1>1. CASE Call
  <2>1. ASSUME NEW n, NEW g, Read(n, g) PROVE Held'
    <3>1. ns_alive' = ns_alive /\ pc' = "resume" BY <2>1 DEF Read, tree
    <3>2. since'.lost = ~ns_alive \/ since' = since BY <2>1 DEF Read, Anew, history
    <3>3. QED BY <3>1, <3>2 DEF Held, Afoot
  <2>2. ASSUME NEW o, Lseek(o) PROVE Held'
    <3>1. ns_alive' = ns_alive /\ mounts' = mounts /\ since'.lost = ~ns_alive
      BY <2>2 DEF Lseek, Anew, tree
    <3>2. pc' = "resume" \/ p' \in FirstNode BY <2>2 DEF Lseek, EnterStart
    <3>3. QED BY <3>1, <3>2, NodesOfTree DEF Held, Afoot
  <2>3. ASSUME Reopen PROVE Held'
    BY <2>3 DEF Held, Afoot, Reopen, Opened, Anew, tree
  <2>4. QED BY <1>1, <2>1, <2>2, <2>3 DEF Call
<1>2. CASE Running
  <2>1. UNCHANGED <<mounts, ns_alive>>
    BY <1>2 DEF Running, StartPasses, StartFinds, StartEnds, Show, ShowOverflows, NextSteps,
       NextInFill, NextInTraverse, CopyLeftover, NothingLeft, CopyRecords, CopyOut, ReadReturns,
       LseekReturns, tree
  <2>2. since'.lost = since.lost BY <1>2, RunningSince DEF IInv, TypeOK
  <2>3. CASE StartPasses \/ NextSteps
    <3>1. pc \in Afoot /\ p # NULL /\ Step
      BY <1>0, <2>3 DEF StartPasses, NextSteps, Handed, Afoot
    <3>2. QED BY <2>1, <2>2, <3>1, StepHeld DEF Held
  <2>4. CASE ~(StartPasses \/ NextSteps)
    <3>1. pc' \notin Afoot \/ p' \in FirstNode \/ (pc \in Afoot /\ p' = p)
      BY <1>2, <2>4 DEF Running, StartFinds, StartEnds, Show, ShowOverflows,
         NextInFill, NextInTraverse, NextReturns, CopyLeftover, NothingLeft,
         CopyRecords, EnterStart, ReadReturns, LseekReturns, Afoot
    <3>2. QED BY <2>1, <2>2, <3>1, NodesOfTree DEF Held
  <2>5. QED BY <2>3, <2>4
<1>3. CASE Others
  BY <1>0, <1>3 DEF Others, MountOne, Umount, FreeNamespace, Held, TypeOK
<1>4. CASE UNCHANGED vars BY <1>4 DEF vars, Held, Afoot
<1>5. QED BY <1>1, <1>2, <1>3, <1>4 DEF Next, Undefined

\* The one step that follows a pointer into freed memory comes after an unmount, or the
\* end of the namespace, that the walk's position has outlived.
LEMMA HurtStep ==
  ASSUME IInv, Turned, Held, [Next]_vars, wild'
  PROVE  wild \/ since.lost
<1> SUFFICES ASSUME ~wild, ~since.lost PROVE FALSE OBVIOUS
<1>0. Handed /\ TypeOK /\ NULL \notin Mount BY Constants DEF IInv, NULL
<1>1. ns_alive /\ (pc \in Afoot => p \in mounts \cup {NULL}) BY DEF Held
<1>2. CASE Call
  BY <1>1, <1>2 DEF Call, Read, Lseek, Reopen, EnterStart
<1>3. CASE Running
  <2>1. pc \in Afoot /\ p # NULL => p \in mounts BY <1>1
  <2>2. CASE StartPasses \/ NextSteps
    <3>1. pc \in Afoot /\ p # NULL /\ Step
      BY <1>0, <2>2 DEF StartPasses, NextSteps, Handed, Afoot
    <3>2. QED BY <2>1, <3>1, StepHeld
  <2>3. CASE ~(StartPasses \/ NextSteps)
    <3>1. wild' = wild \/ wild' = (wild \/ ~ns_alive)
          \/ (pc \in Afoot /\ p # NULL
              /\ (Deref(p) \/ wild' = (wild \/ ~ns_alive \/ p \notin mounts)))
      BY <1>0, <1>3, <2>3 DEF Running, StartFinds, StartEnds, Show, ShowOverflows,
         NextInFill, NextInTraverse, CopyLeftover, NothingLeft,
         CopyRecords, EnterStart, ReadReturns, LseekReturns, Handed, Afoot
    <3>2. QED BY <1>1, <2>1, <3>1 DEF Deref
  <2>4. QED BY <2>2, <2>3
<1>4. CASE Others BY <1>4 DEF Others, MountOne, Umount, FreeNamespace
<1>5. CASE UNCHANGED vars BY <1>5 DEF vars
<1>6. QED BY <1>2, <1>3, <1>4, <1>5 DEF Next, Undefined

\* The unlocked walk of mount.c is led into freed memory by an unmount, or by the end of
\* the namespace, since its position was last computed, and by nothing else.
THEOREM OnlyUnmountsDo == Spec => OnlyUnmountsHurt
<1>1. Spec => []IInv BY InitInv, NextInv, PTL DEF Spec
<1>2. Spec => []Held BY <1>1, TurnedAlways, HeldInit, HeldNext, PTL DEF Spec
<1>3. IInv /\ Turned /\ Held /\ [Next]_vars => [wild' => wild \/ since.lost]_vars BY HurtStep
<1>4. QED BY <1>1, <1>2, <1>3, TurnedAlways, PTL DEF Spec, OnlyUnmountsHurt
=============================================================================

------------------------------ MODULE SafePage ------------------------------
(***************************************************************************)
(* What the debugfs file `foo` (ex07/debugfs.c) promises its callers, with *)
(* neither the page nor the copying in sight.  It is a *safe* register in  *)
(* Lamport's sense, one page wide:                                         *)
(*                                                                         *)
(*   - a read that overlaps no write delivers the bytes of the last write, *)
(*     from the caller's offset on, provided that write ran alone and      *)
(*     succeeded;                                                          *)
(*   - every other read may deliver any mixture, but a byte is always      *)
(*     delivered at the offset it was written to.                          *)
(*                                                                         *)
(* Byte i of a caller's payload v is the pair <<v, i>>, so that a byte     *)
(* delivered at another offset, or from another payload, is recognisable.  *)
(***************************************************************************)
EXTENDS Integers, Sequences

CONSTANTS File,       \* the open files of /sys/kernel/debug/fortytwo/foo
          Value,      \* the payloads a writer may send
          NUL,        \* the zero byte
          PAGE_SIZE   \* the longest payload stored

VARIABLES stored,     \* [intact, val, len]: the payload the page holds
          op,         \* op[f]: the call in flight on file f
          arg,        \* arg[f]: [val, want, good], the call's arguments
          overlap,    \* overlap[f]: did a write overlap the call in flight
          delivered   \* delivered[f]: the bytes read since f was opened

vars == <<stored, op, arg, overlap, delivered>>

NoArg == [val |-> NUL, want |-> 0, good |-> 0]

\* The bytes that can ever be seen at offset i of the page.
PageByte(i) == {NUL} \cup {<<v, i>> : v \in Value}

Least(a, b) == IF a < b THEN a ELSE b

Writing(f) == op[f] = "write"

-----------------------------------------------------------------------------
Init ==
  /\ stored = [intact |-> TRUE, val |-> NUL, len |-> 0]
  /\ op = [f \in File |-> "idle"]
  /\ arg = [f \in File |-> NoArg]
  /\ overlap = [f \in File |-> FALSE]
  /\ delivered = [f \in File |-> <<>>]

Open(f) ==
  /\ op[f] = "idle"
  /\ delivered' = [delivered EXCEPT ![f] = <<>>]
  /\ UNCHANGED <<stored, op, arg, overlap>>

BeginWrite(f, v, n, g) ==
  /\ op[f] = "idle"
  /\ op' = [op EXCEPT ![f] = "write"]
  /\ arg' = [arg EXCEPT ![f] = [val |-> v, want |-> n, good |-> g]]
  /\ overlap' = [h \in File |-> IF h = f THEN \E w \in File : Writing(w)
                                ELSE op[h] # "idle"]
  /\ UNCHANGED <<stored, delivered>>

End(f) ==
  /\ op' = [op EXCEPT ![f] = "idle"]
  /\ arg' = [arg EXCEPT ![f] = NoArg]
  /\ overlap' = [overlap EXCEPT ![f] = FALSE]

\* A write that faults, or that another write overlapped, leaves an unknown page.
EndWrite(f) ==
  /\ op[f] = "write"
  /\ stored' = IF arg[f].good >= arg[f].want /\ ~overlap[f]
               THEN [intact |-> TRUE, val |-> arg[f].val, len |-> arg[f].want]
               ELSE [intact |-> FALSE, val |-> NUL, len |-> 0]
  /\ End(f)
  /\ UNCHANGED delivered

BeginRead(f, n, g) ==
  /\ op[f] = "idle"
  /\ op' = [op EXCEPT ![f] = "read"]
  /\ arg' = [arg EXCEPT ![f] = [val |-> NUL, want |-> n, good |-> g]]
  /\ overlap' = [overlap EXCEPT ![f] = \E w \in File : Writing(w)]
  /\ UNCHANGED <<stored, delivered>>

\* What a read of an intact page must deliver: the stored bytes after those
\* delivered so far, as many as were asked for and as the caller's buffer takes.
Due(f) ==
  LET pos == Len(delivered[f])
      left == IF pos < stored.len THEN stored.len - pos ELSE 0
  IN  Least(arg[f].good, Least(arg[f].want, left))

EndRead(f) ==
  /\ op[f] = "read"
  /\ LET old == Len(delivered[f])
         new == Len(delivered'[f])
         certain == stored.intact /\ ~overlap[f]
     IN  /\ new \in old .. old + arg[f].want
         /\ certain => new = old + Due(f)
         /\ \A j \in 1 .. old : delivered'[f][j] = delivered[f][j]
         /\ \A j \in old + 1 .. new :
              IF certain THEN delivered'[f][j] = <<stored.val, j - 1>>
              ELSE delivered'[f][j] \in PageByte(j - 1)
  /\ \A h \in File \ {f} : delivered'[h] = delivered[h]
  /\ End(f)
  /\ UNCHANGED stored

Next ==
  \E f \in File :
    \/ Open(f) \/ EndWrite(f) \/ EndRead(f)
    \/ \E v \in Value, n \in 0 .. PAGE_SIZE, g \in 0 .. PAGE_SIZE : BeginWrite(f, v, n, g)
    \/ \E n \in 0 .. PAGE_SIZE, g \in 0 .. PAGE_SIZE : BeginRead(f, n, g)

Spec == Init /\ [][Next]_vars
=============================================================================

------------------------------ MODULE MCReverse ------------------------------
(* A small instance of Reverse for TLC. *)
EXTENDS Reverse

\* A chunk, and more than the text, of which one byte can be delivered.
MCReadBuffer == {[want |-> 1, good |-> 1], [want |-> 3, good |-> 1], [want |-> 3, good |-> 3]}

\* A short text, a longer one, with and without a fault in the middle, and two longer than
\* the page: only the terminator falls behind it, and there is room for none.
MCWriteBuffer == {[want |-> 1, good |-> 1], [want |-> 2, good |-> 1], [want |-> 2, good |-> 2],
                  [want |-> 3, good |-> 3], [want |-> 5, good |-> 5]}
=============================================================================

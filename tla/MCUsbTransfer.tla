---------------------------- MODULE MCUsbTransfer ----------------------------
(***************************************************************************)
(* UsbTransfer with the requests and lengths of the runs: every standard   *)
(* request once, with the other parts of its type going round; lengths of  *)
(* packets of which two just fit in the longest buffer, and one that is no *)
(* int.                                                                    *)
(***************************************************************************)
EXTENDS UsbTransfer

MCRequest ==
  {[direction |-> IF n % 2 = 0 THEN "ENDPOINT_OUT" ELSE "ENDPOINT_IN",
    type |-> CHOOSE t \in DOMAIN RequestType : RequestType[t] = 32 * (n % 4),
    recipient |-> CHOOSE r \in DOMAIN RequestRecipient : RequestRecipient[r] = n % 3,
    request |-> q, value |-> 257 * n, index |-> 65535 - n,
    length |-> IF n % 2 = 0 THEN 258 ELSE 65535] :
     <<q, n>> \in {<<q, StandardRequest[q]>> : q \in DOMAIN StandardRequest}}

MCLength == {0, IntMax}
MCPacketLength == {IntMax \div 2, UIntMax}
=============================================================================

------------------------------ MODULE UsbTransfer ------------------------------
(***************************************************************************)
(* A USB transfer as the inline functions of ex04/libusb.h build it: the   *)
(* setup packet of a control transfer, the fields that the fill functions  *)
(* set, the packets of an isochronous transfer and where they lie in its   *)
(* buffer, and the requests for descriptors.  One program builds one       *)
(* transfer over and over, with any of the functions in any order; nothing *)
(* is ever cleared between two of them.                                    *)
(*                                                                         *)
(* An int goes up to IntMax, so that the program can come to its limit.    *)
(* What is kept of a transfer is what the functions look at: device,       *)
(* callback, user data and timeout, which they only copy, are left out,    *)
(* and so are flags, status and the actual lengths, which they leave       *)
(* alone.  Pointers are addresses, and the buffer for control transfers is *)
(* the buffer for the others.                                              *)
(*                                                                         *)
(* External: the program that calls the functions, and                     *)
(* libusb_control_transfer, which sends the request it is given.           *)
(***************************************************************************)
EXTENDS Integers, Sequences

CONSTANTS IntMax,        \* INT_MAX; an unsigned int goes up to 2 * INT_MAX + 1
          Buffer,        \* the address of the program's buffer
          Alloc,         \* the packets that libusb_alloc_transfer made room for
          Request,       \* bound: the requests that the program makes
          Length,        \* bound: the lengths of buffers that occur
          PacketLength   \* bound: the lengths of packets that occur

UIntMax == 2 * IntMax + 1
UInt16 == 0 .. 256 * 256 - 1
UInt8 == 0 .. 255
SetupSize == 8   \* LIBUSB_CONTROL_SETUP_SIZE
NULL == 0

\* enum libusb_transfer_type
TransferType == {"CONTROL", "ISOCHRONOUS", "BULK", "INTERRUPT", "BULK_STREAM"}

\* The three parts of a request's type: enum libusb_endpoint_direction in bit 7,
\* enum libusb_request_type in bits 5 and 6, enum libusb_request_recipient below.
EndpointDirection == [ENDPOINT_OUT |-> 0, ENDPOINT_IN |-> 128]
RequestType == [STANDARD |-> 0, CLASS |-> 32, VENDOR |-> 64, RESERVED |-> 96]
RequestRecipient == [DEVICE |-> 0, INTERFACE |-> 1, ENDPOINT |-> 2, RECIPIENT_OTHER |-> 3]

\* enum libusb_standard_request
StandardRequest ==
  [GET_STATUS |-> 0, CLEAR_FEATURE |-> 1, SET_FEATURE |-> 3, SET_ADDRESS |-> 5,
   GET_DESCRIPTOR |-> 6, SET_DESCRIPTOR |-> 7, GET_CONFIGURATION |-> 8,
   SET_CONFIGURATION |-> 9, GET_INTERFACE |-> 10, SET_INTERFACE |-> 11,
   SYNCH_FRAME |-> 12, SET_SEL |-> 48, SET_ISOCH_DELAY |-> 49]

\* enum libusb_descriptor_type
DescriptorType ==
  [DEVICE |-> 1, CONFIG |-> 2, STRING |-> 3, INTERFACE |-> 4, ENDPOINT |-> 5,
   INTERFACE_ASSOCIATION |-> 11, BOS |-> 15, DEVICE_CAPABILITY |-> 16, HID |-> 33,
   REPORT |-> 34, PHYSICAL |-> 35, HUB |-> 41, SUPERSPEED_HUB |-> 42,
   SS_ENDPOINT_COMPANION |-> 48]

\* What is kept of struct libusb_transfer, and of the struct
\* libusb_iso_packet_descriptor of each packet: its length.
Transfer ==
  [type : TransferType, endpoint : {0, 1}, buffer : {NULL, Buffer}, length : 0 .. IntMax,
   packets : 0 .. Alloc]
IsoPacketDescriptor == 0 .. UIntMax

Requests ==
  [direction : DOMAIN EndpointDirection, type : DOMAIN RequestType,
   recipient : DOMAIN RequestRecipient, request : DOMAIN StandardRequest,
   value : UInt16, index : UInt16, length : UInt16]

ASSUME UsbTransferAssumption ==
  /\ IntMax \in Nat /\ SetupSize + 256 * 256 - 1 <= IntMax
  /\ Buffer \in Nat \ {NULL}
  /\ Alloc \in Nat /\ Alloc <= IntMax
  /\ Request \subseteq Requests
  /\ Length \subseteq 0 .. IntMax /\ PacketLength \subseteq 0 .. UIntMax

VARIABLES
  big,     \* the machine is big-endian; never changed
  setup,   \* the eight bytes of the setup packet at the start of Buffer
  tr,      \* the transfer: type, endpoint, buffer, length, num_iso_packets
  desc,    \* iso_packet_desc: the length of each packet
  loop,    \* the loop under way: "none", "set" or "get", its argument, i and offset
  found,   \* the packet that was looked up last, and the pointer returned for it
  asked,   \* the request for a descriptor sent last; history: what the caller asked for
  wanted   \* history: the request the setup packet was filled for

vars == <<big, setup, tr, desc, loop, found, asked, wanted>>

NoPacket == -1
None == [packet |-> NoPacket, at |-> NULL]
Silence == [direction |-> 0, request |-> 0, value |-> 0, index |-> 0, length |-> 0,
            type |-> "none", number |-> 0, room |-> 0]
NoLoop == [fn |-> "none", arg |-> 0, i |-> 0, offset |-> 0]

\* Memory and a transfer that hold zeros.
Init ==
  /\ big \in BOOLEAN
  /\ setup = <<0, 0, 0, 0, 0, 0, 0, 0>>
  /\ tr = [type |-> "CONTROL", endpoint |-> 0, buffer |-> NULL, length |-> 0, packets |-> 0]
  /\ desc = [p \in 0 .. Alloc - 1 |-> 0]
  /\ loop = NoLoop
  /\ found = None /\ asked = Silence
  /\ wanted = [direction |-> "ENDPOINT_OUT", type |-> "STANDARD", recipient |-> "DEVICE",
               request |-> "GET_STATUS", value |-> 0, index |-> 0, length |-> 0]

Idle == loop = NoLoop

\* A new call begins: found and asked tell of the last call only.
Enter == Idle /\ found' = None /\ asked' = Silence

-----------------------------------------------------------------------------
(* The setup packet, in the byte order of USB.                             *)

\* How the machine reads two bytes of memory, and lays a 16-bit number out in them.
Load16(b) == IF big THEN b[1] * 256 + b[2] ELSE b[2] * 256 + b[1]
Store16(x) == IF big THEN <<x \div 256, x % 256>> ELSE <<x % 256, x \div 256>>

\* Mutant of CpuToLe16: the bytes are left as they are.
CpuToLe16Same(x) == x

\* libusb_cpu_to_le16: the low byte comes first in memory.
CpuToLe16(x) == Load16(<<x % 256, x \div 256>>)

\* libusb_le16_to_cpu is the same function.
Le16ToCpu(x) == CpuToLe16(x)

\* struct libusb_control_setup is packed: its fields lie in memory one behind the other.
ControlSetup(requestType, request, value, index, length) ==
  LET v == Store16(value)
      i == Store16(index)
      l == Store16(length)
  IN  <<requestType, request, v[1], v[2], i[1], i[2], l[1], l[2]>>

\* The field wLength of it.
WLength == Load16(<<setup[7], setup[8]>>)

\* The caller puts the byte bmRequestType together from its parts.
FillControlSetup(r) ==
  /\ Enter
  /\ setup' = ControlSetup(EndpointDirection[r.direction] + RequestType[r.type]
                             + RequestRecipient[r.recipient],
                           StandardRequest[r.request],
                           CpuToLe16(r.value), CpuToLe16(r.index), CpuToLe16(r.length))
  /\ wanted' = r
  /\ UNCHANGED <<big, tr, desc, loop>>

\* libusb_control_transfer_get_setup and libusb_control_transfer_get_data: the setup
\* packet lies at the start of the buffer, the data behind it.
SetupAt == tr.buffer
DataAt == tr.buffer + SetupSize

\* Mutant of ControlLength: the setup packet is not counted.
ControlLengthOfData == Le16ToCpu(WLength)

ControlLength == SetupSize + Le16ToCpu(WLength)

-----------------------------------------------------------------------------
(* The fill functions.  What they do not name keeps its value.             *)

Filled(type, endpoint, buffer, length) ==
  /\ Enter
  /\ tr' = [tr EXCEPT !.type = type, !.endpoint = endpoint, !.buffer = buffer, !.length = length]
  /\ UNCHANGED <<big, setup, desc, loop, wanted>>

\* Without a buffer the length is 0, though the comment at 1984-1986 says it is left alone.
FillControlTransfer(buffer) ==
  Filled("CONTROL", 0, buffer, IF buffer # NULL THEN ControlLength ELSE 0)

FillBulkTransfer(endpoint, buffer, length) == Filled("BULK", endpoint, buffer, length)

FillBulkStreamTransfer(endpoint, buffer, length) ==
  Filled("BULK_STREAM", endpoint, buffer, length)

FillInterruptTransfer(endpoint, buffer, length) ==
  Filled("INTERRUPT", endpoint, buffer, length)

FillIsoTransfer(endpoint, buffer, length, packets) ==
  /\ Enter
  /\ tr' = [type |-> "ISOCHRONOUS", endpoint |-> endpoint, buffer |-> buffer,
            length |-> length, packets |-> packets]
  /\ UNCHANGED <<big, setup, desc, loop, wanted>>

-----------------------------------------------------------------------------
(* The packets of an isochronous transfer.                                 *)

\* The program may give one packet a length of its own.
SetPacket(p, length) ==
  /\ Enter
  /\ desc' = [desc EXCEPT ![p] = length]
  /\ UNCHANGED <<big, setup, tr, loop, wanted>>

SetIsoPacketLengths(length) ==
  /\ Enter
  /\ loop' = [NoLoop EXCEPT !.fn = "set", !.arg = length]
  /\ UNCHANGED <<big, setup, tr, desc, wanted>>

\* Mutant of LastPacket: the loop stops one packet early.
LastPacketMissed == tr.packets - 1

\* Mutant of LastPacket: the loop runs one packet too far.
LastPacketPassed == tr.packets + 1

\* Where the loop over the packets ends.
LastPacket == tr.packets

SetOneLength ==
  /\ loop.fn = "set" /\ loop.i < LastPacket
  /\ desc' = [desc EXCEPT ![loop.i] = loop.arg]
  /\ loop' = [loop EXCEPT !.i = @ + 1]
  /\ UNCHANGED <<big, setup, tr, found, asked, wanted>>

SetReturns ==
  /\ loop.fn = "set" /\ loop.i >= LastPacket
  /\ loop' = NoLoop
  /\ UNCHANGED <<big, setup, tr, desc, found, asked, wanted>>

\* An unsigned int converted to int.
ToInt(n) == IF n <= IntMax THEN n ELSE n - UIntMax - 1

\* There is such a packet.
Exists(packet) == packet <= IntMax /\ ToInt(packet) < tr.packets

GetIsoPacketBuffer(packet) ==
  /\ Idle
  /\ IF Exists(packet)
     THEN loop' = [NoLoop EXCEPT !.fn = "get", !.arg = packet] /\ found' = None
     ELSE found' = [packet |-> packet, at |-> NULL] /\ UNCHANGED loop
  /\ asked' = Silence
  /\ UNCHANGED <<big, setup, tr, desc, wanted>>

\* Mutant of AddOneLength: the length of the packet looked for is added, not of those before.
AddLastLength ==
  /\ loop.fn = "get" /\ loop.i < ToInt(loop.arg)
  /\ loop' = [loop EXCEPT !.i = @ + 1, !.offset = @ + desc[loop.arg]]
  /\ UNCHANGED <<big, setup, tr, desc, found, asked, wanted>>

AddOneLength ==
  /\ loop.fn = "get" /\ loop.i < ToInt(loop.arg)
  /\ loop' = [loop EXCEPT !.i = @ + 1, !.offset = @ + desc[loop.i]]
  /\ UNCHANGED <<big, setup, tr, desc, found, asked, wanted>>

\* The pointer is worked out from the buffer the transfer has now, NULL or not.
GetReturns ==
  /\ loop.fn = "get" /\ loop.i >= ToInt(loop.arg)
  /\ found' = [packet |-> loop.arg, at |-> tr.buffer + loop.offset]
  /\ loop' = NoLoop
  /\ UNCHANGED <<big, setup, tr, desc, asked, wanted>>

\* Mutant of Simple: the packets are counted from one.
SimpleFromOne(packet) ==
  IF Exists(packet)
  THEN tr.buffer + ToInt((ToInt(desc[0]) * (ToInt(packet) + 1)) % (UIntMax + 1)) ELSE NULL

\* What libusb_get_iso_packet_buffer_simple returns; it changes nothing.  The product
\* of two ints is taken to wrap, one of the things an overflow may do.
Simple(packet) ==
  IF Exists(packet)
  THEN tr.buffer + ToInt((ToInt(desc[0]) * ToInt(packet)) % (UIntMax + 1)) ELSE NULL

-----------------------------------------------------------------------------
(* Requests for descriptors: 16 bits for the type and the number, 16 for   *)
(* the length.                                                             *)

\* Mutant of RequestLength: as many bytes as a request can ask for.
RequestLengthFull(length) == 256 * 256 - 1

RequestLength(length) == length % (256 * 256)

\* libusb_control_transfer is asked to send this; type, number and room are history.
Ask(type, number, index, length) ==
  /\ Idle
  /\ asked' = [direction |-> EndpointDirection.ENDPOINT_IN, request |-> StandardRequest.GET_DESCRIPTOR,
               value |-> (DescriptorType[type] * 256 + number) % (256 * 256), index |-> index,
               length |-> RequestLength(length),
               type |-> type, number |-> number, room |-> length]
  /\ found' = None
  /\ UNCHANGED <<big, setup, tr, desc, loop, wanted>>

GetDescriptor(type, number, length) == Ask(type, number, 0, length)

GetStringDescriptor(number, langid, length) == Ask("STRING", number, langid, length)

-----------------------------------------------------------------------------
Packet == 0 .. Alloc \cup {IntMax + 1}

\* A bulk or interrupt transfer of nothing needs no buffer.
Next ==
  \/ \E r \in Request : FillControlSetup(r)
  \/ \E b \in {NULL, Buffer} : FillControlTransfer(b)
  \/ \E n \in Length, b \in {NULL, Buffer} :
       /\ b = NULL => n = 0
       /\ FillBulkTransfer(1, b, n) \/ FillBulkStreamTransfer(1, b, n)
            \/ FillInterruptTransfer(1, b, n)
  \/ \E n \in Length, k \in 0 .. Alloc : FillIsoTransfer(1, Buffer, n, k)
  \/ \E n \in PacketLength : SetIsoPacketLengths(n) \/ \E p \in 0 .. Alloc - 1 : SetPacket(p, n)
  \/ SetOneLength \/ SetReturns
  \/ \E p \in Packet : GetIsoPacketBuffer(p)
  \/ AddOneLength \/ GetReturns
  \/ \E t \in DOMAIN DescriptorType, n \in Length : GetDescriptor(t, 0, n)
  \/ \E n \in Length : GetStringDescriptor(255, 1033, n)

Spec == Init /\ [][Next]_vars

-----------------------------------------------------------------------------
(* The properties.                                                         *)

\* The variables have their types: no loop runs over the packets there is room for.
TypeOK ==
  /\ big \in BOOLEAN
  /\ setup \in [1 .. SetupSize -> UInt8]
  /\ tr \in Transfer
  /\ desc \in [0 .. Alloc - 1 -> IsoPacketDescriptor]
  /\ loop \in [fn : {"none", "set", "get"}, arg : 0 .. UIntMax, i : 0 .. Alloc, offset : Nat]
  /\ found \in [packet : Packet \cup {NoPacket}, at : Nat]
  /\ asked \in [direction : UInt8, request : UInt8, value : UInt16, index : UInt16,
                length : UInt16, type : DOMAIN DescriptorType \cup {"none"},
                number : UInt8, room : 0 .. IntMax]
  /\ wanted \in Requests

\* The names that stand for a number.
Named(names, number) == {n \in DOMAIN names : names[n] = number}

\* A device that takes the setup packet apart as USB says, numbers with their low byte
\* first, sees the request the program asked for, whatever the byte order of the machine.
SetupIsPortable ==
  /\ Named(EndpointDirection, (setup[1] \div 128) * 128) = {wanted.direction}
  /\ Named(RequestType, ((setup[1] % 128) \div 32) * 32) = {wanted.type}
  /\ Named(RequestRecipient, setup[1] % 32) = {wanted.recipient}
  /\ Named(StandardRequest, setup[2]) = {wanted.request}
  /\ setup[3] + 256 * setup[4] = wanted.value
  /\ setup[5] + 256 * setup[6] = wanted.index
  /\ setup[7] + 256 * setup[8] = wanted.length

\* A request for a descriptor names the one the caller asked for, of all types, and never
\* asks the device for more than the caller's buffer holds, whatever its length.
DescriptorFits ==
  asked.type # "none" =>
    /\ Named(DescriptorType, asked.value \div 256) = {asked.type}
    /\ asked.value % 256 = asked.number
    /\ asked.length <= asked.room

\* A control transfer filled with a buffer ends where the data ends that its setup packet
\* asks for: get_setup finds the packet that was filled, the data begins where get_data
\* says, and is as long as was asked for when the packet was filled.
LengthMatchesSetup ==
  [][tr' # tr /\ tr'.type = "CONTROL" /\ tr'.buffer # NULL
       => /\ SetupAt' = Buffer
          /\ SetupAt' + tr'.length = DataAt' + wanted.length]_vars

\* The packets that the transfer has are all of one length and fit in its buffer.
UniformFits ==
  /\ \A p \in 0 .. tr.packets - 1 : desc[p] = desc[0]
  /\ tr.packets > 0 => tr.packets * desc[0] <= tr.length

\* The thorough and the simple lookup agree on transfers whose packets have one
\* length and fit in the buffer.
LookupsAgree == UniformFits /\ found.packet # NoPacket => found.at = Simple(found.packet)

\* Where the packets of these lengths begin, one behind the other; the last number is
\* where the one behind all of them would.
Begin(lengths) ==
  LET b[k \in 0 .. Alloc] == IF k = 0 THEN 0 ELSE b[k - 1] + lengths[k - 1] IN b

\* A lookup gives NULL for a packet that is not there.  One that is there lies behind the
\* ones before it and in the buffer whole, if there is a buffer and the packets, of
\* whatever lengths, fit in it.
PacketsInBuffer ==
  found.packet # NoPacket =>
    /\ found.packet >= tr.packets => found.at = NULL
    /\ found.packet < tr.packets /\ tr.buffer # NULL /\ Begin(desc)[tr.packets] <= tr.length
         => /\ found.at >= tr.buffer + Begin(desc)[found.packet]
            /\ found.at + desc[found.packet] <= tr.buffer + tr.length

\* Once set_iso_packet_lengths has returned, all packets of the transfer have the
\* length it was given.
AllPacketsSet ==
  [][loop.fn = "set" /\ loop'.fn = "none" => \A p \in 0 .. tr.packets - 1 : desc[p] = loop.arg]_vars
=============================================================================

-------------------------- MODULE UsbTransferProofs --------------------------
(***************************************************************************)
(* Proofs about UsbTransfer, for ints of any width, any number of packets  *)
(* and any lengths: the setup packet in both byte orders, the length made  *)
(* from it, and the loops over the packets of a transfer.                  *)
(***************************************************************************)
EXTENDS UsbTransfer, DataInduction

\* The types of the structures are never opaque.
USE DEF Transfer, IsoPacketDescriptor

-----------------------------------------------------------------------------
(* Two bytes and the number they form.                                     *)

LEMMA Join ==
  ASSUME NEW a \in UInt8, NEW b \in UInt8
  PROVE  /\ a * 256 + b \in UInt16
         /\ (a * 256 + b) \div 256 = a
         /\ (a * 256 + b) % 256 = b
<1>1. a \in 0 .. 255 /\ b \in 0 .. 255 BY DEF UInt8
<1>2. a * 256 + b \in 0 .. 256 * 256 - 1 BY <1>1, WordOfBytes
<1>3. (a * 256 + b) \div 256 = a BY <1>1, SMTT(30)
<1>4. (a * 256 + b) % 256 = b BY <1>1, SMTT(30)
<1>5. QED BY <1>2, <1>3, <1>4 DEF UInt16

LEMMA Split ==
  ASSUME NEW x \in UInt16
  PROVE  /\ x % 256 \in UInt8 /\ x \div 256 \in UInt8
         /\ x = (x \div 256) * 256 + (x % 256)
BY SMTT(30) DEF UInt8, UInt16

\* A field that was given x lies in memory with the low byte of x first.
LEMMA StoredLowByteFirst ==
  ASSUME NEW x \in UInt16, big \in BOOLEAN
  PROVE  Store16(CpuToLe16(x)) = <<x % 256, x \div 256>>
<1> DEFINE lo == x % 256
           hi == x \div 256
<1>1. lo \in UInt8 /\ hi \in UInt8 BY Split
<1>2. CASE big
  <2>1. CpuToLe16(x) = lo * 256 + hi BY <1>2 DEF CpuToLe16, Load16
  <2>2. (lo * 256 + hi) \div 256 = lo /\ (lo * 256 + hi) % 256 = hi BY <1>1, Join
  <2>3. QED BY <1>2, <2>1, <2>2 DEF Store16
<1>3. CASE ~big
  <2>1. CpuToLe16(x) = hi * 256 + lo BY <1>3 DEF CpuToLe16, Load16
  <2>2. (hi * 256 + lo) \div 256 = hi /\ (hi * 256 + lo) % 256 = lo BY <1>1, Join
  <2>3. QED BY <1>3, <2>1, <2>2 DEF Store16
<1>4. QED BY <1>2, <1>3

\* A field is read back as the number its bytes form, low byte first.
LEMMA LoadedLowByteFirst ==
  ASSUME NEW a \in UInt8, NEW b \in UInt8, big \in BOOLEAN
  PROVE  Le16ToCpu(Load16(<<a, b>>)) = a + 256 * b
<1>1. CASE big
  <2> DEFINE w == a * 256 + b
  <2>1. w \div 256 = a /\ w % 256 = b BY Join
  <2>2. Le16ToCpu(w) = (w % 256) * 256 + (w \div 256) BY <1>1 DEF Le16ToCpu, CpuToLe16, Load16
  <2>3. Load16(<<a, b>>) = w BY <1>1 DEF Load16
  <2>4. (b * 256) + a = a + 256 * b BY DEF UInt8
  <2>5. QED BY <2>1, <2>2, <2>3, <2>4
<1>2. CASE ~big
  <2> DEFINE w == b * 256 + a
  <2>1. w \div 256 = b /\ w % 256 = a BY Join
  <2>2. Le16ToCpu(w) = (w \div 256) * 256 + (w % 256) BY <1>2 DEF Le16ToCpu, CpuToLe16, Load16
  <2>3. Load16(<<a, b>>) = w BY <1>2 DEF Load16
  <2>4. (b * 256) + a = a + 256 * b BY DEF UInt8
  <2>5. QED BY <2>1, <2>2, <2>3, <2>4
<1>3. QED BY <1>1, <1>2

LEMMA Mod ==
  ASSUME NEW x \in Nat, NEW m \in Nat, 0 < m
  PROVE  x % m \in 0 .. m - 1 /\ x % m <= x /\ (x < m => x % m = x)
OBVIOUS

-----------------------------------------------------------------------------
(* Where packets begin.                                                    *)

\* Begin is the recursion that its definition says.
LEMMA BeginDef ==
  ASSUME NEW lengths \in [0 .. Alloc - 1 -> Nat]
  PROVE  /\ Begin(lengths) \in [0 .. Alloc -> Nat]
         /\ Begin(lengths)[0] = 0
         /\ \A k \in 0 .. Alloc - 1 : Begin(lengths)[k + 1] = Begin(lengths)[k] + lengths[k]
<1> DEFINE h == [x \in Nat \X Nat |-> IF x[2] \in 0 .. Alloc - 1 THEN x[1] + lengths[x[2]] ELSE 0]
<1> DEFINE Rec(b) == b = [k \in 0 .. Alloc |-> IF k = 0 THEN 0 ELSE b[k - 1] + lengths[k - 1]]
<1>0. Alloc \in Nat BY UsbTransferAssumption
<1> DEFINE V == Nat
           c == 0
<1>1. c \in V /\ h \in [V \X Nat -> V] OBVIOUS
<1>2. \A m \in Nat : \A k \in 0 .. Alloc - 1 : k \in Nat /\ h[<<m, k>>] = m + lengths[k] BY <1>0
<1> HIDE DEF h, V, c
<1>2a. PICK g \in [Nat -> V] : Recursion(g, c, h) BY <1>1, RecursionExists
<1>2b. g \in [Nat -> Nat] /\ g[0] = 0 BY <1>2a DEF V, c, Recursion
<1>3. ASSUME NEW k \in 0 .. Alloc - 1 PROVE g[k + 1] = g[k] + lengths[k]
  <2>1. k \in Nat /\ g[k] \in Nat BY <1>0, <1>2b
  <2>2. QED BY <1>2, <1>2a, <2>1 DEF Recursion
<1> DEFINE f == [k \in 0 .. Alloc |-> g[k]]
<1>4. f = [k \in 0 .. Alloc |-> IF k = 0 THEN 0 ELSE f[k - 1] + lengths[k - 1]]
  <2>1. ASSUME NEW k \in 0 .. Alloc PROVE f[k] = IF k = 0 THEN 0 ELSE f[k - 1] + lengths[k - 1]
    <3>1. CASE k = 0 BY <1>0, <1>2b, <3>1
    <3>2. CASE k # 0
      <4>1. k - 1 \in 0 .. Alloc - 1 /\ k - 1 \in 0 .. Alloc /\ k - 1 + 1 = k BY <1>0, <3>2
      <4>2. QED BY <1>3, <3>2, <4>1
    <3>3. QED BY <3>1, <3>2
  <2>2. QED BY <2>1
<1>5. Rec(f) BY <1>4
<1> HIDE DEF f
<1>6. Begin(lengths) = CHOOSE b : Rec(b) BY DEF Begin
<1> HIDE DEF Rec
<1>7. Rec(Begin(lengths)) BY <1>5, <1>6
<1> DEFINE b == Begin(lengths)
           S == {k \in 0 .. Alloc : b[k] \in Nat}
<1> HIDE DEF b
<1>8. b = [k \in 0 .. Alloc |-> IF k = 0 THEN 0 ELSE b[k - 1] + lengths[k - 1]]
  BY <1>7 DEF Rec, b
<1>9. b[0] = 0 BY <1>0, <1>8
<1>10. ASSUME NEW k \in 0 .. Alloc - 1 PROVE b[k + 1] = b[k] + lengths[k]
  <2>1. k + 1 \in 0 .. Alloc /\ k + 1 # 0 /\ (k + 1) - 1 = k BY <1>0
  <2>2. QED BY <1>8, <2>1
<1>11. 0 \in S BY <1>0, <1>9
<1>12. ASSUME NEW k \in 0 .. Alloc - 1, k \in S PROVE k + 1 \in S
  <2>1. k + 1 \in 0 .. Alloc /\ b[k] \in Nat /\ lengths[k] \in Nat BY <1>0, <1>12
  <2>2. QED BY <1>10, <2>1
<1> HIDE DEF S
<1>13. 0 .. Alloc \subseteq S BY <1>0, <1>11, <1>12, RangeInduction
<1>14. b \in [0 .. Alloc -> Nat]
  <2>1. \A k \in 0 .. Alloc : b[k] \in Nat BY <1>13 DEF S
  <2>2. QED BY <1>8, <2>1
<1>15. QED BY <1>9, <1>10, <1>14 DEF b

\* A packet begins no earlier than one before it.
LEMMA BeginGrows ==
  ASSUME NEW lengths \in [0 .. Alloc - 1 -> Nat], NEW n \in 0 .. Alloc, NEW k \in 0 .. n
  PROVE  Begin(lengths)[k] <= Begin(lengths)[n]
<1> DEFINE b == Begin(lengths)
           S == {j \in Nat : k + j <= Alloc => b[k] <= b[k + j]}
<1>0. Alloc \in Nat BY UsbTransferAssumption
<1>1. /\ b \in [0 .. Alloc -> Nat]
      /\ \A j \in 0 .. Alloc - 1 : b[j + 1] = b[j] + lengths[j]
  BY BeginDef
<1> HIDE DEF b
<1>2. k \in 0 .. Alloc BY <1>0
<1>3. 0 \in S BY <1>1, <1>2
<1>4. ASSUME NEW j \in Nat, j \in S PROVE j + 1 \in S
  <2> SUFFICES ASSUME k + (j + 1) <= Alloc PROVE b[k] <= b[k + (j + 1)] OBVIOUS
  <2>1. k + j \in 0 .. Alloc - 1 /\ k + j \in 0 .. Alloc /\ k + (j + 1) = (k + j) + 1 BY <1>0, <1>2
  <2>2. b[(k + j) + 1] = b[k + j] + lengths[k + j] BY <1>1, <2>1
  <2>3. b[k] <= b[k + j] BY <1>0, <1>4, <2>1
  <2>4. b[k] \in Nat /\ b[k + j] \in Nat /\ lengths[k + j] \in Nat BY <1>1, <1>2, <2>1
  <2>5. QED BY <2>1, <2>2, <2>3, <2>4
<1> HIDE DEF S
<1>5. Nat \subseteq S BY <1>3, <1>4, SetInduction
<1>6. n - k \in S /\ k + (n - k) = n /\ n <= Alloc BY <1>0, <1>5
<1>7. QED BY <1>6 DEF S, b

\* Packets of one length lie at the multiples of it.
LEMMA BeginOfUniform ==
  ASSUME NEW lengths \in [0 .. Alloc - 1 -> Nat], NEW n \in 1 .. Alloc,
         \A p \in 0 .. n - 1 : lengths[p] = lengths[0]
  PROVE  \A k \in 0 .. n : Begin(lengths)[k] = k * lengths[0]
<1> DEFINE b == Begin(lengths)
           S == {k \in 0 .. n : b[k] = k * lengths[0]}
<1>0. Alloc \in Nat BY UsbTransferAssumption
<1>1. b[0] = 0 /\ \A j \in 0 .. Alloc - 1 : b[j + 1] = b[j] + lengths[j] BY BeginDef
<1> HIDE DEF b
<1>2. lengths[0] \in Nat
  <2>1. 0 \in 0 .. Alloc - 1 BY <1>0
  <2>2. QED BY <2>1
<1>3. 0 \in S BY <1>0, <1>1, <1>2
<1>4. ASSUME NEW k \in 0 .. n - 1, k \in S PROVE k + 1 \in S
  <2>1. k \in 0 .. Alloc - 1 /\ k + 1 \in 0 .. n BY <1>0
  <2>2. b[k + 1] = k * lengths[0] + lengths[0] BY <1>1, <1>4, <2>1
  <2>3. \A m, d \in Nat : m * d + d = (m + 1) * d OBVIOUS
  <2>4. QED BY <1>0, <1>2, <2>1, <2>2, <2>3
<1> HIDE DEF S
<1>5. n \in Nat BY <1>0
<1>6. 0 .. n \subseteq S BY <1>3, <1>4, <1>5, RangeInduction
<1>7. QED BY <1>6 DEF S, b

-----------------------------------------------------------------------------
(* The names of numbers: no two names of an enumeration have one number.   *)

LEMMA RequestTypeTakenApart ==
  ASSUME NEW d \in DOMAIN EndpointDirection, NEW t \in DOMAIN RequestType,
         NEW r \in DOMAIN RequestRecipient,
         NEW b, b = EndpointDirection[d] + RequestType[t] + RequestRecipient[r]
  PROVE  /\ b \in UInt8
         /\ Named(EndpointDirection, (b \div 128) * 128) = {d}
         /\ Named(RequestType, ((b % 128) \div 32) * 32) = {t}
         /\ Named(RequestRecipient, b % 32) = {r}
<1>1. /\ EndpointDirection[d] \in {0, 128}
      /\ \A x \in DOMAIN EndpointDirection : EndpointDirection[x] = EndpointDirection[d] => x = d
  BY DEF EndpointDirection
<1>2. /\ RequestType[t] \in {0, 32, 64, 96}
      /\ \A x \in DOMAIN RequestType : RequestType[x] = RequestType[t] => x = t
  BY DEF RequestType
<1>3. /\ RequestRecipient[r] \in 0 .. 3
      /\ \A x \in DOMAIN RequestRecipient : RequestRecipient[x] = RequestRecipient[r] => x = r
  BY DEF RequestRecipient
<1>4. ASSUME NEW x \in {0, 128}, NEW y \in {0, 32, 64, 96}, NEW z \in 0 .. 3, b = x + y + z
      PROVE  /\ b \in UInt8 /\ (b \div 128) * 128 = x
             /\ ((b % 128) \div 32) * 32 = y /\ b % 32 = z
  BY <1>4 DEF UInt8
<1>5. /\ b \in UInt8 /\ (b \div 128) * 128 = EndpointDirection[d]
      /\ ((b % 128) \div 32) * 32 = RequestType[t] /\ b % 32 = RequestRecipient[r]
  <2> DEFINE x == EndpointDirection[d]
             y == RequestType[t]
             z == RequestRecipient[r]
  <2>1. x \in {0, 128} /\ y \in {0, 32, 64, 96} /\ z \in 0 .. 3 BY <1>1, <1>2, <1>3
  <2>2. b = x + y + z OBVIOUS
  <2> HIDE DEF x, y, z
  <2>3. /\ b \in UInt8 /\ (b \div 128) * 128 = x
        /\ ((b % 128) \div 32) * 32 = y /\ b % 32 = z
    BY <1>4, <2>1, <2>2
  <2>4. QED BY <2>3 DEF x, y, z
<1>6. QED BY <1>1, <1>2, <1>3, <1>5 DEF Named

LEMMA StandardRequestNamed ==
  ASSUME NEW q \in DOMAIN StandardRequest
  PROVE  StandardRequest[q] \in UInt8 /\ Named(StandardRequest, StandardRequest[q]) = {q}
<1>1. StandardRequest[q] \in UInt8 BY DEF StandardRequest, UInt8
<1>2. \A x \in DOMAIN StandardRequest : StandardRequest[x] = StandardRequest[q] => x = q
  BY DEF StandardRequest
<1>3. QED BY <1>1, <1>2 DEF Named

LEMMA DescriptorTypeNamed ==
  ASSUME NEW t \in DOMAIN DescriptorType
  PROVE  DescriptorType[t] \in UInt8 /\ Named(DescriptorType, DescriptorType[t]) = {t}
<1>1. DescriptorType[t] \in UInt8 BY DEF DescriptorType, UInt8
<1>2. \A x \in DOMAIN DescriptorType : DescriptorType[x] = DescriptorType[t] => x = t
  BY DEF DescriptorType
<1>3. QED BY <1>1, <1>2 DEF Named

-----------------------------------------------------------------------------
(* The inductive invariant.  The packets of a transfer do not change while *)
(* a loop over them runs, so each loop can say what it has done so far.    *)

\* libusb_set_iso_packet_lengths has set the packets before i.
Setting ==
  loop.fn = "set" => /\ found = None
                     /\ loop.i <= tr.packets /\ \A p \in 0 .. loop.i - 1 : desc[p] = loop.arg

\* libusb_get_iso_packet_buffer has added the lengths of the packets before i.
Getting ==
  loop.fn = "get" => /\ loop.arg < tr.packets /\ loop.i <= loop.arg
                     /\ loop.offset = Begin(desc)[loop.i]

\* What it returned last.
Found ==
  found.packet # NoPacket =>
    found.at = IF found.packet < tr.packets
               THEN tr.buffer + Begin(desc)[found.packet] ELSE NULL

IInv == TypeOK /\ SetupIsPortable /\ DescriptorFits /\ Setting /\ Getting /\ Found

LEMMA Constants ==
  /\ IntMax \in Nat /\ 8 + 256 * 256 - 1 <= IntMax /\ UIntMax = 2 * IntMax + 1
  /\ Alloc \in Nat /\ Alloc <= IntMax /\ Buffer \in Nat /\ 0 < Buffer /\ NULL = 0
  /\ Length \subseteq 0 .. IntMax /\ PacketLength \subseteq 0 .. UIntMax
  /\ Request \subseteq Requests
BY UsbTransferAssumption DEF UIntMax, NULL, SetupSize

LEMMA InitInv == Init => IInv
<1> SUFFICES ASSUME Init PROVE IInv OBVIOUS
<1>1. wanted \in Requests
  BY DEF Init, Requests, UInt16, EndpointDirection, RequestType, RequestRecipient, StandardRequest
<1>2. setup \in [1 .. SetupSize -> UInt8] /\ \A k \in 1 .. 8 : setup[k] = 0
  BY DEF Init, SetupSize, UInt8
<1>3. asked = Silence /\ Silence \in
         [direction : UInt8, request : UInt8, value : UInt16, index : UInt16,
          length : UInt16, type : DOMAIN DescriptorType \cup {"none"},
          number : UInt8, room : 0 .. IntMax]
  BY Constants DEF Init, Silence, UInt8, UInt16
<1>4. TypeOK
  BY <1>1, <1>2, <1>3, Constants DEF Init, TypeOK, TransferType, NoLoop, None
<1>5. SetupIsPortable
  <2>1. /\ "ENDPOINT_OUT" \in DOMAIN EndpointDirection /\ "STANDARD" \in DOMAIN RequestType
        /\ "DEVICE" \in DOMAIN RequestRecipient
        /\ 0 = EndpointDirection["ENDPOINT_OUT"] + RequestType["STANDARD"] + RequestRecipient["DEVICE"]
    BY DEF EndpointDirection, RequestType, RequestRecipient
  <2>2. /\ Named(EndpointDirection, (0 \div 128) * 128) = {"ENDPOINT_OUT"}
        /\ Named(RequestType, ((0 % 128) \div 32) * 32) = {"STANDARD"}
        /\ Named(RequestRecipient, 0 % 32) = {"DEVICE"}
    BY <2>1, RequestTypeTakenApart
  <2>3. Named(StandardRequest, 0) = {"GET_STATUS"}
    BY StandardRequestNamed DEF StandardRequest
  <2>4. QED BY <1>2, <2>2, <2>3 DEF SetupIsPortable, Init
<1>6. DescriptorFits BY <1>3 DEF DescriptorFits, Silence
<1>7. Setting /\ Getting /\ Found BY DEF Init, Setting, Getting, Found, NoLoop, None
<1>8. QED BY <1>4, <1>5, <1>6, <1>7 DEF IInv

\* The lengths of packets are numbers.
LEMMA DescNat ==
  ASSUME TypeOK
  PROVE  /\ desc \in [0 .. Alloc - 1 -> Nat]
         /\ \A k \in 0 .. Alloc - 1 : desc[k] \in Nat /\ desc[k] <= UIntMax
<1>1. desc \in [0 .. Alloc - 1 -> 0 .. UIntMax] BY DEF TypeOK
<1>2. QED BY <1>1, Constants

\* What a call begins with.
LEMMA EnterTypes ==
  ASSUME Enter
  PROVE  /\ found' \in [packet : Packet \cup {NoPacket}, at : Nat]
         /\ asked' \in [direction : UInt8, request : UInt8, value : UInt16, index : UInt16,
                        length : UInt16, type : DOMAIN DescriptorType \cup {"none"},
                        number : UInt8, room : 0 .. IntMax]
         /\ DescriptorFits'
BY Constants DEF Enter, None, Silence, UInt8, UInt16, DescriptorFits

\* A call that begins no loop and looks up no packet.
LEMMA EnterKeeps ==
  ASSUME Enter, UNCHANGED loop
  PROVE  Setting' /\ Getting' /\ Found'
BY DEF Enter, Idle, NoLoop, None, Setting, Getting, Found

LEMMA FillControlSetupStep ==
  ASSUME IInv, NEW r \in Request, FillControlSetup(r)
  PROVE  IInv'
<1>0. TypeOK /\ big \in BOOLEAN BY DEF IInv, TypeOK
<1>1. /\ r \in Requests
      /\ r.direction \in DOMAIN EndpointDirection /\ r.type \in DOMAIN RequestType
      /\ r.recipient \in DOMAIN RequestRecipient /\ r.request \in DOMAIN StandardRequest
      /\ r.value \in UInt16 /\ r.index \in UInt16 /\ r.length \in UInt16
  BY Constants DEF Requests
<1> DEFINE b == EndpointDirection[r.direction] + RequestType[r.type] + RequestRecipient[r.recipient]
           q == StandardRequest[r.request]
<1>2. /\ b \in UInt8
      /\ Named(EndpointDirection, (b \div 128) * 128) = {r.direction}
      /\ Named(RequestType, ((b % 128) \div 32) * 32) = {r.type}
      /\ Named(RequestRecipient, b % 32) = {r.recipient}
  BY <1>1, RequestTypeTakenApart
<1>3. q \in UInt8 /\ Named(StandardRequest, q) = {r.request} BY <1>1, StandardRequestNamed
<1> HIDE DEF b, q
<1>4. setup' = <<b, q, r.value % 256, r.value \div 256, r.index % 256, r.index \div 256,
                 r.length % 256, r.length \div 256>>
  <2>1. /\ Store16(CpuToLe16(r.value)) = <<r.value % 256, r.value \div 256>>
        /\ Store16(CpuToLe16(r.index)) = <<r.index % 256, r.index \div 256>>
        /\ Store16(CpuToLe16(r.length)) = <<r.length % 256, r.length \div 256>>
    BY <1>0, <1>1, StoredLowByteFirst
  <2>2. QED BY <2>1 DEF FillControlSetup, ControlSetup, b, q
<1>5. /\ r.value % 256 \in UInt8 /\ r.value \div 256 \in UInt8
      /\ r.index % 256 \in UInt8 /\ r.index \div 256 \in UInt8
      /\ r.length % 256 \in UInt8 /\ r.length \div 256 \in UInt8
  BY <1>1, Split
<1>6. setup' \in [1 .. SetupSize -> UInt8] BY <1>2, <1>3, <1>4, <1>5 DEF SetupSize
<1>7. TypeOK' BY <1>0, <1>1, <1>6, EnterTypes DEF TypeOK, FillControlSetup
<1>8. SetupIsPortable'
  <2>1. /\ setup'[1] = b /\ setup'[2] = q
        /\ setup'[3] = r.value % 256 /\ setup'[4] = r.value \div 256
        /\ setup'[5] = r.index % 256 /\ setup'[6] = r.index \div 256
        /\ setup'[7] = r.length % 256 /\ setup'[8] = r.length \div 256
    BY <1>4
  <2>2. ASSUME NEW x \in UInt16 PROVE (x % 256) + 256 * (x \div 256) = x
    BY SMTT(30) DEF UInt16
  <2>3. wanted' = r BY DEF FillControlSetup
  <2>4. QED BY <1>1, <1>2, <1>3, <2>1, <2>2, <2>3 DEF SetupIsPortable
<1>9. DescriptorFits' BY EnterTypes DEF FillControlSetup
<1>10. Setting' /\ Getting' /\ Found' BY EnterKeeps DEF FillControlSetup
<1>11. QED BY <1>7, <1>8, <1>9, <1>10 DEF IInv

\* A control transfer is as long as its setup packet and the data it asks for.
LEMMA LengthMade ==
  ASSUME IInv
  PROVE  ControlLength = SetupSize + wanted.length /\ ControlLength \in 0 .. IntMax
<1>1. /\ big \in BOOLEAN /\ setup[7] \in UInt8 /\ setup[8] \in UInt8
      /\ wanted.length \in UInt16
  BY DEF IInv, TypeOK, SetupSize, Requests
<1>2. Le16ToCpu(WLength) = wanted.length
  BY <1>1, LoadedLowByteFirst DEF WLength, IInv, SetupIsPortable
<1>3. ControlLength = 8 + wanted.length BY <1>2 DEF ControlLength, SetupSize
<1>4. wanted.length \in 0 .. 256 * 256 - 1 BY <1>1 DEF UInt16
<1>5. 8 + wanted.length \in 0 .. IntMax
  <2>1. IntMax \in Nat /\ 8 + 256 * 256 - 1 <= IntMax BY UsbTransferAssumption DEF SetupSize
  <2>2. QED BY <1>4, <2>1, WordAndEight
<1>6. QED BY <1>3, <1>5 DEF SetupSize

LEMMA FillStep ==
  ASSUME IInv, Enter, UNCHANGED <<big, setup, desc, loop, wanted>>,
         tr' \in [type : TransferType, endpoint : {0, 1}, buffer : {NULL, Buffer},
                  length : 0 .. IntMax, packets : 0 .. Alloc]
  PROVE  IInv'
<1>1. TypeOK' BY EnterTypes DEF IInv, TypeOK
<1>2. SetupIsPortable' BY DEF IInv, SetupIsPortable
<1>3. Setting' /\ Getting' /\ Found' BY EnterKeeps
<1>4. QED BY <1>1, <1>2, <1>3, EnterTypes DEF IInv

LEMMA FilledStep ==
  ASSUME IInv, NEW t \in TransferType, NEW e \in {0, 1}, NEW b \in {NULL, Buffer},
         NEW n \in 0 .. IntMax, Filled(t, e, b, n)
  PROVE  IInv'
BY FillStep DEF Filled, IInv, TypeOK

LEMMA FillIsoTransferStep ==
  ASSUME IInv, NEW n \in Length, NEW k \in 0 .. Alloc, FillIsoTransfer(1, Buffer, n, k)
  PROVE  IInv'
BY FillStep, Constants DEF FillIsoTransfer, TransferType

LEMMA SetPacketStep ==
  ASSUME IInv, NEW p \in 0 .. Alloc - 1, NEW n \in PacketLength, SetPacket(p, n)
  PROVE  IInv'
<1>1. desc' \in [0 .. Alloc - 1 -> 0 .. UIntMax] BY Constants DEF IInv, TypeOK, SetPacket
<1>2. TypeOK' BY <1>1, EnterTypes DEF IInv, TypeOK, SetPacket
<1>3. SetupIsPortable' BY DEF IInv, SetupIsPortable, SetPacket
<1>4. Setting' /\ Getting' /\ Found' /\ DescriptorFits' BY EnterKeeps, EnterTypes DEF SetPacket
<1>5. QED BY <1>2, <1>3, <1>4 DEF IInv

LEMMA SetIsoPacketLengthsStep ==
  ASSUME IInv, NEW n \in PacketLength, SetIsoPacketLengths(n)
  PROVE  IInv'
<1>1. loop' = [fn |-> "set", arg |-> n, i |-> 0, offset |-> 0]
  BY DEF SetIsoPacketLengths, NoLoop
<1>2. TypeOK'
  <2>1. loop' \in [fn : {"none", "set", "get"}, arg : 0 .. UIntMax, i : 0 .. Alloc, offset : Nat]
    BY <1>1, Constants
  <2>2. QED BY <2>1, EnterTypes DEF IInv, TypeOK, SetIsoPacketLengths
<1>3. SetupIsPortable' BY DEF IInv, SetupIsPortable, SetIsoPacketLengths
<1>4. Setting' /\ Getting'
  <2>1. tr' = tr /\ tr.packets \in Nat BY DEF IInv, TypeOK, SetIsoPacketLengths
  <2>2. 0 .. 0 - 1 = {} OBVIOUS
  <2>3. found' = None BY DEF SetIsoPacketLengths, Enter
  <2>4. QED BY <1>1, <2>1, <2>2, <2>3 DEF Setting, Getting
<1>5. Found' /\ DescriptorFits' BY EnterTypes DEF SetIsoPacketLengths, Enter, None, Found
<1>6. QED BY <1>2, <1>3, <1>4, <1>5 DEF IInv

LEMMA SetOneLengthStep ==
  ASSUME IInv, SetOneLength
  PROVE  IInv' /\ loop'.fn = "set"
<1>0. TypeOK /\ SetupIsPortable /\ DescriptorFits /\ Setting BY DEF IInv
<1>1. /\ loop.fn = "set" /\ loop.i < tr.packets
      /\ loop' = [loop EXCEPT !.i = loop.i + 1]
      /\ desc' = [desc EXCEPT ![loop.i] = loop.arg]
      /\ UNCHANGED <<big, setup, tr, found, asked, wanted>>
  BY DEF SetOneLength, LastPacket
<1>2. /\ loop \in [fn : {"none", "set", "get"}, arg : 0 .. UIntMax, i : 0 .. Alloc, offset : Nat]
      /\ tr.packets \in 0 .. Alloc /\ desc \in [0 .. Alloc - 1 -> 0 .. UIntMax]
  BY <1>0 DEF TypeOK
<1>3. loop.i \in 0 .. Alloc - 1 /\ loop.i + 1 \in 0 .. Alloc BY <1>1, <1>2, Constants
<1>4. loop.arg \in 0 .. UIntMax BY <1>2
<1>5. desc' \in [0 .. Alloc - 1 -> 0 .. UIntMax] BY <1>1, <1>2, <1>4
<1>6. loop' \in [fn : {"none", "set", "get"}, arg : 0 .. UIntMax, i : 0 .. Alloc, offset : Nat]
  BY <1>1, <1>2, <1>3
<1>7. TypeOK' BY <1>0, <1>1, <1>5, <1>6 DEF TypeOK
<1>8. SetupIsPortable' /\ DescriptorFits' BY <1>0, <1>1 DEF SetupIsPortable, DescriptorFits
<1>9. loop'.fn = "set" /\ loop'.arg = loop.arg /\ loop'.i = loop.i + 1 BY <1>1, <1>2
<1>10. Setting'
  <2>1. ASSUME NEW p \in 0 .. loop.i PROVE desc'[p] = loop.arg
    <3>1. CASE p = loop.i BY <1>1, <1>2, <1>3, <3>1
    <3>2. CASE p # loop.i
      <4>1. p \in 0 .. loop.i - 1 BY <1>2, <3>2
      <4>2. desc[p] = loop.arg BY <1>0, <1>1, <4>1 DEF Setting
      <4>3. QED BY <1>1, <1>2, <1>3, <3>2, <4>1, <4>2
    <3>3. QED BY <3>1, <3>2
  <2>2. loop.i + 1 <= tr.packets /\ (loop.i + 1) - 1 = loop.i BY <1>1, <1>2
  <2>3. found' = None BY <1>0, <1>1 DEF Setting
  <2>4. \A p \in 0 .. loop'.i - 1 : desc'[p] = loop'.arg BY <1>9, <2>1, <2>2
  <2>5. loop'.i <= tr'.packets BY <1>1, <1>9, <2>2
  <2>6. QED BY <2>3, <2>4, <2>5 DEF Setting
<1>11. Getting' BY <1>9 DEF Getting
<1>12. Found' BY <1>0, <1>1 DEF Setting, Found, None
<1>13. QED BY <1>7, <1>8, <1>9, <1>10, <1>11, <1>12 DEF IInv

LEMMA SetReturnsStep ==
  ASSUME IInv, SetReturns
  PROVE  IInv' /\ \A p \in 0 .. tr.packets - 1 : desc[p] = loop.arg
<1>1. TypeOK' BY Constants DEF IInv, TypeOK, SetReturns, NoLoop
<1>2. SetupIsPortable' /\ DescriptorFits' BY DEF IInv, SetupIsPortable, DescriptorFits, SetReturns
<1>3. Setting' /\ Getting' BY DEF SetReturns, NoLoop, Setting, Getting
<1>4. Found' BY DEF IInv, Setting, Found, SetReturns, None
<1>5. \A p \in 0 .. tr.packets - 1 : desc[p] = loop.arg
  <2>1. loop.i = tr.packets BY DEF IInv, TypeOK, Setting, SetReturns, LastPacket
  <2>2. QED BY <2>1 DEF IInv, Setting, SetReturns
<1>6. QED BY <1>1, <1>2, <1>3, <1>4, <1>5 DEF IInv

LEMMA GetIsoPacketBufferStep ==
  ASSUME IInv, NEW packet \in Packet, GetIsoPacketBuffer(packet)
  PROVE  IInv'
<1>0. TypeOK /\ SetupIsPortable /\ tr.packets \in 0 .. Alloc BY DEF IInv, TypeOK
<1>1. SetupIsPortable' /\ DescriptorFits'
  BY <1>0 DEF SetupIsPortable, GetIsoPacketBuffer, DescriptorFits, Silence
<1>2. packet \in Nat BY Constants DEF Packet
<1>3. CASE Exists(packet)
  <2>1. packet < tr.packets /\ packet <= IntMax BY <1>2, <1>3 DEF Exists, ToInt
  <2>2. /\ loop' = [fn |-> "get", arg |-> packet, i |-> 0, offset |-> 0]
        /\ found' = None /\ asked' = Silence /\ UNCHANGED <<big, setup, tr, desc, wanted>>
    BY <1>3 DEF GetIsoPacketBuffer, NoLoop
  <2>3. TypeOK'
    <3>1. loop' \in [fn : {"none", "set", "get"}, arg : 0 .. UIntMax, i : 0 .. Alloc, offset : Nat]
      BY <1>2, <2>1, <2>2, Constants
    <3>2. Enter BY <2>2 DEF Enter, GetIsoPacketBuffer
    <3>3. QED BY <1>0, <2>2, <3>1, <3>2, EnterTypes DEF TypeOK
  <2>4. Setting' /\ Found' BY <2>2 DEF Setting, Found, None
  <2>5. Getting'
    <3>1. Begin(desc)[0] = 0 BY <1>0, DescNat, BeginDef
    <3>2. QED BY <1>2, <2>1, <2>2, <3>1 DEF Getting
  <2>6. QED BY <1>1, <2>3, <2>4, <2>5 DEF IInv
<1>4. CASE ~Exists(packet)
  <2>1. /\ found' = [packet |-> packet, at |-> NULL]
        /\ asked' = Silence /\ UNCHANGED <<big, setup, tr, desc, loop, wanted>> /\ loop = NoLoop
    BY <1>4 DEF GetIsoPacketBuffer, Idle
  <2>2. packet >= tr.packets
    <3>1. CASE packet <= IntMax BY <1>0, <1>2, <1>4, <3>1, Constants DEF Exists, ToInt
    <3>2. CASE ~(packet <= IntMax) BY <1>0, <1>2, <3>2, Constants
    <3>3. QED BY <3>1, <3>2
  <2>3. TypeOK'
    <3>1. asked' \in [direction : UInt8, request : UInt8, value : UInt16, index : UInt16,
                      length : UInt16, type : DOMAIN DescriptorType \cup {"none"},
                      number : UInt8, room : 0 .. IntMax]
      BY <2>1, Constants DEF Silence, UInt8, UInt16
    <3>2. found' \in [packet : Packet \cup {NoPacket}, at : Nat] BY <2>1, Constants
    <3>3. QED BY <1>0, <2>1, <3>1, <3>2 DEF TypeOK
  <2>4. Setting' /\ Getting' BY <2>1 DEF Setting, Getting, NoLoop
  <2>5. Found' BY <1>0, <1>2, <2>1, <2>2 DEF Found
  <2>6. QED BY <1>1, <2>3, <2>4, <2>5 DEF IInv
<1>5. QED BY <1>3, <1>4

LEMMA AddOneLengthStep ==
  ASSUME IInv, AddOneLength
  PROVE  IInv'
<1>0. TypeOK /\ SetupIsPortable /\ DescriptorFits /\ Getting BY DEF IInv
<1>1. /\ loop \in [fn : {"none", "set", "get"}, arg : 0 .. UIntMax, i : 0 .. Alloc, offset : Nat]
      /\ tr.packets \in 0 .. Alloc /\ desc \in [0 .. Alloc - 1 -> 0 .. UIntMax]
  BY <1>0 DEF TypeOK
<1>2. /\ loop.fn = "get" /\ loop.i < loop.arg /\ loop.arg < tr.packets
      /\ loop' = [loop EXCEPT !.i = loop.i + 1, !.offset = loop.offset + desc[loop.i]]
      /\ UNCHANGED <<big, setup, tr, desc, found, asked, wanted>>
  BY <1>0, <1>1, Constants DEF AddOneLength, ToInt, Getting
<1>3. loop.i \in 0 .. Alloc - 1 /\ loop.i + 1 \in 0 .. Alloc BY <1>1, <1>2, Constants
<1>4. desc[loop.i] \in Nat BY <1>0, <1>3, DescNat
<1>5. loop' \in [fn : {"none", "set", "get"}, arg : 0 .. UIntMax, i : 0 .. Alloc, offset : Nat]
  <2>1. loop.offset + desc[loop.i] \in Nat BY <1>1, <1>4
  <2>2. QED BY <1>1, <1>2, <1>3, <2>1
<1>6. TypeOK' BY <1>0, <1>2, <1>5 DEF TypeOK
<1>7. SetupIsPortable' /\ DescriptorFits' BY <1>0, <1>2 DEF SetupIsPortable, DescriptorFits
<1>8. Setting' /\ Found' BY <1>1, <1>2 DEF IInv, Setting, Found
<1>9. Getting'
  <2>1. /\ loop'.i = loop.i + 1 /\ loop'.offset = loop.offset + desc[loop.i]
        /\ loop'.arg = loop.arg /\ loop'.fn = "get"
    BY <1>1, <1>2
  <2>2. loop.offset + desc[loop.i] = Begin(desc)[loop.i + 1]
    BY <1>0, <1>2, <1>3, DescNat, BeginDef DEF Getting
  <2>3. QED BY <1>1, <1>2, <2>1, <2>2 DEF Getting
<1>10. QED BY <1>6, <1>7, <1>8, <1>9 DEF IInv

LEMMA GetReturnsStep ==
  ASSUME IInv, GetReturns
  PROVE  IInv'
<1>0. TypeOK /\ SetupIsPortable /\ DescriptorFits /\ Getting BY DEF IInv
<1>1. /\ loop \in [fn : {"none", "set", "get"}, arg : 0 .. UIntMax, i : 0 .. Alloc, offset : Nat]
      /\ tr.packets \in 0 .. Alloc /\ tr.buffer \in {NULL, Buffer}
  BY <1>0 DEF TypeOK
<1>2. /\ loop.fn = "get" /\ loop.i = loop.arg /\ loop.arg < tr.packets
      /\ found' = [packet |-> loop.arg, at |-> tr.buffer + loop.offset] /\ loop' = NoLoop
      /\ UNCHANGED <<big, setup, tr, desc, asked, wanted>>
  BY <1>0, <1>1, Constants DEF GetReturns, ToInt, Getting
<1>3. loop.arg \in Packet BY <1>1, <1>2, Constants DEF Packet
<1>4. TypeOK'
  <2>1. tr.buffer + loop.offset \in Nat BY <1>1, Constants
  <2>2. QED BY <1>0, <1>1, <1>2, <1>3, <2>1, Constants DEF TypeOK, NoLoop
<1>5. SetupIsPortable' /\ DescriptorFits' BY <1>0, <1>2 DEF SetupIsPortable, DescriptorFits
<1>6. Setting' /\ Getting' BY <1>2 DEF Setting, Getting, NoLoop
<1>7. Found' BY <1>0, <1>1, <1>2 DEF Getting, Found
<1>8. QED BY <1>4, <1>5, <1>6, <1>7 DEF IInv

LEMMA AskStep ==
  ASSUME IInv, NEW type \in DOMAIN DescriptorType, NEW number \in UInt8, NEW index \in UInt16,
         NEW n \in Length, Ask(type, number, index, n)
  PROVE  IInv'
<1> DEFINE code == DescriptorType[type]
           length == n % (256 * 256)
<1>1. code \in UInt8 /\ Named(DescriptorType, code) = {type} BY DescriptorTypeNamed
<1>2. n \in 0 .. IntMax BY Constants
<1> HIDE DEF code
<1>3. /\ code * 256 + number \in UInt16 /\ (code * 256 + number) % (256 * 256) = code * 256 + number
      /\ (code * 256 + number) \div 256 = code /\ (code * 256 + number) % 256 = number
  <2>1. code * 256 + number \in UInt16 BY <1>1, Join
  <2>2. ASSUME NEW x \in UInt16 PROVE x % (256 * 256) = x
    BY WordInRange DEF UInt16
  <2>3. (code * 256 + number) % (256 * 256) = code * 256 + number BY <2>1, <2>2
  <2>4. (code * 256 + number) \div 256 = code /\ (code * 256 + number) % 256 = number
    BY <1>1, Join
  <2>5. QED BY <2>1, <2>3, <2>4
<1>4. length \in UInt16 /\ length <= n
  <2>1. n \in Nat BY <1>2, Constants
  <2>2. \A y \in Nat : y % (256 * 256) \in 0 .. 256 * 256 - 1 /\ y % (256 * 256) <= y
    BY SMTT(30)
  <2>3. QED BY <2>1, <2>2 DEF UInt16
<1> HIDE DEF length
<1>5. asked' = [direction |-> 128, request |-> 6, value |-> code * 256 + number,
                index |-> index, length |-> length,
                type |-> type, number |-> number, room |-> n]
  BY <1>3 DEF Ask, RequestLength, EndpointDirection, StandardRequest, length, code
<1>6. asked' \in [direction : UInt8, request : UInt8, value : UInt16, index : UInt16,
                  length : UInt16, type : DOMAIN DescriptorType \cup {"none"},
                  number : UInt8, room : 0 .. IntMax]
  <2>1. 128 \in UInt8 /\ 6 \in UInt8 BY DEF UInt8
  <2>2. QED BY <1>2, <1>3, <1>4, <1>5, <2>1
<1>7. DescriptorFits' BY <1>1, <1>3, <1>4, <1>5 DEF DescriptorFits
<1>8. found' = None /\ UNCHANGED <<big, setup, tr, desc, loop, wanted>> /\ loop = NoLoop
  BY DEF Ask, Idle
<1>9. TypeOK' BY <1>6, <1>8, Constants DEF IInv, TypeOK, None
<1>10. SetupIsPortable' BY <1>8 DEF IInv, SetupIsPortable
<1>11. Setting' /\ Getting' /\ Found' BY <1>8 DEF Setting, Getting, Found, NoLoop, None
<1>12. QED BY <1>7, <1>9, <1>10, <1>11 DEF IInv

-----------------------------------------------------------------------------
(* The theorems.                                                           *)

LEMMA NextStep ==
  ASSUME IInv, [Next]_vars
  PROVE  IInv'
<1>1. CASE \E r \in Request : FillControlSetup(r)
  BY <1>1, FillControlSetupStep
<1>2. CASE \E b \in {NULL, Buffer} : FillControlTransfer(b)
  <2>1. PICK b \in {NULL, Buffer} : FillControlTransfer(b) BY <1>2
  <2>2. (IF b # NULL THEN ControlLength ELSE 0) \in 0 .. IntMax BY LengthMade, Constants
  <2>3. QED BY <2>1, <2>2, FilledStep DEF FillControlTransfer, TransferType
<1>3. CASE \E n \in Length, b \in {NULL, Buffer} :
             FillBulkTransfer(1, b, n) \/ FillBulkStreamTransfer(1, b, n)
               \/ FillInterruptTransfer(1, b, n)
  BY <1>3, FilledStep, Constants
  DEF FillBulkTransfer, FillBulkStreamTransfer, FillInterruptTransfer, TransferType
<1>4. CASE \E n \in Length, k \in 0 .. Alloc : FillIsoTransfer(1, Buffer, n, k)
  BY <1>4, FillIsoTransferStep
<1>5. CASE \E n \in PacketLength : \E p \in 0 .. Alloc - 1 : SetPacket(p, n)
  BY <1>5, SetPacketStep
<1>6. CASE \E n \in PacketLength : SetIsoPacketLengths(n)
  BY <1>6, SetIsoPacketLengthsStep
<1>7. CASE \E t \in DOMAIN DescriptorType, n \in Length : GetDescriptor(t, 0, n)
  <2>1. 0 \in UInt8 /\ 0 \in UInt16 BY DEF UInt8, UInt16
  <2>2. QED BY <1>7, <2>1, AskStep DEF GetDescriptor
<1>8. CASE \E n \in Length : GetStringDescriptor(255, 1033, n)
  <2>1. 255 \in UInt8 /\ 1033 \in UInt16 /\ "STRING" \in DOMAIN DescriptorType
    BY DEF UInt8, UInt16, DescriptorType
  <2>2. QED BY <1>8, <2>1, AskStep DEF GetStringDescriptor
<1>9. CASE SetOneLength BY <1>9, SetOneLengthStep
<1>10. CASE SetReturns BY <1>10, SetReturnsStep
<1>11. CASE \E p \in Packet : GetIsoPacketBuffer(p) BY <1>11, GetIsoPacketBufferStep
<1>12. CASE AddOneLength BY <1>12, AddOneLengthStep
<1>13. CASE GetReturns BY <1>13, GetReturnsStep
<1>14. CASE UNCHANGED vars
  BY <1>14
  DEF vars, IInv, TypeOK, SetupIsPortable, DescriptorFits, Setting, Getting, Found
<1>15. QED
  BY <1>1, <1>2, <1>3, <1>4, <1>5, <1>6, <1>7, <1>8, <1>9, <1>10, <1>11, <1>12, <1>13, <1>14
  DEF Next

\* What a step does to the transfer, and when: only steps of loops happen in a loop.
LEMMA WhichStep ==
  ASSUME Next
  PROVE  \/ (SetOneLength \/ SetReturns \/ AddOneLength \/ GetReturns) /\ UNCHANGED tr
         \/ Idle /\ UNCHANGED tr
         \/ Idle /\ \E b \in {NULL, Buffer} : FillControlTransfer(b)
         \/ Idle /\ \E t \in TransferType \ {"CONTROL"} : \E b, n : Filled(t, 1, b, n)
         \/ Idle /\ tr'.type = "ISOCHRONOUS"
<1>1. CASE \E r \in Request : FillControlSetup(r) BY <1>1 DEF FillControlSetup, Enter
<1>2. CASE \E b \in {NULL, Buffer} : FillControlTransfer(b)
  BY <1>2 DEF FillControlTransfer, Filled, Enter
<1>3. CASE \E n \in Length, b \in {NULL, Buffer} :
             FillBulkTransfer(1, b, n) \/ FillBulkStreamTransfer(1, b, n)
               \/ FillInterruptTransfer(1, b, n)
  <2>1. PICK n, b : Filled("BULK", 1, b, n) \/ Filled("BULK_STREAM", 1, b, n)
                      \/ Filled("INTERRUPT", 1, b, n)
    BY <1>3 DEF FillBulkTransfer, FillBulkStreamTransfer, FillInterruptTransfer
  <2>2. Idle BY <2>1 DEF Filled, Enter
  <2>3. QED BY <2>1, <2>2 DEF TransferType
<1>4. CASE \E n \in Length, k \in 0 .. Alloc : FillIsoTransfer(1, Buffer, n, k)
  BY <1>4 DEF FillIsoTransfer, Enter
<1>5. CASE \E n \in PacketLength : SetIsoPacketLengths(n)
  BY <1>5 DEF SetIsoPacketLengths, Enter
<1>6. CASE \E n \in PacketLength : \E p \in 0 .. Alloc - 1 : SetPacket(p, n)
  BY <1>6 DEF SetPacket, Enter
<1>7. CASE SetOneLength \/ SetReturns \/ AddOneLength \/ GetReturns
  BY <1>7 DEF SetOneLength, SetReturns, AddOneLength, GetReturns
<1>8. CASE \E p \in Packet : GetIsoPacketBuffer(p) BY <1>8 DEF GetIsoPacketBuffer
<1>9. CASE \E t \in DOMAIN DescriptorType, n \in Length : GetDescriptor(t, 0, n)
  BY <1>9 DEF GetDescriptor, Ask
<1>10. CASE \E n \in Length : GetStringDescriptor(255, 1033, n)
  BY <1>10 DEF GetStringDescriptor, Ask
<1>11. QED BY <1>1, <1>2, <1>3, <1>4, <1>5, <1>6, <1>7, <1>8, <1>9, <1>10 DEF Next

LEMMA Invariant == Spec => []IInv
<1>1. Init => IInv BY InitInv
<1>2. IInv /\ [Next]_vars => IInv' BY NextStep
<1>3. QED BY <1>1, <1>2, PTL DEF Spec

\* No loop of libusb.h runs over the packets that libusb_alloc_transfer made room for,
\* and no length of a transfer overflows an int, for programs that give a transfer no
\* more packets than that and no negative length.
THEOREM TypeCorrect == Spec => []TypeOK
<1>1. IInv => TypeOK BY DEF IInv
<1>2. QED BY <1>1, Invariant, PTL

\* Machines of both byte orders lay a request out in the setup packet as USB wants it,
\* every field of it.
THEOREM Portable == Spec => []SetupIsPortable
<1>1. IInv => SetupIsPortable BY DEF IInv
<1>2. QED BY <1>1, Invariant, PTL

\* A request for a descriptor says which, and asks for no more bytes than the buffer has.
THEOREM DescriptorsFit == Spec => []DescriptorFits
<1>1. IInv => DescriptorFits BY DEF IInv
<1>2. QED BY <1>1, Invariant, PTL

\* Where the packets have one length and fit, libusb_get_iso_packet_buffer_simple, a
\* product, returns what the sum of libusb_get_iso_packet_buffer does: it cannot wrap.
THEOREM SimpleIsRight == Spec => []LookupsAgree
<1>1. IInv => LookupsAgree
  <2> SUFFICES ASSUME IInv, UniformFits, found.packet # NoPacket
               PROVE  found.at = Simple(found.packet)
    BY DEF LookupsAgree
  <2> DEFINE k == found.packet
             product == desc[0] * k
  <2>0. TypeOK /\ Found BY DEF IInv
  <2>1. /\ k \in Nat /\ tr.packets \in 0 .. Alloc /\ tr.length \in 0 .. IntMax
        /\ tr.buffer \in Nat
    BY <2>0, Constants DEF TypeOK, Packet, NoPacket
  <2>2. CASE k < tr.packets
    <3>0. 0 \in 0 .. Alloc - 1 BY <2>1, <2>2, Constants
    <3>1. desc[0] \in Nat BY <2>0, <3>0, DescNat
    <3>2. found.at = tr.buffer + k * desc[0]
      <4>1. found.at = tr.buffer + Begin(desc)[k] BY <2>0, <2>2 DEF Found
      <4>2. tr.packets \in 1 .. Alloc /\ k \in 0 .. tr.packets BY <2>1, <2>2, Constants
      <4>3. QED BY <2>0, <4>1, <4>2, DescNat, BeginOfUniform DEF UniformFits
    <3>3. /\ product <= tr.packets * desc[0] /\ tr.packets * desc[0] <= tr.length
          /\ desc[0] <= tr.packets * desc[0]
      <4>1. tr.packets * desc[0] <= tr.length BY <2>1, <2>2 DEF UniformFits
      <4>2. \A a, b, c \in Nat : a <= b => c * a <= b * c OBVIOUS
      <4>3. 1 <= tr.packets BY <2>1, <2>2
      <4>4. desc[0] * 1 = desc[0] BY <3>1
      <4>5. QED BY <2>1, <2>2, <3>1, <4>1, <4>2, <4>3, <4>4
    <3>4. product \in Nat /\ product <= IntMax /\ desc[0] <= IntMax
      BY <2>1, <3>1, <3>3, Constants
    <3>5. product % (UIntMax + 1) = product
      <4>1. product < UIntMax + 1 /\ UIntMax + 1 \in Nat /\ 0 < UIntMax + 1 BY <3>4, Constants
      <4> HIDE DEF product
      <4>2. QED BY <3>4, <4>1, Mod
    <3>6. Exists(k) /\ ToInt(k) = k /\ ToInt(desc[0]) = desc[0]
      BY <2>1, <2>2, <3>1, <3>4, Constants DEF Exists, ToInt
    <3>7. Simple(k) = tr.buffer + ToInt(product % (UIntMax + 1)) BY <3>6 DEF Simple
    <3>8. ToInt(product) = product BY <3>4 DEF ToInt
    <3>9. product = k * desc[0] BY <2>1, <3>1
    <3>10. QED BY <3>2, <3>5, <3>7, <3>8, <3>9
  <2>3. CASE ~(k < tr.packets)
    <3>1. found.at = NULL BY <2>0, <2>3 DEF Found
    <3>2. ~Exists(k) BY <2>1, <2>3 DEF Exists, ToInt
    <3>3. QED BY <3>1, <3>2 DEF Simple
  <2>4. QED BY <2>2, <2>3
<1>2. QED BY <1>1, Invariant, PTL

\* Whatever the lengths of the packets are, libusb_get_iso_packet_buffer finds each behind
\* the ones before it, none reaches over the end of a buffer that has room for all, and
\* what is not there is NULL.
THEOREM PacketsLieInside == Spec => []PacketsInBuffer
<1>1. IInv => PacketsInBuffer
  <2> SUFFICES ASSUME IInv, found.packet # NoPacket
               PROVE  /\ found.packet >= tr.packets => found.at = NULL
                      /\ found.packet < tr.packets /\ Begin(desc)[tr.packets] <= tr.length
                           => /\ found.at >= tr.buffer + Begin(desc)[found.packet]
                              /\ found.at + desc[found.packet] <= tr.buffer + tr.length
    BY DEF PacketsInBuffer
  <2> DEFINE k == found.packet
             b == Begin(desc)
  <2>1. /\ k \in Nat /\ tr.packets \in 0 .. Alloc /\ tr.length \in 0 .. IntMax
        /\ tr.buffer \in Nat
    BY Constants DEF IInv, TypeOK, Packet, NoPacket
  <2>2. desc \in [0 .. Alloc - 1 -> Nat] BY DescNat DEF IInv
  <2>3. b \in [0 .. Alloc -> Nat] BY <2>2, BeginDef
  <2>4. CASE k < tr.packets
    <3>1. k \in 0 .. Alloc - 1 /\ k + 1 \in 0 .. tr.packets BY <2>1, <2>4, Constants
    <3>2. found.at = tr.buffer + b[k] BY <2>4 DEF IInv, Found
    <3>3. b[k + 1] = b[k] + desc[k] BY <2>2, <3>1, BeginDef
    <3>4. b[k + 1] <= b[tr.packets] BY <2>1, <2>2, <3>1, BeginGrows
    <3>5. b[k] \in Nat /\ b[tr.packets] \in Nat /\ desc[k] \in Nat
      BY <2>1, <2>2, <2>3, <3>1, Constants
    <3> HIDE DEF b
    <3>6. ~(k >= tr.packets) BY <2>1, <2>4
    <3>7. b[tr.packets] <= tr.length => tr.buffer + b[k] + desc[k] <= tr.buffer + tr.length
      BY <2>1, <3>3, <3>4, <3>5
    <3>8. found.at >= tr.buffer + b[k] BY <2>1, <3>2, <3>5
    <3>9. QED BY <3>2, <3>6, <3>7, <3>8 DEF b
  <2>5. CASE ~(k < tr.packets) BY <2>5 DEF IInv, Found
  <2>6. QED BY <2>4, <2>5
<1>2. QED BY <1>1, Invariant, PTL

\* The length of a control transfer is made from the bytes of the setup packet, read back
\* in the order of the machine: it is the length of the data plus that of the packet, which
\* get_setup finds where it was filled.
THEOREM LengthIsRight == Spec => LengthMatchesSetup
<1>1. IInv /\ [Next]_vars =>
        [tr' # tr /\ tr'.type = "CONTROL" /\ tr'.buffer # NULL
           => /\ SetupAt' = Buffer
              /\ SetupAt' + tr'.length = DataAt' + wanted.length]_vars
  <2> SUFFICES ASSUME IInv, Next, tr' # tr, tr'.type = "CONTROL", tr'.buffer # NULL
               PROVE  /\ SetupAt' = Buffer
                      /\ SetupAt' + tr'.length = DataAt' + wanted.length
    BY DEF vars
  <2>1. tr \in [type : TransferType, endpoint : {0, 1}, buffer : {NULL, Buffer},
                length : 0 .. IntMax, packets : 0 .. Alloc]
    BY DEF IInv, TypeOK
  <2>2. PICK b \in {NULL, Buffer} : FillControlTransfer(b)
    <3>1. ASSUME NEW t, NEW b, NEW n, Filled(t, 1, b, n) PROVE tr'.type = t
      BY <2>1, <3>1 DEF Filled
    <3>2. QED BY <3>1, WhichStep
  <2>3. tr' = [tr EXCEPT !.type = "CONTROL", !.endpoint = 0, !.buffer = b,
                         !.length = IF b # NULL THEN ControlLength ELSE 0]
    BY <2>2 DEF FillControlTransfer, Filled
  <2>4. b = Buffer /\ b # NULL /\ b \in Nat /\ tr'.buffer = b /\ tr'.length = ControlLength
    BY <2>1, <2>3, Constants
  <2>5. wanted.length \in Nat
    <3>1. wanted \in Requests BY DEF IInv, TypeOK
    <3>2. wanted.length \in UInt16 BY <3>1 DEF Requests
    <3>3. QED BY <3>2, WordInRange DEF UInt16
  <2>6. SetupAt' = b /\ DataAt' = b + SetupSize BY <2>4 DEF SetupAt, DataAt, SetupSize
  <2>7. QED BY <2>4, <2>5, <2>6, LengthMade DEF SetupSize
<1>2. QED BY <1>1, Invariant, PTL DEF Spec, LengthMatchesSetup

\* libusb_set_iso_packet_lengths sets every packet of the transfer.
THEOREM AllAreSet == Spec => AllPacketsSet
<1>1. IInv /\ [Next]_vars =>
        [loop.fn = "set" /\ loop'.fn = "none"
           => \A p \in 0 .. tr.packets - 1 : desc[p] = loop.arg]_vars
  <2> SUFFICES ASSUME IInv, Next, loop.fn = "set", loop'.fn = "none"
               PROVE  \A p \in 0 .. tr.packets - 1 : desc[p] = loop.arg
    BY DEF vars
  <2>1. ~Idle BY DEF Idle, NoLoop
  <2>2. SetOneLength \/ SetReturns BY <2>1, WhichStep DEF AddOneLength, GetReturns
  <2>3. QED BY <2>2, SetOneLengthStep, SetReturnsStep
<1>2. QED BY <1>1, Invariant, PTL DEF Spec, AllPacketsSet
=============================================================================

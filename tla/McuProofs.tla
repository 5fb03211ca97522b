------------------------------ MODULE McuProofs ------------------------------
(***************************************************************************)
(* Proofs about the parts for the microcontroller.  Eeprom, for every size *)
(* and number of sectors, every set of bits and every interrupt routine:   *)
(* MCU_OK means stored, a call changes nothing but what it can hit, what    *)
(* ISP_Reads returns is what is stored, and EA is left as it was found.    *)
(* RtuMaster, for every request for registers and every answer: which are  *)
(* confirmed, and how many registers are copied then.                      *)
(***************************************************************************)
EXTENDS Eeprom, RtuMaster, SequenceTheorems, TLAPS
-----------------------------------------------------------------------------
(* The EEPROM.                                                             *)

Call == [op : Ops \cup {"none"}, at : Addresses, run : Seq(Bytes), ea : BOOLEAN]

\* The types, and with them where each call can be.
Typed ==
  /\ cells \in [Addresses -> Bytes] /\ before \in [Addresses -> Bytes]
  /\ addrh \in {High(a) : a \in Addresses} /\ addrl \in 0..LowSize-1
  /\ data \in Bytes /\ ea \in BOOLEAN
  /\ pc \in {"idle", "high", "data", "command", "result", "loop", "returned", "off"}
  /\ call \in Call
  /\ buf \in Seq(Bytes) /\ Len(buf) <= Len(call.run) + 1
  /\ ret \in {"none", "MCU_OK", "MCU_ERROR"}

Phases ==
  /\ pc \in {"high", "data", "command", "result"} =>
       call.op \in {"Erase", "Read", "Write", "WriteVerify"}
  /\ pc \in {"high", "data"} /\ call.op \in {"Write", "WriteVerify"} => Len(call.run) = 1
  /\ pc = "data" => call.op \in {"Write", "WriteVerify"}
  /\ pc \in {"high", "data", "command", "result", "returned"} => ea = call.ea
  /\ pc = "loop" => /\ ~ea /\ call.op \in {"Writes", "Reads"}
                    /\ InSector(call.at, Len(call.run))
                    /\ Len(buf) <= Len(call.run)
  /\ ret # "none" => pc = "returned"

TypeInv == Typed /\ Phases

\* What the registers for the address can hold while a call for one byte or one
\* sector fills them.
Aimed ==
  /\ pc \in {"high", "data", "command"} => cells = before
  /\ pc = "high" /\ call.op # "Erase" =>
       addrl \in {Low(call.at)} \cup (IF call.ea THEN {Low(i) : i \in IsrReads} ELSE {})
  /\ pc \in {"data", "command"} /\ call.op # "Read" => addr \in MayChange

\* A run of bytes: what has been dealt with is as it should be, and the rest as
\* it was.
Written ==
  pc = "loop" /\ call.op = "Writes" =>
    /\ \A i \in 1..Len(buf) : call.run[i] # Zero => cells[call.at + i - 1] = call.run[i]
    /\ \A a \in Addresses : cells[a] # before[a] => a - call.at + 1 <= Len(buf)

WasRead ==
  pc = "loop" /\ call.op = "Reads" =>
    \A i \in 1..Len(buf) : buf[i] \in {cells[call.at + i - 1], Zero}

Targets == Aimed /\ Written /\ OnlyTarget
Results == WasRead /\ OkMeansStored /\ ReadsBack

IInv == TypeInv /\ Targets /\ Results
-----------------------------------------------------------------------------
(* Addresses.                                                              *)

\* Dividing by the size of a sector.
LEMMA Division ==
  ASSUME NEW s \in Nat \ {0}, NEW a \in Nat
  PROVE  /\ a \div s \in Nat /\ a % s \in 0..s-1
         /\ a = s * (a \div s) + (a % s)
OBVIOUS

LEMMA Quotient ==
  ASSUME NEW s \in Nat \ {0}, NEW q \in Nat, NEW r \in 0..s-1
  PROVE  (s * q + r) \div s = q
OBVIOUS

LEMMA Room ==
  ASSUME NEW s \in Nat \ {0}, NEW p \in Nat, NEW q \in Nat, s * p < s * q
  PROVE  s * p + s <= s * q
<1>1. p + 1 <= q
  OBVIOUS
<1>. QED  BY <1>1

\* The parts of an address, and how many addresses there are.
LEMMA AddressParts ==
  ASSUME NEW a \in Addresses
  PROVE  /\ a \in Nat /\ Offset(a) \in 0..SectorSize-1 /\ a \div SectorSize \in Nat
         /\ a = SectorSize * (a \div SectorSize) + Offset(a)
         /\ SectorSize * (a \div SectorSize) + SectorSize <= SectorSize * Sectors
         /\ SectorSize * Sectors \in Nat \ {0}
<1>1. SectorSize \in Nat \ {0} /\ Sectors \in Nat \ {0} /\ SectorSize * Sectors \in Nat \ {0}
  BY EepromAssumption
<1>2. a \in Nat /\ a < SectorSize * Sectors
  BY <1>1 DEF Addresses
<1>3. /\ a \div SectorSize \in Nat /\ Offset(a) \in 0..SectorSize-1
      /\ a = SectorSize * (a \div SectorSize) + Offset(a)
  BY <1>1, <1>2, Division DEF Offset
<1>4. SectorSize * (a \div SectorSize) < SectorSize * Sectors
  <2>1. SectorSize * (a \div SectorSize) \in Nat
    BY <1>1, <1>3
  <2>. QED  BY <1>1, <1>2, <1>3, <2>1
<1>5. SectorSize * (a \div SectorSize) + SectorSize <= SectorSize * Sectors
  BY <1>1, <1>3, <1>4, Room
<1>. QED  BY <1>1, <1>2, <1>3, <1>5

\* What lies within a sector is an address of that sector.
LEMMA WithinSector ==
  ASSUME NEW a \in Addresses, NEW i \in Nat, Offset(a) + i < SectorSize
  PROVE  a + i \in Addresses /\ a + i \in Sector(a) /\ (a + i) % (SectorSize * Sectors) = a + i
<1> DEFINE q == a \div SectorSize
           o == Offset(a)
<1>1. /\ a \in Nat /\ o \in Nat /\ q \in Nat /\ a = SectorSize * q + o
      /\ SectorSize * q + SectorSize <= SectorSize * Sectors
      /\ SectorSize * Sectors \in Nat \ {0} /\ SectorSize \in Nat \ {0}
  BY AddressParts, EepromAssumption
<1>2. SectorSize * q \in Nat
  BY <1>1
<1>. HIDE DEF q, o
<1>3. a + i \in Nat /\ a + i = SectorSize * q + (o + i) /\ o + i \in 0..SectorSize-1
  BY <1>1, <1>2 DEF o
<1>4. a + i < SectorSize * Sectors
  BY <1>1, <1>2, <1>3
<1>5. a + i \in Addresses
  BY <1>1, <1>3, <1>4 DEF Addresses
<1>6. (a + i) \div SectorSize = q
  BY <1>1, <1>3, Quotient
<1>7. ASSUME NEW m \in Nat \ {0}, NEW r \in 0..m-1 PROVE r % m = r
  OBVIOUS
<1>. QED  BY <1>1, <1>3, <1>4, <1>5, <1>6, <1>7 DEF Sector, q

\* What is put together from the high byte of an address and any low byte is an
\* address of the same sector, and has that high byte.
LEMMA JoinedAddress ==
  ASSUME NEW a \in Addresses, NEW l \in 0..LowSize-1
  PROVE  /\ Joined(High(a), l) \in Addresses /\ Sector(Joined(High(a), l)) = Sector(a)
         /\ High(Joined(High(a), l)) = High(a)
<1> DEFINE L == LowSize
           S == SectorSize
           k == S \div L
           q == a \div S
           o == Offset(a)
           u == o \div L
           r == o % L
           b == Joined(High(a), l)
<1>1. L \in Nat \ {0} /\ S \in Nat \ {0} /\ Sectors \in Nat \ {0} /\ S % L = 0
  BY EepromAssumption
<1>2. /\ a \in Nat /\ o \in 0..S-1 /\ q \in Nat /\ a = S * q + o
      /\ S * q + S <= S * Sectors /\ S * Sectors \in Nat
  BY AddressParts
<1>3. k \in Nat /\ S = L * k
  BY <1>1, Division
<1>4. u \in Nat /\ r \in 0..L-1 /\ o = L * u + r
  <2>1. o \in Nat
    BY <1>1, <1>2
  <2>. HIDE DEF L, o
  <2>. QED  BY <1>1, <2>1, Division DEF u, r
<1>5. l \in 0..L-1
  OBVIOUS
<1>6. High(a) = a \div L /\ b = High(a) * L + l /\ High(b) = b \div L
  BY DEF High, Joined
<1>7. q = a \div S
  OBVIOUS
<1>. HIDE DEF L, S, k, q, o, u, r, b
<1>8. L * u < L * k
  <2>1. L * u \in Nat
    BY <1>1, <1>4
  <2>. QED  BY <1>1, <1>2, <1>3, <1>4, <2>1
<1>9. L * u + L <= S
  BY <1>1, <1>3, <1>4, <1>8, Room
<1>10. S * q = L * (k * q) /\ k * q \in Nat /\ L * (k * q) \in Nat /\ L * u \in Nat
  BY <1>1, <1>2, <1>3, <1>4
<1>11. L * (k * q + u) = L * (k * q) + L * u /\ k * q + u \in Nat
  BY <1>1, <1>4, <1>10
<1>12. a = L * (k * q + u) + r
  BY <1>2, <1>4, <1>10, <1>11
<1>13. High(a) = k * q + u
  BY <1>1, <1>4, <1>6, <1>11, <1>12, Quotient
<1>14. b = L * (k * q + u) + l
  <2>1. (k * q + u) * L = L * (k * q + u)
    BY <1>1, <1>11
  <2>. QED  BY <1>6, <1>13, <2>1
<1>15. High(b) = High(a)
  BY <1>1, <1>5, <1>6, <1>11, <1>13, <1>14, Quotient
<1>16. L * u + l \in 0..S-1 /\ b = S * q + (L * u + l)
  BY <1>1, <1>5, <1>9, <1>10, <1>11, <1>14
<1>17. b \div S = q
  BY <1>1, <1>2, <1>16, Quotient
<1>18. b \in 0..S * Sectors - 1
  <2>1. S * q \in Nat
    BY <1>1, <1>2
  <2>. QED  BY <1>1, <1>2, <1>16, <2>1
<1>. QED  BY <1>7, <1>15, <1>17, <1>18 DEF Addresses, Sector, S, b

\* The registers hold an address; set to one they hold that one.
LEMMA Registers ==
  /\ addrh \in {High(a) : a \in Addresses} /\ addrl \in 0..LowSize-1 => addr \in Addresses
  /\ \A a \in Addresses : /\ High(a) \in {High(b) : b \in Addresses} /\ Low(a) \in 0..LowSize-1
                          /\ Joined(High(a), Low(a)) = a
<1>1. ASSUME NEW a \in Addresses
      PROVE  Low(a) \in 0..LowSize-1 /\ Joined(High(a), Low(a)) = a
  <2>1. a \in Nat /\ LowSize \in Nat \ {0}
    BY AddressParts, EepromAssumption
  <2>2. /\ a \div LowSize \in Nat /\ a % LowSize \in 0..LowSize-1
        /\ a = LowSize * (a \div LowSize) + (a % LowSize)
    BY <2>1, Division
  <2>3. (a \div LowSize) * LowSize = LowSize * (a \div LowSize)
    BY <2>1, <2>2
  <2>. QED  BY <2>2, <2>3 DEF High, Low, Joined
<1>2. ASSUME NEW a \in Addresses, addrh = High(a), addrl \in 0..LowSize-1
      PROVE  addr \in Addresses
  BY <1>2, JoinedAddress DEF addr
<1>. QED  BY <1>1, <1>2

\* An address without its offset is in the same sector.
LEMMA SectorStart ==
  ASSUME NEW a \in Addresses
  PROVE  a - Offset(a) \in Addresses /\ Sector(a - Offset(a)) = Sector(a)
<1> DEFINE q == a \div SectorSize
<1>1. /\ a \in Nat /\ Offset(a) \in 0..SectorSize-1 /\ q \in Nat /\ a = SectorSize * q + Offset(a)
      /\ SectorSize * q + SectorSize <= SectorSize * Sectors
      /\ SectorSize * Sectors \in Nat \ {0} /\ SectorSize \in Nat \ {0}
  BY AddressParts, EepromAssumption
<1>2. SectorSize * q \in Nat
  BY <1>1
<1>3. a - Offset(a) = SectorSize * q + 0
  BY <1>1, <1>2
<1>4. (a - Offset(a)) \div SectorSize = q
  BY <1>1, <1>3, Quotient
<1>5. a - Offset(a) \in Addresses
  BY <1>1, <1>2, <1>3 DEF Addresses
<1>. QED  BY <1>4, <1>5 DEF Sector
-----------------------------------------------------------------------------
(* Types and phases.                                                       *)

LEMMA RunTypes ==
  /\ \A run \in Runs : run \in Seq(Bytes)
  /\ \A n \in 0..MaxRun : /\ [i \in 1..n |-> Zero] \in Seq(Bytes)
                          /\ Len([i \in 1..n |-> Zero]) = n
<1>1. SectorSize \in Nat /\ MaxRun \in Nat
  BY EepromAssumption DEF MaxRun
<1>2. ASSUME NEW n \in Nat, NEW f \in [1..n -> Bytes] PROVE f \in Seq(Bytes) /\ Len(f) = n
  BY SeqDef
<1>3. ASSUME NEW n \in Nat PROVE [i \in 1..n |-> Zero] \in [1..n -> Bytes]
  BY DEF Zero, Bytes
<1>4. \A n \in Nat : /\ [i \in 1..n |-> Zero] \in Seq(Bytes)
                     /\ Len([i \in 1..n |-> Zero]) = n
  BY <1>2, <1>3
<1>5. ASSUME NEW run \in Runs PROVE run \in Seq(Bytes)
  <2>1. CASE run = [i \in 1..MaxRun |-> Zero]
    BY <1>1, <1>4, <2>1
  <2>2. CASE \E n \in 0..SectorSize : run \in [1..n -> Bytes]
    BY <1>1, <1>2, <2>2
  <2>. QED  BY <2>1, <2>2 DEF Runs
<1>. QED  BY <1>1, <1>4, <1>5

LEMMA NoCallTypes == NoCall \in Call /\ NoCall.op = "none" /\ Len(NoCall.run) = 0
<1>1. 0 \in Addresses
  BY EepromAssumption DEF Addresses
<1>. QED  BY <1>1 DEF NoCall, Call

\* The registers after a reset.
LEMMA ResetTypes ==
  /\ 0 \in Addresses /\ Bits \in Bytes
  /\ 0 \in {High(a) : a \in Addresses} /\ 0 \in 0..LowSize-1
<1>1. 0 \in Addresses /\ Bits \in Bytes /\ LowSize \in Nat \ {0}
  BY EepromAssumption DEF Addresses, Bytes
<1>2. High(0) = 0
  BY <1>1 DEF High
<1>. QED  BY <1>1, <1>2

LEMMA InitTypes == Init => TypeInv
<1>1. /\ 0 \in Addresses /\ Bits \in Bytes
      /\ 0 \in {High(a) : a \in Addresses} /\ 0 \in 0..LowSize-1
  BY ResetTypes
<1>2. <<>> \in Seq(Bytes) /\ Len(<<>>) = 0
  BY EmptySeq
<1>3. ASSUME Init PROVE Typed
  <2>1. /\ cells \in [Addresses -> Bytes] /\ before \in [Addresses -> Bytes]
        /\ addrh \in {High(a) : a \in Addresses} /\ addrl \in 0..LowSize-1
        /\ data \in Bytes /\ ea \in BOOLEAN
        /\ pc = "idle" /\ ret = "none" /\ call \in Call
    BY <1>1, <1>3, NoCallTypes DEF Init
  <2>2. buf \in Seq(Bytes) /\ Len(buf) <= Len(call.run) + 1
    BY <1>2, <1>3, NoCallTypes DEF Init
  <2>. QED  BY <2>1, <2>2 DEF Typed
<1>. QED  BY <1>3, NoCallTypes DEF Init, TypeInv, Phases

\* What is common to the beginnings of all calls.
LEMMA BeginTypes ==
  ASSUME TypeInv, NEW op \in Ops, NEW a \in Addresses, NEW run \in Seq(Bytes), Begin(op, a, run)
  PROVE  /\ cells' = cells /\ before' = cells
         /\ call' \in Call /\ call'.op = op /\ call'.at = a /\ call'.run = run /\ call'.ea = ea
         /\ buf' = <<>> /\ buf' \in Seq(Bytes) /\ Len(buf') = 0 /\ Len(run) \in Nat
BY LenProperties DEF Begin, Call, TypeInv, Typed

\* What the chip can leave in a byte is a byte.
LEMMA ChipTypes ==
  ASSUME Typed, NEW a \in Addresses
  PROVE  /\ Erased(a) \in [Addresses -> Bytes]
         /\ \A v \in Bytes : \A w \in Programmed(a, v) :
              w \in Bytes /\ [cells EXCEPT ![a] = w] \in [Addresses -> Bytes]
         /\ \A c \in [Addresses -> Bytes], d \in Bytes : ReadOf(c, a, d) \subseteq Bytes
BY DEF Typed, Erased, Programmed, ReadOf, Bytes

LEMMA BytesOfRun ==
  ASSUME TypeInv, pc = "loop", Len(buf) < Len(call.run)
  PROVE  /\ Len(call.run) \in Nat /\ Len(buf) \in Nat
         /\ Here = call.at + Len(buf) /\ Here \in Addresses /\ Here \in Sector(call.at)
         /\ Wanted \in Bytes
<1>1. /\ call.at \in Addresses /\ call.run \in Seq(Bytes) /\ buf \in Seq(Bytes)
      /\ InSector(call.at, Len(call.run))
  BY DEF TypeInv, Typed, Phases, Call
<1>2. Len(call.run) \in Nat /\ Len(buf) \in Nat
  BY <1>1, LenProperties
<1>3. Offset(call.at) \in Nat /\ SectorSize \in Nat
  BY <1>1, AddressParts, EepromAssumption
<1>4. Offset(call.at) + Len(buf) < SectorSize
  BY <1>1, <1>2, <1>3 DEF InSector
<1>5. Wanted \in Bytes
  BY <1>1, <1>2, ElementOfSeq DEF Wanted
<1>. QED  BY <1>1, <1>2, <1>4, <1>5, WithinSector DEF Here

\* The next byte of a run is put behind the others.
LEMMA NextByte ==
  ASSUME TypeInv, pc = "loop", Len(buf) < Len(call.run), NEW d \in Bytes, buf' = Append(buf, d)
  PROVE  /\ buf' \in Seq(Bytes) /\ Len(buf') = Len(buf) + 1 /\ Len(buf') <= Len(call.run)
         /\ \A i \in 1..Len(buf) : buf'[i] = buf[i]
         /\ buf'[Len(buf) + 1] = d
<1>1. buf \in Seq(Bytes) /\ Len(buf) \in Nat /\ Len(call.run) \in Nat
  BY BytesOfRun DEF TypeInv, Typed
<1>. QED  BY <1>1, AppendProperties

\* The calls for one byte or one sector.
LEMMA CallTypes ==
  ASSUME TypeInv, NEW a \in Addresses,
         ISP_Erase(a) \/ ISP_Read(a) \/ \E v \in Bytes : ISP_Write(a, v) \/ ISP_WriteVerify(a, v)
  PROVE  TypeInv'
<1> USE DEF Ops
<1>1. <<>> \in Seq(Bytes)
  BY EmptySeq
<1>2. ASSUME NEW op \in {"Erase", "Read", "Write", "WriteVerify"}, NEW run \in Seq(Bytes),
             op \in {"Write", "WriteVerify"} => Len(run) = 1,
             NEW l \in 0..LowSize-1, Begin(op, a, run), FillLow(l)
      PROVE  TypeInv'
  <2>1. /\ cells' = cells /\ before' = cells /\ call' \in Call /\ call'.op = op
        /\ call'.run = run /\ call'.ea = ea
        /\ buf' \in Seq(Bytes) /\ Len(buf') = 0 /\ Len(run) \in Nat
    BY <1>2, BeginTypes
  <2>2. addrl' = l /\ pc' = "high" /\ ret' = "none" /\ UNCHANGED <<addrh, data, ea>>
    BY <1>2 DEF FillLow
  <2>3. Typed'
    BY <2>1, <2>2 DEF TypeInv, Typed
  <2>. QED  BY <1>2, <2>1, <2>2, <2>3 DEF TypeInv, Phases
<1>3. 0 \in 0..LowSize-1 /\ Low(a) \in 0..LowSize-1
  BY ResetTypes, Registers
<1>4. CASE ISP_Erase(a)
  BY <1>1, <1>2, <1>3, <1>4 DEF ISP_Erase
<1>5. CASE ISP_Read(a)
  BY <1>1, <1>2, <1>3, <1>5 DEF ISP_Read
<1>6. ASSUME NEW v \in Bytes, ISP_Write(a, v) \/ ISP_WriteVerify(a, v) PROVE TypeInv'
  <2>1. <<v>> \in Seq(Bytes) /\ Len(<<v>>) = 1
    OBVIOUS
  <2>. QED  BY <1>2, <1>3, <1>6, <2>1 DEF ISP_Write, ISP_WriteVerify
<1>. QED  BY <1>4, <1>5, <1>6

\* Filling the registers goes on.
LEMMA TargetAddress == ASSUME TypeInv PROVE Target \in Addresses
BY SectorStart DEF TypeInv, Typed, Call, Target

LEMMA FillTypes == ASSUME TypeInv, FillHigh \/ FillData PROVE TypeInv'
<1>1. CASE FillHigh
  <2>1. addrh' \in {High(a) : a \in Addresses}
    BY <1>1, TargetAddress, Registers DEF FillHigh
  <2>2. /\ pc = "high" /\ UNCHANGED <<cells, addrl, data, ea, call, buf, ret, before>>
        /\ pc' = IF call.op \in {"Write", "WriteVerify"} THEN "data" ELSE "command"
    BY <1>1 DEF FillHigh
  <2>3. Typed'
    BY <2>1, <2>2 DEF TypeInv, Typed
  <2>. QED  BY <2>2, <2>3 DEF TypeInv, Phases
<1>2. CASE FillData
  <2>1. /\ pc = "data" /\ pc' = "command" /\ data' = call.run[1]
        /\ UNCHANGED <<cells, addrh, addrl, ea, call, buf, ret, before>>
    BY <1>2 DEF FillData
  <2>2. call.run \in Seq(Bytes) /\ Len(call.run) = 1
    BY <2>1 DEF TypeInv, Typed, Phases, Call
  <2>3. data' \in Bytes
    BY <2>1, <2>2, ElementOfSeq
  <2>4. Typed'
    BY <2>1, <2>3 DEF TypeInv, Typed
  <2>. QED  BY <2>1, <2>4 DEF TypeInv, Phases
<1>. QED  BY <1>1, <1>2

\* The calls for a run of bytes.
LEMMA RunCallTypes ==
  ASSUME TypeInv, NEW a \in Addresses,
         \/ \E run \in Runs : ISP_Writes(a, run)
         \/ \E n \in 0..MaxRun : ISP_Reads(a, n)
  PROVE  TypeInv'
<1>1. ASSUME NEW op \in {"Writes", "Reads"}, NEW run \in Seq(Bytes), Begin(op, a, run),
             EnterRun(a, Len(run))
      PROVE  TypeInv'
  <2>1. /\ cells' = cells /\ before' = cells /\ call' \in Call /\ call'.op = op /\ call'.at = a
        /\ call'.run = run /\ call'.ea = ea
        /\ buf' \in Seq(Bytes) /\ Len(buf') = 0 /\ Len(run) \in Nat
    BY <1>1, BeginTypes DEF Ops
  <2>2. /\ addrh' = addrh /\ addrl' = addrl /\ data' = data
        /\ \/ InSector(a, Len(run)) /\ pc' = "loop" /\ ret' = "none" /\ ea' = FALSE
           \/ pc' = "returned" /\ ret' = "MCU_ERROR" /\ ea' = ea
    BY <1>1 DEF EnterRun, registers
  <2>3. /\ ea' \in BOOLEAN /\ pc' \in {"loop", "returned"} /\ ret' \in {"none", "MCU_ERROR"}
        /\ addrh' \in {High(b) : b \in Addresses} /\ addrl' \in 0..LowSize-1 /\ data' \in Bytes
    BY <2>2 DEF TypeInv, Typed
  <2>4. cells' \in [Addresses -> Bytes] /\ before' \in [Addresses -> Bytes]
    BY <2>1 DEF TypeInv, Typed
  <2>5. Len(buf') <= Len(call'.run) + 1
    BY <2>1
  <2>6. Typed'
    BY <2>1, <2>3, <2>4, <2>5 DEF Typed
  <2>7. Phases'
    BY <2>1, <2>2 DEF Phases, InSector, Offset
  <2>. QED  BY <2>6, <2>7 DEF TypeInv
<1>2. ASSUME NEW run \in Runs, ISP_Writes(a, run) PROVE TypeInv'
  BY <1>1, <1>2, RunTypes DEF ISP_Writes
<1>3. ASSUME NEW n \in 0..MaxRun, ISP_Reads(a, n) PROVE TypeInv'
  BY <1>1, <1>3, RunTypes DEF ISP_Reads
<1>. QED  BY <1>2, <1>3

LEMMA CommandTypes == ASSUME TypeInv, Command PROVE TypeInv'
<1>1. /\ pc = "command" /\ UNCHANGED <<addrh, addrl, ea, call, buf, ret, before>>
      /\ data \in Bytes /\ cells \in [Addresses -> Bytes]
      /\ pc' = IF call.op \in {"Read", "WriteVerify"} THEN "result" ELSE "returned"
  BY DEF Command, TypeInv, Typed
<1>2. cells' \in [Addresses -> Bytes] /\ data' \in Bytes
  <2>1. Zero \in Bytes
    BY DEF Zero, Bytes
  <2>2. addr \in Addresses
    BY Registers DEF TypeInv, Typed
  <2>. HIDE DEF addr
  <2>. QED  BY <1>1, <2>1, <2>2, ChipTypes DEF Command, TypeInv
<1>3. Typed'
  BY <1>1, <1>2 DEF TypeInv, Typed
<1>4. Phases'
  BY <1>1 DEF TypeInv, Phases
<1>. QED  BY <1>3, <1>4 DEF TypeInv

LEMMA ResultTypes == ASSUME TypeInv, Result PROVE TypeInv'
<1>1. buf' = <<data>> /\ data \in Bytes /\ call.run \in Seq(Bytes)
  BY DEF Result, TypeInv, Typed, Call
<1>2. buf' \in Seq(Bytes) /\ Len(buf') = 1 /\ Len(call.run) \in Nat
  BY <1>1, LenProperties
<1>3. /\ UNCHANGED <<cells, addrh, addrl, data, ea, call, before>> /\ pc' = "returned"
      /\ ret' \in {"MCU_OK", "MCU_ERROR"}
  BY DEF Result, registers
<1>4. Len(buf') <= Len(call'.run) + 1
  BY <1>2, <1>3
<1>5. Typed'
  BY <1>2, <1>3, <1>4 DEF TypeInv, Typed
<1>6. Phases'
  BY DEF Result, registers, TypeInv, Phases
<1>. QED  BY <1>5, <1>6 DEF TypeInv

LEMMA LoopTypes == ASSUME TypeInv, Loop PROVE TypeInv'
<1>1. /\ pc = "loop" /\ call' = call /\ before' = before /\ call.ea \in BOOLEAN
      /\ cells \in [Addresses -> Bytes]
      /\ call.op \in {"Writes", "Reads"} /\ InSector(call.at, Len(call.run)) /\ ~ea /\ ret = "none"
  BY DEF Loop, TypeInv, Typed, Phases, Call
<1>2. Zero \in Bytes
  BY DEF Zero, Bytes
<1>3. CASE WriteByte \/ ReadByte
  <2>1. /\ Len(buf) < Len(call.run) /\ addrh' = High(Here) /\ addrl' = Low(Here) /\ buf' = Append(buf, data')
        /\ \/ UNCHANGED <<pc, ret, ea>>
           \/ pc' = "returned" /\ ret' = "MCU_ERROR" /\ ea' = call.ea
    BY <1>3 DEF WriteByte, ReadByte, SetAddr, Leave
  <2>2. Here \in Addresses /\ Wanted \in Bytes
    BY <1>1, <2>1, BytesOfRun
  <2>3. cells' \in [Addresses -> Bytes]
    BY <1>1, <1>3, <2>2, ChipTypes DEF WriteByte, ReadByte, TypeInv
  <2>4. data' \in Bytes
    BY <1>1, <1>2, <1>3, <2>2, <2>3, ChipTypes DEF WriteByte, ReadByte, TypeInv, Cleared
  <2>5. buf' \in Seq(Bytes) /\ Len(buf') <= Len(call.run) /\ Len(call.run) \in Nat /\ Len(buf') \in Nat
    BY <1>1, <2>1, <2>4, NextByte, BytesOfRun
  <2>6. addrh' \in {High(a) : a \in Addresses} /\ addrl' \in 0..LowSize-1
    BY <2>1, <2>2, Registers
  <2>7. Typed'
    BY <1>1, <2>1, <2>3, <2>4, <2>5, <2>6 DEF TypeInv, Typed
  <2>8. Phases'
    BY <1>1, <2>1, <2>5 DEF Phases, InSector, Offset
  <2>. QED  BY <2>7, <2>8 DEF TypeInv
<1>4. CASE LeaveRun
  <2>1. /\ UNCHANGED <<cells, addrh, addrl, data, buf>>
        /\ pc' = "returned" /\ ret' = "MCU_OK" /\ ea' = call.ea
    BY <1>4 DEF LeaveRun, Leave, registers
  <2>. QED  BY <1>1, <2>1 DEF TypeInv, Typed, Phases
<1>. QED  BY <1>3, <1>4 DEF Loop

LEMMA InterruptTypes == ASSUME TypeInv, Interrupt PROVE TypeInv'
<1>1. PICK a \in IsrReads : SetAddr(a) /\ data' \in ReadOf(cells, a, data)
  BY DEF Interrupt
<1>2. addrh' \in {High(b) : b \in Addresses} /\ addrl' \in 0..LowSize-1 /\ data' \in Bytes
  BY <1>1, ChipTypes, Registers, EepromAssumption DEF TypeInv, Typed, SetAddr
<1>3. UNCHANGED <<cells, ea, pc, call, buf, ret, before>>
  BY DEF Interrupt
<1>. QED  BY <1>2, <1>3 DEF TypeInv, Typed, Phases, InSector, Offset

LEMMA ProceedTypes == ASSUME TypeInv, Proceed PROVE TypeInv'
<1>1. buf' \in Seq(Bytes) /\ Len(buf') = 0 /\ call' \in Call /\ Len(call'.run) = 0
  BY EmptySeq, NoCallTypes DEF Proceed
<1>2. Typed'
  BY <1>1 DEF Proceed, registers, TypeInv, Typed
<1>. QED  BY <1>2 DEF Proceed, TypeInv, Phases

LEMMA PowerTypes == ASSUME TypeInv, PowerFails PROVE TypeInv'
<1>1. cells' \in [Addresses -> Bytes]
  <2>1. ASSUME NEW b \in Addresses, NEW w \in Bytes, cells' = [cells EXCEPT ![b] = w]
        PROVE  cells' \in [Addresses -> Bytes]
    BY <2>1 DEF TypeInv, Typed
  <2>2. CASE UNCHANGED cells
    BY <2>2 DEF TypeInv, Typed
  <2>3. addr \in Addresses
    BY Registers DEF TypeInv, Typed
  <2>. HIDE DEF addr
  <2>4. ASSUME NEW w \in Programmed(addr, data), cells' = [cells EXCEPT ![addr] = w]
        PROVE  cells' \in [Addresses -> Bytes]
    BY <2>1, <2>3, <2>4 DEF Programmed
  <2>5. ASSUME pc = "loop", Len(buf) < Len(call.run),
               NEW w \in Programmed(Here, Wanted), cells' = [cells EXCEPT ![Here] = w]
        PROVE  cells' \in [Addresses -> Bytes]
    BY <2>1, <2>5, BytesOfRun DEF Programmed
  <2>. QED  BY <2>2, <2>4, <2>5 DEF PowerFails, Torn
<1>2. addrh' \in {High(a) : a \in Addresses} /\ addrl' \in 0..LowSize-1 /\ data' \in Bytes
  BY ResetTypes DEF PowerFails
<1>3. Typed'
  BY <1>1, <1>2 DEF PowerFails, TypeInv, Typed
<1>. QED  BY <1>3 DEF PowerFails, TypeInv, Phases

LEMMA TypeStep == TypeInv /\ [Next]_vars => TypeInv'
<1>1. CASE UNCHANGED vars
  BY <1>1 DEF vars, registers, TypeInv, Typed, Phases, InSector, Offset
<1>. QED
  BY <1>1, CallTypes, FillTypes, RunCallTypes, CommandTypes, ResultTypes, LoopTypes,
     InterruptTypes, ProceedTypes, PowerTypes DEF Next

LEMMA TypeInvariant == Spec => []TypeInv
BY InitTypes, TypeStep, PTL DEF Spec

\* Everything has its type, ISP_Writes and ISP_Reads work with EA cleared, and every
\* call leaves EA as it found it (MCU/RAM/EEPROM.c:32, 194).
THEOREM TypeCorrect == Spec => []TypeOK
<1>1. TypeInv => TypeOK
  BY Registers DEF TypeInv, Typed, Phases, TypeOK, Call
<1>. QED  BY <1>1, TypeInvariant, PTL
-----------------------------------------------------------------------------
(* What a call changes, and what is stored when it says so.                *)

\* A call that begins has changed and read nothing.
LEMMA BeginTargets ==
  ASSUME TypeInv, NEW op \in Ops, NEW a \in Addresses, NEW run \in Seq(Bytes), Begin(op, a, run),
         \/ FillLow(IF op = "Erase" THEN 0 ELSE Low(a))
         \/ EnterRun(a, Len(run))
  PROVE  Targets' /\ Results'
<1>1. /\ cells' = cells /\ before' = cells /\ call'.op = op /\ call'.at = a
      /\ Len(buf') = 0 /\ 1..Len(buf') = {}
  BY BeginTypes
<1>2. ret' # "MCU_OK" /\ pc' \notin {"data", "command"}
  BY DEF EnterRun, FillLow
<1>3. pc' = "high" /\ op # "Erase" => addrl' = Low(a)
  BY DEF EnterRun, FillLow
<1>4. Aimed'
  BY <1>1, <1>2, <1>3 DEF Aimed
<1>5. Written' /\ OnlyTarget' /\ WasRead'
  BY <1>1 DEF Written, OnlyTarget, WasRead
<1>. QED  BY <1>2, <1>4, <1>5 DEF Targets, Results, OkMeansStored, ReadsBack

LEMMA CallTargets ==
  ASSUME TypeInv, NEW a \in Addresses,
         \/ ISP_Erase(a) \/ ISP_Read(a)
         \/ \E v \in Bytes : ISP_Write(a, v) \/ ISP_WriteVerify(a, v)
         \/ \E run \in Runs : ISP_Writes(a, run)
         \/ \E n \in 0..MaxRun : ISP_Reads(a, n)
  PROVE  Targets' /\ Results'
<1>1. <<>> \in Seq(Bytes) /\ \A v \in Bytes : <<v>> \in Seq(Bytes)
  BY EmptySeq
<1>2. CASE ISP_Erase(a) \/ ISP_Read(a)
  BY <1>1, <1>2, BeginTargets DEF ISP_Erase, ISP_Read, Ops
<1>3. ASSUME NEW v \in Bytes, ISP_Write(a, v) \/ ISP_WriteVerify(a, v) PROVE Targets' /\ Results'
  BY <1>1, <1>3, BeginTargets DEF ISP_Write, ISP_WriteVerify, Ops
<1>4. ASSUME NEW run \in Runs, ISP_Writes(a, run) PROVE Targets' /\ Results'
  BY <1>4, RunTypes, BeginTargets DEF ISP_Writes, Ops
<1>5. ASSUME NEW n \in 0..MaxRun, ISP_Reads(a, n) PROVE Targets' /\ Results'
  BY <1>5, RunTypes, BeginTargets DEF ISP_Reads, Ops
<1>. QED  BY <1>2, <1>3, <1>4, <1>5

\* The high byte goes under whichever low byte is there.
LEMMA FillHighTargets == ASSUME TypeInv, Targets, FillHigh PROVE Targets' /\ Results'
<1>1. /\ pc = "high" /\ pc' \in {"data", "command"} /\ addrh' = High(Target) /\ cells = before
      /\ UNCHANGED <<cells, addrl, data, ea, call, buf, ret, before>>
      /\ call.at \in Addresses /\ ret = "none"
      /\ call.op \in {"Erase", "Read", "Write", "WriteVerify"} /\ addrl \in 0..LowSize-1
  BY DEF FillHigh, Targets, Aimed, TypeInv, Typed, Phases, Call
<1>2. MayChange' = MayChange
  BY <1>1 DEF MayChange, Hit
<1>3. addr' = Joined(High(Target), addrl)
  BY <1>1 DEF addr
<1>4. CASE call.op = "Erase"
  <2>1. Target \in Addresses /\ Sector(Target) = Sector(call.at)
    BY <1>1, <1>4, SectorStart DEF Target
  <2>2. addr' \in Addresses /\ Sector(addr') = Sector(call.at)
    BY <1>1, <1>3, <2>1, JoinedAddress
  <2>3. addr' \in Sector(call.at)
    BY <2>2 DEF Sector
  <2>4. addr' \in MayChange
    BY <1>4, <2>3 DEF MayChange
  <2>. QED
    BY <1>1, <1>2, <1>4, <2>4
    DEF Targets, Results, Aimed, Written, OnlyTarget, WasRead, OkMeansStored, ReadsBack
<1>5. CASE call.op \in {"Write", "WriteVerify"}
  <2>1. addrl \in {Low(call.at)} \cup (IF call.ea THEN {Low(i) : i \in IsrReads} ELSE {})
    BY <1>1, <1>5 DEF Targets, Aimed
  <2>2. Target = call.at /\ Joined(High(call.at), Low(call.at)) = call.at
    BY <1>1, <1>5, Registers DEF Target
  <2>3. addr' \in Hit(call.at)
    BY <1>3, <2>1, <2>2 DEF Hit
  <2>4. addr' \in MayChange
    BY <1>5, <2>3 DEF MayChange
  <2>. QED
    BY <1>1, <1>2, <1>5, <2>4
    DEF Targets, Results, Aimed, Written, OnlyTarget, WasRead, OkMeansStored, ReadsBack
<1>6. CASE call.op = "Read"
  BY <1>1, <1>2, <1>6
  DEF Targets, Results, Aimed, Written, OnlyTarget, WasRead, OkMeansStored, ReadsBack
<1>. QED  BY <1>1, <1>4, <1>5, <1>6

LEMMA FillDataTargets == ASSUME TypeInv, Targets, FillData PROVE Targets' /\ Results'
<1>1. /\ pc = "data" /\ pc' = "command" /\ ret = "none"
      /\ UNCHANGED <<cells, addrh, addrl, ea, call, buf, ret, before>>
  BY DEF FillData, TypeInv, Phases
<1>2. MayChange' = MayChange /\ addr' = addr
  BY <1>1 DEF MayChange, Hit, addr
<1>. QED
  BY <1>1, <1>2
  DEF Targets, Results, Aimed, Written, OnlyTarget, WasRead, OkMeansStored, ReadsBack

\* What two addresses of one sector have in common.
LEMMA SameSector ==
  ASSUME NEW a \in Addresses, NEW b \in Sector(a)
  PROVE  Sector(b) = Sector(a)
BY DEF Sector

\* The command of a call for one byte or one sector, also when it is cut short,
\* hits where the registers for the address were sent.
LEMMA Hits ==
  ASSUME TypeInv, Aimed, pc = "command", NEW b \in Addresses,
         call.op = "Erase" => b \in Sector(addr),
         call.op \in {"Write", "WriteVerify"} => b = addr,
         call.op \in {"Erase", "Write", "WriteVerify"}
  PROVE  b \in MayChange
<1>1. addr \in MayChange /\ call.at \in Addresses
  BY DEF TypeInv, Typed, Call, Aimed
<1>. HIDE DEF addr
<1>2. CASE call.op = "Erase"
  <2>1. PICK a \in {call.at} \cup (IF call.ea THEN IsrReads ELSE {}) : addr \in Sector(a)
    BY <1>1, <1>2 DEF MayChange
  <2>2. a \in Addresses
    BY <1>1, EepromAssumption
  <2>3. b \in Sector(a)
    BY <1>2, <2>1, <2>2, SameSector
  <2>. QED  BY <1>2, <2>1, <2>3 DEF MayChange
<1>3. CASE call.op \in {"Write", "WriteVerify"}
  BY <1>1, <1>3
<1>. QED  BY <1>2, <1>3

\* The byte of a run that is next is one the call may change, and as it was.
LEMMA HitsNext ==
  ASSUME TypeInv, Targets, pc = "loop", call.op = "Writes", Len(buf) < Len(call.run)
  PROVE  /\ Here \in MayChange /\ cells[Here] = before[Here]
         /\ Here - call.at + 1 = Len(buf) + 1
<1>1. /\ Len(call.run) \in Nat /\ Len(buf) \in Nat /\ call.at \in Nat
      /\ Here = call.at + Len(buf) /\ Here \in Addresses /\ Here \in Sector(call.at)
  <2>1. call.at \in Addresses
    BY DEF TypeInv, Typed, Call
  <2>. QED  BY <2>1, BytesOfRun, AddressParts
<1>2. Len(buf) \in 0..Len(call.run) - 1
  BY <1>1
<1>3. Here \in MayChange
  BY <1>1, <1>2 DEF MayChange
<1>4. Here - call.at + 1 = Len(buf) + 1
  BY <1>1
<1>5. ~(Here - call.at + 1 <= Len(buf))
  BY <1>1, <1>4
<1>. QED  BY <1>1, <1>3, <1>4, <1>5 DEF Targets, Written

LEMMA CommandTargets == ASSUME TypeInv, Targets, Command PROVE Targets' /\ Results'
<1>1. /\ pc = "command" /\ pc' \in {"result", "returned"} /\ cells = before
      /\ UNCHANGED <<addrh, addrl, call, buf, ret, before>> /\ addr \in Addresses
      /\ cells \in [Addresses -> Bytes]
      /\ call.op \in {"Erase", "Read", "Write", "WriteVerify"} /\ ret = "none"
  BY Registers DEF Command, Targets, Aimed, TypeInv, Typed, Phases
<1>2. MayChange' = MayChange
  BY <1>1 DEF MayChange, Hit
<1>3. ASSUME NEW b \in Addresses, cells'[b] # cells[b] PROVE b \in MayChange
  <2>1. CASE call.op = "Erase"
    <3>1. b \in Sector(addr)
      BY <1>1, <1>3, <2>1 DEF Command, Erased
    <3>. QED  BY <1>1, <2>1, <3>1, Hits DEF Targets
  <2>2. CASE call.op \in {"Write", "WriteVerify"}
    <3>1. b = addr
      BY <1>1, <1>3, <2>2 DEF Command
    <3>. QED  BY <1>1, <2>2, <3>1, Hits DEF Targets
  <2>3. CASE call.op = "Read"
    BY <1>3, <2>3 DEF Command
  <2>. QED  BY <1>1, <2>1, <2>2, <2>3
<1>4. OnlyTarget'
  BY <1>1, <1>2, <1>3 DEF OnlyTarget
<1>. QED  BY <1>1, <1>4 DEF Targets, Results, Aimed, Written, WasRead, OkMeansStored, ReadsBack

LEMMA ResultTargets == ASSUME TypeInv, Targets, Result PROVE Targets' /\ Results'
<1>1. /\ pc' = "returned" /\ UNCHANGED <<cells, call, before>>
      /\ call.op \notin {"Writes", "Reads"}
  BY DEF Result, TypeInv, Phases
<1>2. MayChange' = MayChange
  BY <1>1 DEF MayChange, Hit
<1>3. OnlyTarget'
  BY <1>1, <1>2 DEF OnlyTarget, Targets
<1>. QED  BY <1>1, <1>3 DEF Targets, Results, Aimed, Written, WasRead, OkMeansStored, ReadsBack

LEMMA WriteTargets == ASSUME TypeInv, Targets, Loop, WriteByte PROVE Targets' /\ Results'
<1>1. /\ pc = "loop" /\ call.op = "Writes" /\ UNCHANGED <<call, before>>
      /\ Len(buf) < Len(call.run) /\ Len(buf) \in Nat /\ Len(call.run) \in Nat
      /\ cells \in [Addresses -> Bytes] /\ ret = "none"
      /\ call.at \in Nat /\ InSector(call.at, Len(call.run))
  <2>1. call.at \in Addresses
    BY DEF TypeInv, Typed, Call
  <2>. QED  BY <2>1, AddressParts, BytesOfRun DEF WriteByte, Loop, TypeInv, Typed, Phases
<1>2. PICK w \in Programmed(Here, Wanted) : cells' = [cells EXCEPT ![Here] = w]
  BY DEF WriteByte
<1>3. /\ Here \in Addresses /\ Here = call.at + Len(buf) /\ Here \in MayChange
      /\ Here - call.at + 1 = Len(buf) + 1 /\ cells[Here] = before[Here]
  BY <1>1, BytesOfRun, HitsNext
<1>4. /\ cells'[Here] = w
      /\ \A b \in Addresses : b # Here => cells'[b] = cells[b]
      /\ before[Here] \cap Wanted \subseteq w /\ w \subseteq before[Here]
  BY <1>1, <1>2, <1>3 DEF Programmed
<1>5. /\ Len(buf') = Len(buf) + 1 /\ data' \in {cells'[Here], Zero}
      /\ pc' = "loop" => data' = Wanted
      /\ pc' \in {"loop", "returned"} /\ ret' \in {"none", "MCU_ERROR"}
  <2>1. buf' = Append(buf, data') /\ data' \in {cells'[Here], Zero}
    BY DEF WriteByte, ReadOf, Cleared
  <2>2. data' \in Bytes
    BY TypeStep DEF TypeInv, Typed, Next
  <2>. QED  BY <1>1, <2>1, <2>2, NextByte DEF WriteByte, Leave
<1>6. MayChange' = MayChange
  BY <1>1 DEF MayChange, Hit
<1>7. ASSUME NEW b \in Addresses, cells'[b] # before'[b]
      PROVE  /\ b \in MayChange'
             /\ b - call'.at + 1 <= Len(buf')
             /\ before'[b] \cap call'.run[b - call'.at + 1] \subseteq cells'[b]
             /\ cells'[b] \subseteq before'[b]
  <2>1. CASE b = Here
    <3>1. Wanted = call.run[b - call.at + 1]
      BY <1>3, <2>1 DEF Wanted
    <3>2. b - call.at + 1 <= Len(buf')
      BY <1>1, <1>3, <1>5, <2>1
    <3>. QED  BY <1>1, <1>3, <1>4, <1>6, <2>1, <3>1, <3>2
  <2>2. CASE b # Here
    <3>1. cells'[b] = cells[b] /\ cells[b] # before[b]
      BY <1>1, <1>4, <1>7, <2>2
    <3>2. b - call.at + 1 <= Len(buf)
      BY <1>1, <3>1 DEF Targets, Written
    <3>3. b - call.at + 1 <= Len(buf')
      <4>1. b \in Int
        BY AddressParts
      <4>. QED  BY <1>1, <1>5, <3>2, <4>1
    <3>4. /\ b \in MayChange
          /\ before[b] \cap call.run[b - call.at + 1] \subseteq cells[b]
          /\ cells[b] \subseteq before[b]
      BY <1>1, <3>1 DEF Targets, OnlyTarget
    <3>. QED  BY <1>1, <1>6, <3>1, <3>3, <3>4
  <2>. QED  BY <2>1, <2>2
<1>8. OnlyTarget'
  <2>1. ASSUME NEW b \in Addresses, b - call'.at + 1 <= Len(buf')
        PROVE  b - call'.at + 1 <= Len(buf') + 1
    <3>1. b \in Int
      BY AddressParts
    <3>. QED  BY <1>1, <1>5, <2>1, <3>1
  <2>. QED  BY <1>7, <2>1 DEF OnlyTarget
<1>9. ASSUME pc' = "loop", NEW i \in 1..Len(buf'), call'.run[i] # Zero
      PROVE  cells'[call'.at + i - 1] = call'.run[i]
  <2>1. CASE i = Len(buf) + 1
    <3>1. call.at + i - 1 = Here /\ call.run[i] = Wanted
      BY <1>1, <1>3, <2>1 DEF Wanted
    <3>. QED  BY <1>1, <1>5, <1>9, <3>1
  <2>2. CASE i \in 1..Len(buf)
    <3>1. call.at + i - 1 # Here /\ call.at + i - 1 = call.at + (i - 1) /\ i - 1 \in Nat
      BY <1>1, <1>3, <2>2
    <3>2. Offset(call.at) + (i - 1) < SectorSize
      <4>1. Offset(call.at) \in Nat /\ SectorSize \in Nat
        BY AddressParts, EepromAssumption DEF TypeInv, Typed, Call
      <4>. QED  BY <1>1, <2>2, <4>1 DEF InSector
    <3>3. call.at + i - 1 \in Addresses
      BY <3>1, <3>2, WithinSector DEF TypeInv, Typed, Call
    <3>4. cells[call.at + i - 1] = call.run[i]
      BY <1>1, <1>9, <2>2 DEF Targets, Written
    <3>. QED  BY <1>1, <1>4, <3>1, <3>3, <3>4
  <2>. QED  BY <1>1, <1>5, <2>1, <2>2
<1>10. Written'
  BY <1>7, <1>9 DEF Written
<1>. QED
  BY <1>1, <1>5, <1>8, <1>10 DEF Targets, Results, Aimed, WasRead, OkMeansStored, ReadsBack

LEMMA ReadTargets == ASSUME TypeInv, Targets, Results, Loop, ReadByte PROVE Targets' /\ Results'
<1>1. /\ pc = "loop" /\ pc' = "loop" /\ call.op = "Reads" /\ UNCHANGED <<cells, call, before, ret>>
      /\ Len(buf) < Len(call.run) /\ Len(buf) \in Nat /\ ret = "none"
      /\ call.at \in Nat
  <2>1. call.at \in Addresses
    BY DEF TypeInv, Typed, Call
  <2>. QED  BY <2>1, AddressParts, BytesOfRun DEF ReadByte, Loop, TypeInv, Typed, Phases
<1>2. /\ Len(buf') = Len(buf) + 1 /\ data' \in {cells[Here], Zero} /\ Here = call.at + Len(buf)
      /\ buf'[Len(buf) + 1] = data' /\ \A i \in 1..Len(buf) : buf'[i] = buf[i]
  <2>1. buf' = Append(buf, data') /\ data' \in {cells[Here], Zero}
    BY DEF ReadByte, ReadOf, Cleared
  <2>2. data' \in Bytes
    BY TypeStep DEF TypeInv, Typed, Next
  <2>. QED  BY <1>1, <2>1, <2>2, NextByte, BytesOfRun
<1>3. MayChange' = MayChange
  BY <1>1 DEF MayChange, Hit
<1>4. OnlyTarget'
  BY <1>1, <1>3 DEF OnlyTarget, Targets
<1>5. ASSUME NEW i \in 1..Len(buf') PROVE buf'[i] \in {cells'[call'.at + i - 1], Zero}
  <2>1. CASE i = Len(buf) + 1
    <3>1. call.at + i - 1 = Here
      BY <1>1, <1>2, <2>1
    <3>. QED  BY <1>1, <1>2, <2>1, <3>1
  <2>2. CASE i \in 1..Len(buf)
    BY <1>1, <1>2, <2>2 DEF Results, WasRead
  <2>. QED  BY <1>1, <1>2, <2>1, <2>2
<1>. QED  BY <1>1, <1>4, <1>5 DEF Targets, Results, Aimed, Written, WasRead, OkMeansStored, ReadsBack

LEMMA LeaveTargets == ASSUME TypeInv, Targets, Results, Loop, LeaveRun PROVE Targets' /\ Results'
<1>1. /\ pc = "loop" /\ pc' = "returned" /\ UNCHANGED <<cells, call, before, buf>>
      /\ Len(buf) = Len(call.run)
  BY DEF Loop, LeaveRun, Leave
<1>2. MayChange' = MayChange
  BY <1>1 DEF MayChange, Hit
<1>3. OnlyTarget'
  BY <1>1, <1>2 DEF OnlyTarget, Targets
<1>4. OkMeansStored' /\ ReadsBack'
  BY <1>1 DEF Targets, Results, Written, WasRead, OkMeansStored, ReadsBack
<1>. QED  BY <1>1, <1>3, <1>4 DEF Targets, Results, Aimed, Written, WasRead

\* The interrupt routine moves the address of a call that has not disabled
\* interrupts yet.
LEMMA InterruptTargets == ASSUME TypeInv, Targets, Results, Interrupt PROVE Targets' /\ Results'
<1>1. /\ UNCHANGED <<cells, pc, call, buf, ret, before>> /\ ea
  BY DEF Interrupt
<1>2. PICK i \in IsrReads : SetAddr(i)
  BY DEF Interrupt
<1>3. addr' = i /\ addrl' = Low(i)
  BY <1>2, Registers, EepromAssumption DEF SetAddr, addr
<1>4. pc \in {"high", "data", "command"} => call.ea
  BY <1>1 DEF TypeInv, Phases
<1>5. MayChange' = MayChange
  BY <1>1 DEF MayChange, Hit
<1>6. ASSUME pc \in {"data", "command"}, call.op # "Read" PROVE i \in MayChange
  <2>1. call.op \in {"Erase", "Write", "WriteVerify"} /\ i \in Sector(i)
    BY <1>6, EepromAssumption DEF TypeInv, Phases, Sector
  <2>. QED  BY <1>4, <1>6, <2>1 DEF MayChange, Hit
<1>7. Aimed'
  <2>1. pc' \in {"high", "data", "command"} => cells' = before'
    BY <1>1 DEF Aimed, Targets
  <2>2. pc' = "high" /\ call'.op # "Erase" =>
          addrl' \in {Low(call'.at)} \cup (IF call'.ea THEN {Low(j) : j \in IsrReads} ELSE {})
    BY <1>1, <1>3, <1>4
  <2>3. pc' \in {"data", "command"} /\ call'.op # "Read" => addr' \in MayChange'
    BY <1>1, <1>3, <1>5, <1>6
  <2>. QED  BY <2>1, <2>2, <2>3 DEF Aimed
<1>8. OnlyTarget'
  BY <1>1, <1>5 DEF OnlyTarget, Targets
<1>. QED
  BY <1>1, <1>7, <1>8 DEF Targets, Results, Written, WasRead, OkMeansStored, ReadsBack

LEMMA ProceedTargets == ASSUME Proceed PROVE Targets' /\ Results'
BY DEF Proceed, registers, NoCall, Targets, Results, Aimed, Written, OnlyTarget, WasRead,
       OkMeansStored, ReadsBack

LEMMA PowerTargets == ASSUME TypeInv, Targets, PowerFails PROVE Targets' /\ Results'
<1>1. pc' = "off" /\ ret' = "none" /\ UNCHANGED <<call, buf, before>> /\ Torn
  BY DEF PowerFails
<1>2. /\ MayChange' = MayChange /\ cells \in [Addresses -> Bytes] /\ addr \in Addresses
      /\ Len(buf) \in Nat
  BY <1>1, LenProperties, Registers DEF MayChange, Hit, TypeInv, Typed
<1>3. ASSUME NEW b \in Addresses, cells'[b] # before[b]
      PROVE  /\ b \in MayChange
             /\ call.op = "Writes" =>
                  LET i == b - call.at + 1 IN
                    /\ i <= Len(buf) + 1
                    /\ before[b] \cap call.run[i] \subseteq cells'[b] /\ cells'[b] \subseteq before[b]
  <2>1. CASE cells'[b] = cells[b]
    BY <1>3, <2>1 DEF Targets, OnlyTarget
  <2>2. CASE cells'[b] # cells[b] /\ pc = "command"
    <3>1. cells = before
      BY <2>2 DEF Targets, Aimed
    <3>2. CASE call.op = "Erase"
      <4>1. b \in Sector(addr)
        BY <1>1, <1>2, <2>2, <3>2 DEF Torn, Sector
      <4>. QED  BY <2>2, <3>2, <4>1, Hits DEF Targets
    <3>3. CASE call.op \in {"Write", "WriteVerify"}
      <4>1. b = addr
        BY <1>1, <1>2, <2>2, <3>3 DEF Torn
      <4>. QED  BY <2>2, <3>3, <4>1, Hits DEF Targets
    <3>. QED  BY <1>1, <2>2, <3>2, <3>3 DEF Torn
  <2>3. CASE cells'[b] # cells[b] /\ pc # "command"
    <3>1. /\ pc = "loop" /\ call.op = "Writes" /\ Len(buf) < Len(call.run)
          /\ \E w \in Programmed(Here, Wanted) : cells' = [cells EXCEPT ![Here] = w]
      BY <1>1, <2>3 DEF Torn
    <3>2. /\ b = Here /\ b \in MayChange /\ cells[b] = before[b]
          /\ b - call.at + 1 = Len(buf) + 1
      BY <1>2, <2>3, <3>1, HitsNext, BytesOfRun
    <3>3. cells[b] \cap Wanted \subseteq cells'[b] /\ cells'[b] \subseteq cells[b]
      BY <1>2, <3>1, <3>2 DEF Programmed
    <3>4. Wanted = call.run[b - call.at + 1]
      BY <3>2 DEF Wanted
    <3>. QED  BY <1>2, <3>2, <3>3, <3>4
  <2>. QED  BY <2>1, <2>2, <2>3
<1>4. OnlyTarget'
  BY <1>1, <1>2, <1>3 DEF OnlyTarget
<1>. QED
  BY <1>1, <1>4 DEF Targets, Results, Aimed, Written, WasRead, OkMeansStored, ReadsBack

LEMMA InitTargets == Init => Targets /\ Results
BY DEF Init, NoCall, Targets, Results, Aimed, Written, OnlyTarget, WasRead, OkMeansStored, ReadsBack

LEMMA TargetStep == IInv /\ [Next]_vars => Targets' /\ Results'
<1>1. CASE UNCHANGED vars
  <2>1. UNCHANGED <<cells, addrh, addrl, data, ea, pc, call, buf, ret, before>>
    BY <1>1 DEF vars, registers
  <2>2. MayChange' = MayChange
    BY <2>1 DEF MayChange, Hit
  <2>3. IInv => (OnlyTarget <=> OnlyTarget')
    BY <2>1, <2>2 DEF OnlyTarget
  <2>4. addr' = addr
    BY <2>1 DEF addr
  <2>5. IInv => Aimed'
    BY <2>1, <2>2, <2>4 DEF IInv, Targets, Aimed
  <2>. QED
    BY <2>1, <2>3, <2>5
    DEF IInv, Targets, Results, Written, WasRead, OkMeansStored, ReadsBack
<1>2. CASE Next
  <2>1. Loop => WriteByte \/ ReadByte \/ LeaveRun
    BY DEF Loop
  <2>. QED
    BY <1>2, <2>1, CallTargets, FillHighTargets, FillDataTargets, CommandTargets, ResultTargets, WriteTargets, ReadTargets,
       LeaveTargets, InterruptTargets, ProceedTargets, PowerTargets DEF Next, IInv
<1>. QED  BY <1>1, <1>2

LEMMA Invariant == Spec => []IInv
<1>1. Init => IInv
  BY InitTypes, InitTargets DEF IInv
<1>2. IInv /\ [Next]_vars => IInv'
  BY TypeStep, TargetStep DEF IInv
<1>. QED  BY <1>1, <1>2, PTL DEF Spec

\* After ISP_Writes has returned MCU_OK every byte that is not zero is stored as
\* it was given (MCU/RAM/EEPROM.c:150), for every run, sector and content.
THEOREM OkIsStored == Spec => []OkMeansStored
<1>1. IInv => OkMeansStored
  BY DEF IInv, Results
<1>. QED  BY <1>1, Invariant, PTL

\* ISP_Writes changes nothing but its run, sets no bit of it and clears none that is
\* to stay, even when the power fails within a command.  A call for one byte or one
\* sector that finds EA cleared changes nothing else either; one that finds it set
\* (MCU/RAM/EEPROM.c:109-116) hits its own address, one that an interrupt routine
\* reads, or the low byte of one of those under its own high byte.
THEOREM OnlyTheTarget == Spec => []OnlyTarget
<1>1. IInv => OnlyTarget
  BY DEF IInv, Targets
<1>. QED  BY <1>1, Invariant, PTL

\* After ISP_Reads has returned MCU_OK each byte is the one stored at its own
\* address, or zero (MCU/RAM/EEPROM.c:220).
THEOREM ReadsAreStored == Spec => []ReadsBack
<1>1. IInv => ReadsBack
  BY DEF IInv, Results
<1>. QED  BY <1>1, Invariant, PTL
-----------------------------------------------------------------------------
(* The Modbus master.                                                      *)

\* They ask for at most 125 holding or input registers.
LEMMA Requests ==
  ASSUME NEW req \in ReadRequest
  PROVE  /\ req.regnums \in 0..125
         /\ req.function \in {3, 4}
         /\ req.function \in Byte
<1>1. req.regnums \in Byte /\ req.function \in Byte
  BY DEF ReadRequest, Request
<1>2. ~(req.regnums > MODBUS_MAX_READ_REGISTERS)
  BY Zenon DEF ReadRequest, BuildRequestByReadRegisters, BuildRequestByInputRegisters
<1>3. req.function \in {3, 4}
  BY DEF ReadRequest, ReadHoldingRegisters, ReadInputRegisters
<1>. QED  BY <1>1, <1>2, <1>3 DEF Byte, MODBUS_MAX_READ_REGISTERS

\* The length of an answer to a request for registers is a char up to 61 of
\* them, negative up to 124, and at 125 the number that stands for any length.
LEMMA Lengths ==
  ASSUME NEW req \in ReadRequest
  PROVE  LET n == req.regnums
             c == ToChar(ComputeResponseLength(req))
         IN /\ n \in 0..125
            /\ c = IF n <= 61 THEN 5 + 2 * n ELSE 2 * n - 251
            /\ c = MSG_LENGTH_UNDEFINED <=> n = 125
<1>1. req.regnums \in 0..125 /\ req.function \in {3, 4}
  BY Requests
<1>2. ComputeResponseLength(req) = 5 + 2 * req.regnums
  BY <1>1 DEF ComputeResponseLength, ReadBits, ReadRegisters,
            ReadHoldingRegisters, ReadInputRegisters, ReadExceptionStatus, ReportSlaveId
<1>3. ASSUME NEW n \in 0..125
      PROVE  ToChar(5 + 2 * n) = IF n <= 61 THEN 5 + 2 * n ELSE 2 * n - 251
  BY DEF ToChar
<1>. QED  BY <1>1, <1>2, <1>3 DEF MSG_LENGTH_UNDEFINED

\* Request and answer to a request for registers are compared as they are: a char
\* holds the number of registers.
LEMMA Numbers ==
  ASSUME NEW req \in ReadRequest, NEW rsp,
         rsp.function = req.function, rsp.count \in Byte
  PROVE  /\ ReqNbValue(req, rsp) = req.regnums
         /\ RspNbValue(rsp) = rsp.count \div 2
         /\ ToByte(RspNbValue(rsp)) = rsp.count \div 2
<1>1. req.regnums \in 0..125 /\ rsp.function \in {3, 4}
  BY Requests
<1>2. rsp.count \div 2 \in 0..127
  BY DEF Byte
<1>3. ASSUME NEW n \in 0..127 PROVE ToChar(n) = n /\ ToByte(n) = n
  BY DEF ToChar, ToByte
<1>4. ReqNbValue(req, rsp) = ToChar(req.regnums)
  BY <1>1 DEF ReqNbValue, ReadBits, ReadRegisters,
            ReadHoldingRegisters, ReadInputRegisters, WriteMultiple, ReportSlaveId
<1>5. RspNbValue(rsp) = ToChar(rsp.count \div 2)
  BY <1>1 DEF RspNbValue, ReadBits, ReadRegisters,
            ReadHoldingRegisters, ReadInputRegisters, WriteMultiple, ReportSlaveId
<1>. QED  BY <1>1, <1>2, <1>3, <1>4, <1>5

\* Such an answer fits into bytes, and counts the registers.
LEMMA FullAnswers ==
  ASSUME NEW f \in Byte, NEW n \in 0..125
  PROVE  LET rsp == [function |-> f, count |-> 2 * n, length |-> 5 + 2 * n]
         IN /\ rsp.function = f
            /\ rsp.count \in Byte /\ rsp.count \div 2 = n
            /\ rsp.length = 5 + 2 * n /\ rsp.length # 0
<1>1. 2 * n \in 0..255 /\ 2 * n \in 0..65535
  OBVIOUS
<1>2. 5 + 2 * n \in 0..255 /\ 5 + 2 * n # 0
  OBVIOUS
<1>3. (2 * n) \div 2 = n
  OBVIOUS
<1>. QED  BY <1>1, <1>2, <1>3 DEF Byte

\* The answer that a slave gives to a request for up to 125 registers, all of which
\* the master may send (MCU/COMM/serialport.h:75), is taken up to 61 registers,
\* and at 125; with 62 to 124 it is refused, however right it is.
THEOREM FullAnswersTaken ==
  ASSUME NEW req \in ReadRequest
  PROVE  ResolvedRegisters(req, FullAnswer(req))
           = IF req.regnums <= 61 \/ req.regnums = 125 THEN req.regnums ELSE Failed
<1> DEFINE n == req.regnums
           rsp == FullAnswer(req)
<1>1. n \in 0..125 /\ req.function \in Byte
  BY Requests
<1>2. /\ rsp.function = req.function
      /\ rsp.count \in Byte /\ rsp.count \div 2 = n
      /\ rsp.length = 5 + 2 * n /\ rsp.length # 0
  BY <1>1, FullAnswers DEF FullAnswer
<1>3. /\ ReqNbValue(req, rsp) = n /\ RspNbValue(rsp) = n /\ ToByte(RspNbValue(rsp)) = n
  BY <1>2, Numbers
<1>4. LengthAccepted(req, rsp) <=> n <= 61 \/ n = 125
  <2>1. /\ ToChar(ComputeResponseLength(req)) = IF n <= 61 THEN 5 + 2 * n ELSE 2 * n - 251
        /\ ToChar(ComputeResponseLength(req)) = MSG_LENGTH_UNDEFINED <=> n = 125
    BY Lengths
  <2>. QED  BY <1>1, <1>2, <2>1 DEF LengthAccepted
<1>. QED  BY <1>2, <1>3, <1>4 DEF ResolvedRegisters, CheckConfirmation

\* Whatever answer arrives, the values that are copied after a confirmation are as
\* many as were asked for, the answer counts them, and it is long enough to hold
\* them: except after a request for 125 registers, where no length is too short.
THEOREM CopiedWereAnswered ==
  ASSUME NEW req \in ReadRequest, NEW rsp \in Answer, rsp.count \in Byte,
         rsp.length # 0, ResolvedRegisters(req, rsp) # Failed
  PROVE  /\ ResolvedRegisters(req, rsp) = req.regnums
         /\ rsp.function = req.function /\ rsp.count \div 2 = req.regnums
         /\ req.regnums = 125 \/ rsp.length = 5 + 2 * req.regnums
<1> DEFINE n == req.regnums
<1>1. /\ LengthAccepted(req, rsp)
      /\ rsp.function = req.function
      /\ ReqNbValue(req, rsp) = RspNbValue(rsp)
      /\ ResolvedRegisters(req, rsp) = ToByte(RspNbValue(rsp))
  BY DEF ResolvedRegisters, CheckConfirmation
<1>2. n = rsp.count \div 2 /\ ResolvedRegisters(req, rsp) = n
  BY <1>1, Numbers
<1>3. n = 125 \/ rsp.length = 5 + 2 * n
  <2>1. /\ n \in 0..125
        /\ ToChar(ComputeResponseLength(req)) = IF n <= 61 THEN 5 + 2 * n ELSE 2 * n - 251
        /\ ToChar(ComputeResponseLength(req)) = MSG_LENGTH_UNDEFINED <=> n = 125
    BY Lengths
  <2>2. rsp.length \in 0..255
    BY DEF Answer, Byte
  <2>3. rsp.length = ToChar(ComputeResponseLength(req))
        \/ ToChar(ComputeResponseLength(req)) = MSG_LENGTH_UNDEFINED
    BY <1>1 DEF LengthAccepted
  <2>4. CASE n <= 61
    BY <2>1, <2>3, <2>4
  <2>5. CASE ~(n <= 61)
    <3>1. 2 * n - 251 < 0 \/ n = 125
      BY <2>1
    <3>. QED  BY <2>1, <2>2, <2>3, <2>5, <3>1
  <2>. QED  BY <2>4, <2>5
<1>. QED  BY <1>1, <1>2, <1>3

\* An answer is confirmed or refused, and a caller can tell which.  But a refusal,
\* 255, is used as a number of registers too (serialport.c:485): more than any
\* request asks for, and more than the longest answer holds.
THEOREM RefusedAreCopied ==
  ASSUME NEW req \in ReadRequest, NEW rsp \in Answer, rsp.count \in Byte,
         rsp.length # 0
  PROVE  LET copied == ResolvedRegisters(req, rsp)
         IN /\ copied # Failed => copied = req.regnums
            /\ copied = Failed => /\ copied > MODBUS_MAX_READ_REGISTERS
                                  /\ copied # req.regnums
                                  /\ 3 + 2 * copied > rsp.length
<1> DEFINE copied == ResolvedRegisters(req, rsp)
<1>1. copied # Failed => copied = req.regnums
  BY CopiedWereAnswered
<1>2. rsp.length \in 0..255
  BY DEF Answer, Byte
<1>3. req.regnums \in 0..125
  BY Requests
<1>. QED  BY <1>1, <1>2, <1>3 DEF Failed, MODBUS_MAX_READ_REGISTERS
=============================================================================

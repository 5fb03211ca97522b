-------------------------------- MODULE Eeprom -------------------------------
(***************************************************************************)
(* The EEPROM of an STC89C5x as MCU/RAM/EEPROM.c uses it: single bytes and *)
(* sectors (ISP_Erase, ISP_Read, ISP_Write, ISP_WriteVerify) and runs of   *)
(* bytes within a sector (ISP_Writes, ISP_Reads).  A command takes its     *)
(* address and its data from registers that the whole program shares.      *)
(*                                                                         *)
(* A byte is the set of its bits that are 1: erasing sets them all,        *)
(* programming can only clear bits.  The chip may program some of the bits *)
(* to be cleared or none, which is why the code verifies, and may ignore a *)
(* command to read, which leaves the data register as it is.  An interrupt *)
(* routine runs when EA is set and may read bytes of its own with          *)
(* ISP_Read.  The power may fail at any time.                              *)
(*                                                                         *)
(* What happens with EA cleared is one step, but for the runs of bytes,    *)
(* which take one step for each byte.  A call with EA set is interrupted   *)
(* where it has EA set: between its stores into the low and the high byte  *)
(* of the address and the data, before its command, and before it reads    *)
(* its result.                                                             *)
(***************************************************************************)
EXTENDS Integers, Sequences

CONSTANTS
  Bits,          \* the bits of a byte, eight of them in the chip
  LowSize,       \* how many values ISP_ADDRL has, 256 in the chip
  SectorSize,    \* SIZE_OF_SECTOR, 512 in the code
  Sectors,       \* how many sectors there are
  IsrReads       \* the addresses that the interrupt routine reads

Addresses == 0 .. SectorSize * Sectors - 1
Bytes == SUBSET Bits
Zero == {}
MaxRun == SectorSize + 1    \* the longest run asked for, one too long

ASSUME EepromAssumption ==
  /\ LowSize \in Nat \ {0} /\ SectorSize \in Nat \ {0} /\ Sectors \in Nat \ {0}
  /\ SectorSize % LowSize = 0
  /\ IsrReads \subseteq Addresses

VARIABLES
  cells,    \* the contents of the EEPROM
  addrh,    \* ISP_ADDRH
  addrl,    \* ISP_ADDRL
  data,     \* ISP_DATA
  ea,       \* EA: interrupts are enabled
  pc,       \* idle, in a call at high, data, command, result or loop,
            \* returned, or off
  call,     \* the call at work, or the last one
  buf,      \* the bytes of the run dealt with; for reads, what was read
  ret,      \* what the call returned
  before    \* the contents at the beginning of the call

registers == <<addrh, addrl, data>>
vars == <<cells, registers, ea, pc, call, buf, ret, before>>

Runs == (UNION {[1..n -> Bytes] : n \in 0..SectorSize}) \cup {[i \in 1..MaxRun |-> Zero]}
Ops == {"Erase", "Read", "Write", "WriteVerify", "Writes", "Reads"}
NoCall == [op |-> "none", at |-> 0, run |-> <<>>, ea |-> FALSE]

Init ==
  /\ cells \in [Addresses -> Bytes]
  /\ addrh = 0 /\ addrl = 0 /\ data = Bits /\ ea = FALSE
  /\ pc = "idle" /\ call = NoCall /\ buf = <<>> /\ ret = "none" /\ before = cells
-----------------------------------------------------------------------------
Offset(a) == a % SectorSize
Sector(a) == {b \in Addresses : b \div SectorSize = a \div SectorSize}

\* An address is put together from what the two registers hold.
High(a) == a \div LowSize
Low(a) == a % LowSize
Joined(h, l) == h * LowSize + l
addr == Joined(addrh, addrl)
SetAddr(a) == addrh' = High(a) /\ addrl' = Low(a)

\* What a cell can hold after the command to program v into it, or after part
\* of that command.
Programmed(a, v) == {w \in Bytes : cells[a] \cap v \subseteq w /\ w \subseteq cells[a]}

\* What the data register, set to d, can hold after the command to read cell
\* a of contents c.
ReadOf(c, a, d) == {c[a], d}

Erased(a) == [b \in Addresses |-> IF b \in Sector(a) THEN Bits ELSE cells[b]]
-----------------------------------------------------------------------------
Begin(op, a, run) ==
  /\ pc = "idle"
  /\ call' = [op |-> op, at |-> a, run |-> run, ea |-> ea]
  /\ buf' = <<>> /\ before' = cells /\ UNCHANGED cells

\* The calls for one byte or one sector fill the registers first, one store
\* after the other.
FillLow(l) ==
  /\ addrl' = l /\ pc' = "high" /\ ret' = "none" /\ UNCHANGED <<addrh, data, ea>>

ISP_Erase(a) == Begin("Erase", a, <<>>) /\ FillLow(0)
ISP_Read(a) == Begin("Read", a, <<>>) /\ FillLow(Low(a))
ISP_Write(a, v) == Begin("Write", a, <<v>>) /\ FillLow(Low(a))
ISP_WriteVerify(a, v) == Begin("WriteVerify", a, <<v>>) /\ FillLow(Low(a))

\* The address a call fills in: that of the sector for ISP_Erase.
Target == IF call.op = "Erase" THEN call.at - Offset(call.at) ELSE call.at

FillHigh ==
  /\ pc = "high" /\ addrh' = High(Target)
  /\ pc' = IF call.op \in {"Write", "WriteVerify"} THEN "data" ELSE "command"
  /\ UNCHANGED <<cells, addrl, data, ea, call, buf, ret, before>>

FillData ==
  /\ pc = "data" /\ data' = call.run[1] /\ pc' = "command"
  /\ UNCHANGED <<cells, addrh, addrl, ea, call, buf, ret, before>>

\* ISP_Enable, ISP_Trig, ISP_Disable: EA is cleared and set again as it was.
Command ==
  /\ pc = "command"
  /\ \/ /\ call.op = "Erase" /\ cells' = Erased(addr) /\ UNCHANGED data
     \/ /\ call.op = "Read" /\ data' \in ReadOf(cells, addr, data) /\ UNCHANGED cells
     \/ /\ call.op = "Write" /\ UNCHANGED data
        /\ \E w \in Programmed(addr, data) : cells' = [cells EXCEPT ![addr] = w]
     \/ /\ call.op = "WriteVerify"
        /\ \E w \in Programmed(addr, data) : cells' = [cells EXCEPT ![addr] = w]
        /\ data' \in ReadOf(cells', addr, Zero)
  /\ pc' = IF call.op \in {"Read", "WriteVerify"} THEN "result" ELSE "returned"
  /\ UNCHANGED <<addrh, addrl, ea, call, buf, ret, before>>

\* ISP_Read and ISP_WriteVerify look at ISP_DATA when interrupts are on again.
Result ==
  /\ pc = "result" /\ pc' = "returned" /\ buf' = <<data>>
  /\ ret' = IF call.op = "Read" \/ data = call.run[1] THEN "MCU_OK" ELSE "MCU_ERROR"
  /\ UNCHANGED <<cells, registers, ea, call, before>>
-----------------------------------------------------------------------------
\* The calls for a run of bytes refuse one that leaves the sector, and clear EA
\* before the first byte.
Mut_InSector_OnlyLength(a, n) == n <= SectorSize

InSector(a, n) == n <= SectorSize /\ Offset(a) + n <= SectorSize

Mut_EnterRun_Enabled(a, n) ==
  /\ UNCHANGED <<registers, ea>>
  /\ IF InSector(a, n) THEN pc' = "loop" /\ ret' = "none"
     ELSE pc' = "returned" /\ ret' = "MCU_ERROR"

EnterRun(a, n) ==
  /\ UNCHANGED registers
  /\ IF InSector(a, n) THEN pc' = "loop" /\ ret' = "none" /\ ea' = FALSE
     ELSE pc' = "returned" /\ ret' = "MCU_ERROR" /\ UNCHANGED ea

ISP_Writes(a, run) == Begin("Writes", a, run) /\ EnterRun(a, Len(run))
ISP_Reads(a, n) ==
  Begin("Reads", a, [i \in 1..n |-> Zero]) /\ EnterRun(a, n)

\* Addresses are 16 bits wide; the model's address space wraps in the same way.
Here == (call.at + Len(buf)) % (SectorSize * Sectors)
Wanted == call.run[Len(buf) + 1]

\* ISP_DATA is cleared before it is read into.
Mut_Cleared_Not(d) == d
Cleared(d) == Zero

Leave(r) == pc' = "returned" /\ ret' = r /\ ea' = call.ea

WriteByte ==
  /\ call.op = "Writes" /\ Len(buf) < Len(call.run)
  /\ SetAddr(Here)
  /\ \E w \in Programmed(Here, Wanted) : cells' = [cells EXCEPT ![Here] = w]
  /\ data' \in ReadOf(cells', Here, Cleared(Wanted))
  /\ buf' = Append(buf, data')
  /\ IF data' # Wanted THEN Leave("MCU_ERROR") ELSE UNCHANGED <<pc, ret, ea>>

ReadByte ==
  /\ call.op = "Reads" /\ Len(buf) < Len(call.run)
  /\ SetAddr(Here) /\ UNCHANGED <<cells, pc, ret, ea>>
  /\ data' \in ReadOf(cells, Here, Cleared(data))
  /\ buf' = Append(buf, data')

LeaveRun ==
  /\ Len(buf) = Len(call.run) /\ Leave("MCU_OK")
  /\ UNCHANGED <<cells, registers, buf>>

Loop ==
  /\ pc = "loop" /\ (WriteByte \/ ReadByte \/ LeaveRun)
  /\ UNCHANGED <<call, before>>
-----------------------------------------------------------------------------
\* The surroundings.

\* The interrupt routine reads a byte of its own.
Interrupt ==
  /\ ea
  /\ \E a \in IsrReads : SetAddr(a) /\ data' \in ReadOf(cells, a, data)
  /\ UNCHANGED <<cells, ea, pc, call, buf, ret, before>>

\* The program goes on with the result of a call, or starts again after a
\* failure of the power, and enables or disables interrupts as it likes.
Proceed ==
  /\ pc \in {"returned", "off"} /\ pc' = "idle" /\ ea' \in BOOLEAN
  /\ call' = NoCall /\ buf' = <<>> /\ ret' = "none" /\ before' = cells
  /\ UNCHANGED <<cells, registers>>

\* A command that the power cuts short may have changed part of its bits.
Torn ==
  \/ UNCHANGED cells
  \/ /\ pc = "command" /\ call.op = "Erase"
     /\ cells' \in [Addresses -> Bytes]
     /\ \A b \in Addresses :
          IF b \in Sector(addr) THEN cells[b] \subseteq cells'[b] ELSE cells'[b] = cells[b]
  \/ /\ pc = "command" /\ call.op \in {"Write", "WriteVerify"}
     /\ \E w \in Programmed(addr, data) : cells' = [cells EXCEPT ![addr] = w]
  \/ /\ pc = "loop" /\ call.op = "Writes" /\ Len(buf) < Len(call.run)
     /\ \E w \in Programmed(Here, Wanted) : cells' = [cells EXCEPT ![Here] = w]

\* The registers have their values after a reset, and interrupts are off.
PowerFails ==
  /\ pc # "off" /\ Torn
  /\ addrh' = 0 /\ addrl' = 0 /\ data' = Bits /\ ea' = FALSE /\ pc' = "off" /\ ret' = "none"
  /\ UNCHANGED <<call, buf, before>>

Next ==
  \/ \E a \in Addresses :
       \/ ISP_Erase(a) \/ ISP_Read(a)
       \/ \E v \in Bytes : ISP_Write(a, v) \/ ISP_WriteVerify(a, v)
       \/ \E run \in Runs : ISP_Writes(a, run)
       \/ \E n \in 0..MaxRun : ISP_Reads(a, n)
  \/ FillHigh \/ FillData \/ Command \/ Result \/ Loop
  \/ Interrupt \/ Proceed \/ PowerFails

Spec == Init /\ [][Next]_vars
-----------------------------------------------------------------------------
\* The variables have their types; a run of bytes is dealt with with EA cleared,
\* and every call, also one that fails, leaves EA as it found it (EEPROM.c:36).
TypeOK ==
  /\ cells \in [Addresses -> Bytes] /\ before \in [Addresses -> Bytes]
  /\ addr \in Addresses /\ addrl \in 0..LowSize - 1 /\ data \in Bytes /\ ea \in BOOLEAN
  /\ pc \in {"idle", "high", "data", "command", "result", "loop", "returned", "off"}
  /\ call.op \in Ops \cup {"none"} /\ call.at \in Addresses
  /\ Len(buf) <= Len(call.run) + 1
  /\ ret \in {"none", "MCU_OK", "MCU_ERROR"}
  /\ pc = "loop" => ~ea
  /\ pc = "returned" => ea = call.ea

\* When ISP_Writes returns MCU_OK the bytes are stored as they were given
\* (MCU/RAM/EEPROM.c:150, "write and verify"), whatever was there before,
\* whichever commands the chip ignored and whatever interrupt routines read.
\* There is one exception: a read that is ignored looks like a zero.
OkMeansStored ==
  call.op = "Writes" /\ ret = "MCU_OK" =>
    \A i \in 1..Len(call.run) :
      call.run[i] # Zero => cells[call.at + i - 1] = call.run[i]

\* Where a call for one byte can hit.  It sets the address before it disables
\* interrupts: with interrupt routines that use the EEPROM it can hit the
\* addresses of those, or the low byte of one under its own high byte.
Hit(a) ==
  {a} \cup (IF call.ea THEN IsrReads \cup {Joined(High(a), Low(i)) : i \in IsrReads} ELSE {})

\* The bytes that a call may change.
MayChange ==
  CASE call.op = "Erase" ->
         UNION {Sector(a) : a \in {call.at} \cup (IF call.ea THEN IsrReads ELSE {})}
    [] call.op \in {"Write", "WriteVerify"} -> Hit(call.at)
    [] call.op = "Writes" -> {call.at + i : i \in 0..Len(call.run) - 1} \cap Sector(call.at)
    [] OTHER -> {}

\* A call changes what it is asked to change and nothing else, and ISP_Writes
\* no byte behind the one it failed at or lost its power at; it never sets a
\* bit, nor clears one that is to stay.
OnlyTarget ==
  \A a \in Addresses : cells[a] # before[a] =>
    /\ a \in MayChange
    /\ call.op = "Writes" =>
         LET i == a - call.at + 1 IN
           /\ i <= Len(buf) + 1
           /\ before[a] \cap call.run[i] \subseteq cells[a] /\ cells[a] \subseteq before[a]

\* When ISP_Reads returns MCU_OK each byte is the one stored at its address
\* or, when the chip ignored the command, zero: never that of another address.
ReadsBack ==
  call.op = "Reads" /\ ret = "MCU_OK" =>
    /\ Len(buf) = Len(call.run)
    /\ \A i \in 1..Len(buf) : buf[i] \in {cells[call.at + i - 1], Zero}
=============================================================================

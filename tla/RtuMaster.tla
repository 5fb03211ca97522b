------------------------------ MODULE RtuMaster ------------------------------
(***************************************************************************)
(* The Modbus RTU master of MCU/COMM/serialport.c: which requests it sends *)
(* and which answers it takes for confirmations of them.  The functions    *)
(* keep nothing from one call to the next, so the module has operators and *)
(* no behaviour; McuProofs has the theorems about them.                    *)
(*                                                                         *)
(* BYTE is unsigned and char is signed, eight bits wide both; the compiler *)
(* computes in int and cuts down what it stores.  A request is the address *)
(* of the slave, the function and the number of things asked for.  An      *)
(* answer is the function, the number that its third byte is (fourth and   *)
(* fifth for the functions that write), and its length.                    *)
(***************************************************************************)
EXTENDS Integers

Byte == 0..255
ToByte(n) == n % 256
ToChar(n) == IF n % 256 < 128 THEN n % 256 ELSE (n % 256) - 256
Failed == 255                      \* what -1 is as a BYTE
NothingGiven == 99

Request == [slave : Byte, function : Byte, regnums : Byte]
Answer == [function : Byte, count : 0..65535, length : Byte]

ReadBits == {1, 2}                 \* _FC_READ_COILS, _FC_READ_DISCRETE_INPUTS
ReadHoldingRegisters == 3
ReadInputRegisters == 4
ReadRegisters == {3, 4, 23}        \* those two and _FC_WRITE_AND_READ_REGISTERS
WriteMultiple == {15, 16}
ReportSlaveId == 17
ReadExceptionStatus == 7

MODBUS_MAX_READ_REGISTERS == 125
MIN_REQ_LENGTH == 12
MSG_LENGTH_UNDEFINED == -1
-----------------------------------------------------------------------------
\* The two functions that send a request take buffers of opposite sizes, and
\* only the first one sends a checksum.
BuildRequestByReadRegisters(regnums, reqbuflen) ==
  IF regnums > MODBUS_MAX_READ_REGISTERS \/ reqbuflen > MIN_REQ_LENGTH THEN Failed ELSE 6 + 2
BuildRequestByInputRegisters(regnums, reqbuflen) ==
  IF regnums > MODBUS_MAX_READ_REGISTERS \/ reqbuflen < MIN_REQ_LENGTH THEN Failed ELSE 6

\* The length of the answer: address, function, data and checksum.
BytesOfBits(n) ==
  (IF n < 0 THEN -((-n) \div 8) ELSE n \div 8) + (IF n % 8 > 0 THEN 1 ELSE 0)
ComputeResponseLength(req) ==
  CASE req.function \in ReadBits -> 1 + 2 + BytesOfBits(req.regnums) + 2
    [] req.function \in ReadRegisters -> 1 + 2 + 2 * req.regnums + 2
    [] req.function = ReadExceptionStatus -> 1 + 3 + 2
    [] req.function = ReportSlaveId -> MSG_LENGTH_UNDEFINED
    [] OTHER -> 1 + 5 + 2

\* What request and answer say about the number of values, as chars.
ReqNbValue(req, rsp) ==
  CASE rsp.function \in ReadBits -> ToChar(BytesOfBits(ToChar(req.regnums)))
    [] rsp.function \in ReadRegisters \cup WriteMultiple -> ToChar(req.regnums)
    [] rsp.function = ReportSlaveId -> ToChar(rsp.count)
    [] OTHER -> 1
RspNbValue(rsp) ==
  CASE rsp.function \in ReadBits \cup {ReportSlaveId} -> ToChar(rsp.count)
    [] rsp.function \in ReadRegisters -> ToChar(rsp.count \div 2)
    [] rsp.function \in WriteMultiple -> ToChar(rsp.count)
    [] OTHER -> 1

\* The length computed is kept in a char, and compared with a BYTE.
LengthAccepted(req, rsp) ==
  LET computed == ToChar(ComputeResponseLength(req))
  IN rsp.length = computed \/ computed = MSG_LENGTH_UNDEFINED

CheckConfirmation(req, rsp) ==
  IF /\ LengthAccepted(req, rsp)
     /\ rsp.function = req.function
     /\ ReqNbValue(req, rsp) = RspNbValue(rsp)
  THEN ToByte(RspNbValue(rsp)) ELSE Failed

\* What RTU_ResolveDataFromResponseRegisters returns.  Except for NothingGiven it
\* has then copied as many values, also when that number is Failed.
ResolvedRegisters(req, rsp) ==
  IF rsp.length = 0 THEN NothingGiven ELSE CheckConfirmation(req, rsp)
-----------------------------------------------------------------------------
\* What a slave answers to a request to read registers.
FullAnswer(req) ==
  [function |-> req.function, count |-> 2 * req.regnums, length |-> 5 + 2 * req.regnums]

\* The requests that the master sends, given a buffer of a size it takes.
ReadRequest ==
  {req \in Request :
     \/ /\ req.function = ReadHoldingRegisters
        /\ BuildRequestByReadRegisters(req.regnums, MIN_REQ_LENGTH) # Failed
     \/ /\ req.function = ReadInputRegisters
        /\ BuildRequestByInputRegisters(req.regnums, MIN_REQ_LENGTH) # Failed}
=============================================================================

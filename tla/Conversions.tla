---------------------------- MODULE Conversions ----------------------------
(***************************************************************************)
(* The conversions of ConstantFunctionsDefinition.h, with the widths of    *)
(* their types: bytes are 0..255, uint16_t is 0..65535, int16_t is         *)
(* -32768..32767 and keeps the low 16 bits of what it is given.            *)
(***************************************************************************)
LOCAL INSTANCE Integers

ToInt16(n) == ((n + 32768) % 65536) - 32768

ConvertTwoBytesToUnsignedBigEndian(firstByte, secondByte) ==
  (256 * secondByte + firstByte) % 65536

ConvertTwoBytesToSignedBigEndian(firstByte, secondByte) ==
  ToInt16(256 * secondByte + firstByte)

(* The high byte is shifted as an int16_t, which extends its sign: a high  *)
(* byte that is negative fills all that the low byte is or-ed into.        *)
ReverseEndiannessOfInt16(value) ==
  LET highByte == ToInt16((value % 65536) - (value % 256)) \div 256
      lowByte == (value % 256) * 256
  IN  IF highByte < 0 THEN highByte ELSE ToInt16(highByte + lowByte)
=============================================================================

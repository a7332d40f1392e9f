---------------------------- MODULE ModbusTypes -----------------------------
(***************************************************************************)
(* What the Modbus drivers share: function codes, and the byte orders of   *)
(* modbus_types.cpp.                                                       *)
(***************************************************************************)
EXTENDS Naturals, Sequences

(* Function codes: the area each works on, and whether it reads. *)
Area(fc) == CASE fc \in {1, 5, 15} -> "coil" [] fc = 2 -> "discrete"
              [] fc \in {3, 6, 16} -> "holding" [] OTHER -> "input"
IsRead(fc) == fc \in 1..4

(* ByteOrderConverter: a value is its bytes, the most significant first. *)

Orders == {"big_endian", "little_endian", "big_endian_byte_swap", "little_endian_byte_swap"}

registersPerType == [uint16 |-> 1, float32 |-> 2, int64 |-> 4]

swap(r) == <<r[2], r[1]>>

combineRegisters32(order, high, low) ==
    CASE order = "big_endian" -> high \o low
      [] order = "little_endian" -> low \o high
      [] order = "big_endian_byte_swap" -> swap(high) \o swap(low)
      [] OTHER -> swap(low) \o swap(high)

Big(order) == order \in {"big_endian", "big_endian_byte_swap"}

combineRegisters64(order, r) ==
    LET high == combineRegisters32(order, r[1], r[2])
        low == combineRegisters32(order, r[3], r[4])
    IN  IF Big(order) THEN high \o low ELSE low \o high

splitRegisters32(order, v) ==
    LET h == SubSeq(v, 1, 2)
        l == SubSeq(v, 3, 4)
    IN  CASE order = "big_endian" -> <<h, l>>
          [] order = "little_endian" -> <<l, h>>
          [] order = "big_endian_byte_swap" -> <<swap(h), swap(l)>>
          [] OTHER -> <<swap(l), swap(h)>>

splitRegisters64(order, v) ==
    LET high == SubSeq(v, 1, 4)
        low == SubSeq(v, 5, 8)
    IN  IF Big(order) THEN splitRegisters32(order, high) \o splitRegisters32(order, low)
        ELSE splitRegisters32(order, low) \o splitRegisters32(order, high)

(* from...: the registers of a value.  to...: the value of registers from i
   on.  16-bit values are not reordered. *)
FromValue(type, order, v) ==
    CASE registersPerType[type] = 1 -> <<v>>
      [] registersPerType[type] = 2 -> splitRegisters32(order, v)
      [] OTHER -> splitRegisters64(order, v)

ToValue(type, order, r) ==
    CASE registersPerType[type] = 1 -> r[1]
      [] registersPerType[type] = 2 -> combineRegisters32(order, r[1], r[2])
      [] OTHER -> combineRegisters64(order, r)

(* registersToJson: what does not make a whole value is left out. *)
registersToJson(type, order, regs) ==
    LET step == registersPerType[type]
    IN  [i \in 1..(Len(regs) \div step) |->
            ToValue(type, order, SubSeq(regs, (i - 1) * step + 1, i * step))]
=============================================================================

------------------------------- MODULE Crc32c -------------------------------
(***************************************************************************)
(* Crc32c.cpp: the checksum by table and by the SSE4.2 instructions.  A    *)
(* register or a byte is the set of its bits that are 1, counted from the  *)
(* lowest.  Both may be narrower here than 32 and 8 bits; what a word of   *)
(* eight or four bytes is made of is not.                                  *)
(***************************************************************************)
EXTENDS Naturals, Sequences, FiniteSetsExt

CONSTANTS
  RegisterBits, ByteBits,   \* 32 and 8 in the code
  PolyC, PolyIeee           \* the two polynomials, reflected

Bytes == SUBSET (0..ByteBits - 1)
Registers == SUBSET (0..RegisterBits - 1)

ASSUME CrcAssumption ==
  /\ ByteBits \in Nat /\ RegisterBits \in Nat /\ ByteBits <= RegisterBits
  /\ PolyC \in Registers /\ PolyIeee \in Registers

Xor(a, b) == SymDiff(a, b)
Shifted(c, n) == {k - n : k \in {j \in c : j >= n}}
Complement(crc) == (0..RegisterBits - 1) \ crc

(* The register after step with each element of p in turn.                 *)
Through(p, start, step) ==
  LET Over[n \in 0..Len(p)] == IF n = 0 THEN start ELSE step[Over[n - 1]][p[n]]
  IN  Over[Len(p)]

(* k turns of the bit loop, and the table it fills.                        *)
Turn(poly, c) == IF 0 \in c THEN Xor(poly, Shifted(c, 1)) ELSE Shifted(c, 1)
Bits(poly, c, k) ==
  LET After[n \in 0..k] == IF n = 0 THEN c ELSE Turn(poly, After[n - 1])
  IN  After[k]

Table(poly) == [b \in Bytes |-> Bits(poly, b, ByteBits)]
tableC == Table(PolyC)
tableIeee == Table(PolyIeee)

(* The step of the table: the lowest byte is looked up and shifted out.    *)
LookUp(table) ==
  [c \in Registers |-> [b \in Bytes |->
     Xor(table[Xor(c, b) \cap (0..ByteBits - 1)], Shifted(c, ByteBits))]]

(* Faulty: the checksum so far is not turned back before it is carried on. *)
ByTableRaw(table, crc, p) == Complement(Through(p, crc, LookUp(table)))

ByTable(table, crc, p) == Complement(Through(p, Complement(crc), LookUp(table)))

crc32c_sw(crc, p) == ByTable(tableC, crc, p)
crc32_ieee(crc, p) == ByTable(tableIeee, crc, p)

(* A byte goes through the register bit by bit.                            *)
ByBits(poly) ==
  [c \in Registers |-> [b \in Bytes |-> Bits(poly, Xor(c, b), ByteBits)]]

(* What the instructions do with a word: its bytes in turn, lowest first.  *)
Instruction ==
  [c \in Registers |-> [word \in Seq(Bytes) |-> Through(word, c, ByBits(PolyC))]]

Lead(address, len) ==
  LET toAligned == (8 - (address % 8)) % 8
  IN  IF len < toAligned THEN len ELSE toAligned

(* The words in which the loops of crc32c go through p at this address:    *)
(* single bytes up to a multiple of eight, words of eight bytes, words of  *)
(* four, single bytes.                                                     *)
Words(p, address) ==
  LET lead == Lead(address, Len(p))
      left == Len(p) - lead
      From(at, n, width) ==
        [k \in 1..n |-> SubSeq(p, at + (k - 1) * width + 1, at + k * width)]
  IN  From(0, lead, 1) \o From(lead, left \div 8, 8)
        \o From(lead + 8 * (left \div 8), (left % 8) \div 4, 4)
        \o From(Len(p) - (left % 4), left % 4, 1)

crc32c_hw(crc, p, address) ==
  Complement(Through(Words(p, address), Complement(crc), Instruction))

crc32c(hw, crc, p, address) ==
  IF hw THEN crc32c_hw(crc, p, address) ELSE crc32c_sw(crc, p)

(* The checksum by its definition: every bit of the data in one go.        *)
Reference(poly, p) == Complement(Through(p, Complement({}), ByBits(poly)))

=============================================================================

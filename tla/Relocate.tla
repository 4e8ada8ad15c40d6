------------------------------ MODULE Relocate ------------------------------
(***************************************************************************)
(* uvl_relocate of vitadecompiler-mod: a segment of relocation entries is  *)
(* applied to the text and the data segment, one 32-bit word per entry.    *)
(*                                                                         *)
(* A word is two halfwords, `lo' the one at the lower address, so that the *)
(* Thumb encodings read as in the code.  Addresses and offsets are signed  *)
(* 32-bit numbers; only differences and their low bits matter.             *)
(***************************************************************************)
EXTENDS Integers

CONSTANTS TextAddr, DataAddr,  \* p_vaddr of the two segments
          MemSize,             \* p_memsz of each, a multiple of 4
          Offsets,             \* the r_offset of an entry
          Addends,             \* the r_addend of an entry
          Words,               \* the halfwords the segments are made of
          RelocSizes           \* bound: the sizes of a relocation segment

HalfWord == {h \in Nat : h < 65536}

ASSUME RelocateAssumption ==
  /\ TextAddr \in Int /\ DataAddr \in Int /\ Addends \subseteq Int
  /\ MemSize \in Nat /\ Offsets \subseteq Nat /\ RelocSizes \subseteq Nat
  /\ Words \subseteq HalfWord

VARIABLES
  relocSize,  \* the size of the relocation segment
  rpos,       \* the place of the next entry in it
  mem,        \* the words of text (segment 0) and data (segment 1)
  value,      \* the local that survives from one entry to the next
  patched     \* the word written last: where, by which entry, over what

relocVars == <<relocSize, rpos, mem, value, patched>>

Word == [hi : HalfWord, lo : HalfWord]
Segments == {0, 1}
Places == {o \in Offsets : o + 4 <= MemSize}

Codes == {"V4BX", "ABS32", "REL32", "THM_CALL", "JUMP24", "PREL31", "MOVW",
          "MOVT", "THM_MOVW", "THM_MOVT", "NONE", "unknown"}

Entry == [short : BOOLEAN, code : Codes, offset : Offsets, addend : Addends,
          symseg : {0, 1, 15}, datseg : Segments]

------------------------------------------------------------------------------
vaddr(s) == IF s = 0 THEN TextAddr ELSE DataAddr
symval(e) == IF e.symseg = 15 THEN 0 ELSE vaddr(e.symseg)
loc(e) == vaddr(e.datseg) + e.offset
Absolute(e) == e.addend + symval(e)
Relative(e) == Absolute(e) - loc(e)

(* A number in 32 bits.                                                    *)
ToWord(n) == [hi |-> (n \div 65536) % 65536, lo |-> n % 65536]

Field(h, at, width) == (h \div at) % width
Xnor(a, b) == IF a = b THEN 1 ELSE 0

(* The condition and Rm stay, the rest becomes MOV PC, Rm.                 *)
MovPc(w) == [hi |-> 4096 * (w.hi \div 4096) + 416, lo |-> 61440 + (w.lo % 16)]

(* Faulty: J1 and J2 are the bits of the offset themselves.                *)
ThumbCallPlain(w, n) ==
  LET sign == Field(n, 16777216, 2)
  IN  [lo |-> 2048 * (w.lo \div 2048) + 1024 * sign + Field(n, 4096, 1024),
       hi |-> 16384 * (w.hi \div 16384) + 4096 * Field(w.hi, 4096, 2)
              + 8192 * Field(n, 8388608, 2) + 2048 * Field(n, 4194304, 2)
              + Field(n, 2, 2048)]

(* BL and B.W: sign, imm10 | J1, J2, imm11.                                *)
ThumbCall(w, n) ==
  LET sign == Field(n, 16777216, 2)
  IN  [lo |-> 2048 * (w.lo \div 2048) + 1024 * sign + Field(n, 4096, 1024),
       hi |-> 16384 * (w.hi \div 16384) + 4096 * Field(w.hi, 4096, 2)
              + 8192 * Xnor(sign, Field(n, 8388608, 2))
              + 2048 * Xnor(sign, Field(n, 4194304, 2))
              + Field(n, 2, 2048)]

(* B and BL: the offset in words, 24 bits of it.                           *)
Jump24(w, n) ==
  LET field == Field(n, 4, 16777216)
  IN  [hi |-> 256 * (w.hi \div 256) + field \div 65536, lo |-> field % 65536]

(* MOVW and MOVT with an immediate of 16 bits, ARM and Thumb.              *)
MoveImm(w, n) ==
  [hi |-> 16 * (w.hi \div 16) + Field(n, 4096, 16),
   lo |-> 4096 * (w.lo \div 4096) + (n % 4096)]

ThumbMoveImm(w, n) ==
  [lo |-> 2048 * (w.lo \div 2048) + 1024 * Field(n, 2048, 2)
          + 16 * Field(w.lo, 16, 64) + Field(n, 4096, 16),
   hi |-> 32768 * (w.hi \div 32768) + 4096 * Field(n, 256, 8)
          + 256 * Field(w.hi, 256, 16) + (n % 256)]

(* The two codes that refuse an offset that is too far.                    *)
OutOfRange(e) ==
  \/ e.code = "THM_CALL" /\ (Relative(e) <= -16777216 \/ Relative(e) >= 16777216)
  \/ e.code = "JUMP24" /\ (Relative(e) <= -33554432 \/ Relative(e) >= 33554432)

(* `value' after the switch.  An offset out of range leaves it as it was.  *)
NewValue(e, w) ==
  CASE OutOfRange(e)        -> value
    [] e.code = "V4BX"      -> MovPc(w)
    [] e.code = "ABS32"     -> ToWord(Absolute(e))
    [] e.code = "REL32"     -> ToWord(Relative(e))
    [] e.code = "PREL31"    -> [ToWord(Relative(e)) EXCEPT !.hi = @ % 32768]
    [] e.code = "THM_CALL" /\ ~OutOfRange(e) -> ThumbCall(w, Relative(e))
    [] e.code = "JUMP24" /\ ~OutOfRange(e)   -> Jump24(w, Relative(e))
    [] e.code = "MOVW"      -> MoveImm(w, Absolute(e))
    [] e.code = "MOVT"      -> MoveImm(w, Absolute(e) \div 65536)
    [] e.code = "THM_MOVW"  -> ThumbMoveImm(w, Absolute(e))
    [] e.code = "THM_MOVT"  -> ThumbMoveImm(w, Absolute(e) \div 65536)

------------------------------------------------------------------------------
(* The next entry, read from the segment: a short one has 22 bits for the  *)
(* offset and 22 for the addend.                                           *)
Read(e) ==
  /\ e.short => e.addend >= 0
  /\ rpos' = rpos + (IF e.short THEN 8 ELSE 12)
  /\ UNCHANGED relocSize

(* An entry without effect.  The offset is compared with the size of the   *)
(* relocation segment.                                                     *)
Ignored(e) == e.offset > relocSize \/ e.code \in {"NONE", "unknown"}

Skip(e) ==
  /\ Read(e) /\ Ignored(e)
  /\ UNCHANGED <<mem, value, patched>>

(* uvl_segment_write refuses to write behind the segment; nobody looks at  *)
(* its result.  The word that is read for the switch then lies behind the  *)
(* segment as well.                                                        *)
Refused(e) ==
  /\ Read(e) /\ ~Ignored(e) /\ e.offset \notin Places
  /\ \E w \in [hi : Words, lo : Words] : value' = NewValue(e, w)
  /\ UNCHANGED <<mem, patched>>

Patch(e) ==
  /\ Read(e) /\ ~Ignored(e) /\ e.offset \in Places
  /\ LET w == mem[e.datseg][e.offset]
     IN  /\ value' = NewValue(e, w)
         /\ mem' = [mem EXCEPT ![e.datseg][e.offset] = value']
         /\ patched' = [entry |-> [e EXCEPT !.short = FALSE], over |-> w, set |-> TRUE]

NoEntry == CHOOSE e \in Entry : TRUE

(* `value' is not initialized.                                             *)
RelocateInit ==
  /\ relocSize \in RelocSizes
  /\ rpos = 0
  /\ value \in [hi : Words, lo : Words]
  /\ \E w \in [hi : Words, lo : Words] :
       mem = [s \in Segments |-> [o \in Places |-> w]]
  /\ patched = [entry |-> NoEntry, over |-> value, set |-> FALSE]

uvl_relocate ==
  /\ rpos < relocSize
  /\ \E e \in Entry : Skip(e) \/ Refused(e) \/ Patch(e)

RelocateSpec == RelocateInit /\ [][uvl_relocate]_relocVars

------------------------------------------------------------------------------
(* The encodings read back, as the comments in the code describe them.     *)
(* A field whose highest bit weighs `top' is the number of that sign.      *)
Signed(n, top) == IF n >= top THEN n - 2 * top ELSE n

CallOffset(w) ==
  LET s == Field(w.lo, 1024, 2)
  IN  Signed(16777216 * s + 8388608 * Xnor(s, Field(w.hi, 8192, 2))
             + 4194304 * Xnor(s, Field(w.hi, 2048, 2))
             + 4096 * (w.lo % 1024) + 2 * (w.hi % 2048), 16777216)
JumpOffset(w) == 4 * Signed(65536 * (w.hi % 256) + w.lo, 8388608)
Imm16(w) == 4096 * (w.hi % 16) + (w.lo % 4096)
ThumbImm16(w) ==
  4096 * (w.lo % 16) + 2048 * Field(w.lo, 1024, 2) + 256 * Field(w.hi, 4096, 8)
  + (w.hi % 256)

(* What the processor makes of a patched word: the target of the entry, up *)
(* to the bits that its instruction does not have.                         *)
Reaches(e, w) ==
  CASE e.code = "THM_CALL" -> Relative(e) - CallOffset(w) \in 0 .. 1
    [] e.code = "JUMP24"   -> Relative(e) - JumpOffset(w) \in 0 .. 3
    [] e.code = "MOVW"     -> Imm16(w) = Absolute(e) % 65536
    [] e.code = "MOVT"     -> Imm16(w) = (Absolute(e) \div 65536) % 65536
    [] e.code = "THM_MOVW" -> ThumbImm16(w) = Absolute(e) % 65536
    [] e.code = "THM_MOVT" -> ThumbImm16(w) = (Absolute(e) \div 65536) % 65536
    [] e.code = "ABS32"    -> w = ToWord(Absolute(e))
    [] e.code = "REL32"    -> w = ToWord(Relative(e))
    [] OTHER               -> TRUE

(* The bits that say which instruction it is and which registers it uses.  *)
Opcode(c, w) ==
  CASE c = "THM_CALL"             -> <<w.lo \div 2048, w.hi \div 16384, Field(w.hi, 4096, 2)>>
    [] c = "JUMP24"               -> w.hi \div 256
    [] c \in {"MOVW", "MOVT"}     -> <<w.hi \div 16, w.lo \div 4096>>
    [] c \in {"THM_MOVW", "THM_MOVT"} ->
         <<w.lo \div 2048, Field(w.lo, 16, 64), w.hi \div 32768, Field(w.hi, 256, 16)>>
    [] c = "V4BX"                 -> <<w.hi \div 4096, w.lo % 16>>
    [] OTHER                      -> 0

(* After an entry that is in range the instruction at its place is the one *)
(* that was there, and goes to or loads the target of the entry, up to     *)
(* both ends of the range and for targets before and behind it.            *)
PatchReachesTarget ==
  LET e == patched.entry
      w == mem[e.datseg][e.offset]
  IN  patched.set /\ ~OutOfRange(e) =>
        Reaches(e, w) /\ Opcode(e.code, w) = Opcode(e.code, patched.over)
=============================================================================

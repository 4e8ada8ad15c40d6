----------------------------- MODULE ArzlBranch -----------------------------
(***************************************************************************)
(* arzl_deobfuscate: ARM Thumb code compresses better when a BL holds the  *)
(* absolute address of its target.  Version 1 turns the relative addresses *)
(* into absolute ones, version 0 turns them back, and version 2, which     *)
(* unarzl uses, also exchanges two nibbles of every MOVT.                  *)
(*                                                                         *)
(* The buffer is a sequence of 16-bit halfwords, counted from 0; the one   *)
(* behind the last is what follows the code in memory.  An instruction of  *)
(* two halfwords may begin at any halfword, so the loop goes one halfword  *)
(* back when a word ends with what may be the first half of one.           *)
(***************************************************************************)
EXTENDS Integers

CONSTANTS N,       \* the length in halfwords
          Halves   \* the halfwords the code may consist of

ASSUME ArzlBranchAssumption ==
  /\ N \in Nat
  /\ \A h \in Halves : h \in Nat /\ h < 65536

VARIABLES
  orig,    \* the code before it was obfuscated
  code,    \* the buffer
  at,      \* the halfword `buf' points to at the top of the loop
  version  \* 1 while the code is being obfuscated, then 0 or 2

branchVars == <<orig, code, at, version>>

Cells == 0 .. N

------------------------------------------------------------------------------
(* A halfword: five bits that tell the instruction, and eleven of operand. *)
Tag(h) == h \div 2048
Imm(h) == h % 2048

(* data & 0xF800F800 = 0xF800F000.                                         *)
IsBL(first, second) == Tag(first) = 30 /\ Tag(second) = 31

(* data & 0x8000FBF0 = 0x0000F2C0.                                         *)
IsMOVT(first, second) ==
  /\ Tag(first) = 30 /\ (first \div 16) % 64 = 44
  /\ second < 32768

(* The 22 bits of a BL, moved by `offset' halfwords, and its two halves.   *)
Target(first, second, offset) ==
  (Imm(first) * 2048 + Imm(second) + offset) % 4194304
FirstHalf(v) == 61440 + v \div 2048
SecondHalf(v) == 63488 + (v % 2048)

(* Bits 0 to 3 of a MOVT's first half and bits 8 to 11 of its second.      *)
Nibble(h) == h % 16
HighNibble(h) == (h \div 256) % 16
SetNibble(h, n) == h - Nibble(h) + n
SetHighNibble(h, n) == h + 256 * (n - HighNibble(h))

Put(first, second) == code' = [code EXCEPT ![at] = first, ![at + 1] = second]

(* Faulty: the code that would go back by a halfword does so only for BL.  *)
StrideLate(second) == 2

(* How far to go: change_stride = 30.                                      *)
Stride(second) == IF Tag(second) = 30 THEN 1 ELSE 2

------------------------------------------------------------------------------
(* One round of the loop of each version, the pointer already moved on by  *)
(* two halfwords when the offset is taken.                                 *)

BranchOf(sign) ==
  /\ at < N /\ IsBL(code[at], code[at + 1])
  /\ LET v == Target(code[at], code[at + 1], sign * (at + 2))
     IN  Put(FirstHalf(v), SecondHalf(v))
  /\ at' = at + 2
  /\ UNCHANGED <<orig, version>>

AddOffset == version = 1 /\ BranchOf(1)

SubtractOffset == version \in {0, 2} /\ BranchOf(-1)

SwapNibbles ==
  /\ version = 2 /\ at < N /\ IsMOVT(code[at], code[at + 1])
  /\ Put(SetNibble(code[at], HighNibble(code[at + 1])),
         SetHighNibble(code[at + 1], Nibble(code[at])))
  /\ at' = at + 2
  /\ UNCHANGED <<orig, version>>

OtherWord ==
  /\ at < N /\ ~IsBL(code[at], code[at + 1])
  /\ version = 2 => ~IsMOVT(code[at], code[at + 1])
  /\ at' = at + Stride(code[at + 1])
  /\ UNCHANGED <<orig, code, version>>

(* The code has been obfuscated: it is given to version 0 or 2.            *)
Obfuscated ==
  /\ version = 1 /\ at >= N
  /\ at' = 0 /\ version' \in {0, 2}
  /\ UNCHANGED <<orig, code>>

BranchInit ==
  /\ orig \in [Cells -> Halves] /\ code = orig
  /\ at = 0 /\ version = 1

BranchNext ==
  \/ AddOffset \/ SubtractOffset \/ SwapNibbles \/ OtherWord
  \/ Obfuscated

BranchSpec == BranchInit /\ [][BranchNext]_branchVars

------------------------------------------------------------------------------
(* The reference: every BL of the code, wherever it begins, is moved once. *)

BLAt(q) == q \in 0 .. (N - 1) /\ IsBL(orig[q], orig[q + 1])
MOVTAt(q) == q \in 0 .. (N - 1) /\ IsMOVT(orig[q], orig[q + 1])

Moved(q) == Target(orig[q], orig[q + 1], q + 2)

Obf(q) == CASE BLAt(q)                       -> FirstHalf(Moved(q))
            [] ~BLAt(q) /\ BLAt(q - 1)       -> SecondHalf(Moved(q - 1))
            [] ~BLAt(q) /\ ~BLAt(q - 1)      -> orig[q]

Swapped(q) ==
  CASE MOVTAt(q) -> SetNibble(orig[q], HighNibble(orig[q + 1]))
    [] ~MOVTAt(q) /\ MOVTAt(q - 1) ->
         SetHighNibble(orig[q], Nibble(orig[q - 1]))
    [] ~MOVTAt(q) /\ ~MOVTAt(q - 1) -> orig[q]

(* Each version reaches every BL, also one that begins at an odd halfword  *)
(* or that the word before ends in, and each exactly once: what lies       *)
(* behind the pointer has been treated, what lies ahead has not.  So       *)
(* version 0 gives back the code that version 1 was given, and version 2   *)
(* the same code with the nibbles of every MOVT exchanged.                 *)
EveryBranchOnce ==
  /\ version = 1 => \A q \in Cells : code[q] = IF q < at THEN Obf(q) ELSE orig[q]
  /\ version = 0 => \A q \in Cells : code[q] = IF q < at THEN orig[q] ELSE Obf(q)
  /\ version = 2 => \A q \in Cells : code[q] = IF q < at THEN Swapped(q) ELSE Obf(q)
=============================================================================

---------------------------- MODULE ToolsProofs -----------------------------
(***************************************************************************)
(* The tools that rewrite machine code, for code of any length and for any *)
(* instruction words, the two that put segments into a SELF and take them  *)
(* out of it, for any number of segments, ShipLog's buffer, the decoder of *)
(* unarzl, for streams of any length and any content, and the parser of    *)
(* the NID database, for streams of any length and any depth.              *)
(*                                                                         *)
(* ArzlBranch: EveryBranchOnce.  The argument has three parts:             *)
(*                                                                         *)
(*  - arithmetic: a BL taken apart and put together again is the same BL,  *)
(*    and the offset that was added modulo 2^22 is taken off again (Undone);*)
(*  - recognition: a moved BL is still told to be a BL, nothing else is    *)
(*    told to be one, and instructions never overlap (Recognised);         *)
(*  - the pointer never comes to stand behind the first half of an         *)
(*    instruction (Pointer), the part the one-halfword stride is for: it   *)
(*    is what EveryBranchOnce needs to be inductive.                       *)
(*                                                                         *)
(* Relocate: PatchReachesTarget.  Every encoding of uvl_relocate is read   *)
(* back from the word it makes (one lemma per encoding), for every word    *)
(* that was there and every offset; the loop then only has to keep words   *)
(* words.                                                                  *)
(*                                                                         *)
(* Fself: InjectedComesOut.  Place is where a segment will be when the     *)
(* injector has come past it; that these places stay in order while the    *)
(* correction grows (SelfInOrder) is what keeps one segment from being     *)
(* written over another (InSelf, InElf).                                   *)
(*                                                                         *)
(* ShipLog: OverflowNeedsTwoPrinters.  While no two threads have been in a *)
(* handler at the same time, the one that is there has room for what it    *)
(* appends: between its test and its store others only ever empty the      *)
(* buffer (Room), and it stores a position that was tested (Tested).       *)
(*                                                                         *)
(* Arzl: DecodedInPlace.  What the format says is defined by recursion: a  *)
(* number by its bits, a text and a code by their tokens.  Induction is    *)
(* the lemma of that name, about a set of numbers, from the least number   *)
(* outside of it.  It gives each recursive function (PowExists, BitsExist, *)
(* CoderExists) and one step of it (PowSucc, BitsRead, CoderAppend).  Then *)
(* each reader of bits is shown to read the code of what it yields         *)
(* (LengthRead, DistanceRead), and the copy of a match to repeat the bytes *)
(* before it, round by round (Repeats), which the state between two        *)
(* tokens does not say.                                                    *)
(*                                                                         *)
(* YamlTree: TreeOrProblem.  Describes walks down the tree that was made;  *)
(* the parser never walks, it adds nodes to what is open.  Items says of   *)
(* some nodes that the walk over them takes the events from one place to   *)
(* another, whatever is left to visit after them, so that it holds of an   *)
(* item when it is complete (ItemScalar, ItemClosed) and of the items so   *)
(* far when it joins them (ItemsAppend).  The state between two events is  *)
(* Where: each frame began where the one around it had come to (OpenAt),   *)
(* and libyaml is inside of the same sequences and mappings as the parser, *)
(* one event ahead of it (Levels, Ahead).                                  *)
(*                                                                         *)
(* Many leaves name SMT: the numerals there are too large for Zenon.       *)
(***************************************************************************)
EXTENDS ShipLog, Arzl, ArzlBranch, Relocate, Fself, YamlTree,
        SequenceTheorems, WellFoundedInduction, TLAPS

------------------------------------------------------------------------------
(* Arithmetic.                                                             *)

(* 22 bits are two groups of eleven.                                       *)
LEMMA Splitting ==
  ASSUME NEW v \in Nat, v < 4194304
  PROVE  \E d, r \in Nat : /\ d < 2048 /\ r < 2048
                           /\ v \div 2048 = d /\ v % 2048 = r
                           /\ v = d * 2048 + r
<1>. DEFINE d == v \div 2048
            r == v % 2048
<1>1. d \in Int /\ r \in Int /\ v = 2048 * d + r /\ 0 <= r /\ r < 2048
  BY SMT
<1>. SUFFICES d \in Nat /\ r \in Nat /\ d < 2048 /\ r < 2048 /\ v = d * 2048 + r
  BY SMT
<1>. HIDE DEF d, r
<1>. QED  BY <1>1, SMT

(* The five bits above an operand of eleven, for either half of a BL.      *)
LEMMA Operand ==
  ASSUME NEW k \in Nat, k < 2048
  PROVE  /\ (61440 + k) \div 2048 = 30 /\ (61440 + k) % 2048 = k
         /\ (63488 + k) \div 2048 = 31 /\ (63488 + k) % 2048 = k
<1>2. (61440 + k) \div 2048 = 30 
  BY SMT
<1>3. (63488 + k) \div 2048 = 31
  BY SMT
<1>4. (61440 + k) % 2048 = k
  BY SMT
<1>5. (63488 + k) % 2048 = k
  BY SMT
<1>. QED  BY <1>2, <1>3, <1>4, <1>5, SMT

(* The two halves of a BL with the operand v, and v read from them.        *)
LEMMA Halving ==
  ASSUME NEW v \in Nat, v < 4194304
  PROVE  /\ FirstHalf(v) \in Nat /\ FirstHalf(v) < 65536
         /\ SecondHalf(v) \in Nat /\ SecondHalf(v) < 65536
         /\ Tag(FirstHalf(v)) = 30 /\ Tag(SecondHalf(v)) = 31
         /\ Imm(FirstHalf(v)) * 2048 + Imm(SecondHalf(v)) = v
<1>1. PICK d, r \in Nat : /\ d < 2048 /\ r < 2048
                          /\ v \div 2048 = d /\ v % 2048 = r
                          /\ v = d * 2048 + r
  BY Splitting, SMT
<1>2. /\ (61440 + d) \div 2048 = 30 /\ (61440 + d) % 2048 = d
      /\ (63488 + r) \div 2048 = 31 /\ (63488 + r) % 2048 = r
  BY <1>1, Operand, SMT
<1>3. FirstHalf(v) = 61440 + d /\ SecondHalf(v) = 63488 + r
  BY <1>1, SMT DEF FirstHalf, SecondHalf
<1>4. 61440 + d \in Nat /\ 61440 + d < 65536 /\ 63488 + r \in Nat /\ 63488 + r < 65536
  BY <1>1, SMT
<1>5. /\ Tag(FirstHalf(v)) = 30 /\ Tag(SecondHalf(v)) = 31
      /\ Imm(FirstHalf(v)) = d /\ Imm(SecondHalf(v)) = r
  BY <1>2, <1>3, SMT DEF Tag, Imm
<1>. QED  BY <1>1, <1>3, <1>4, <1>5, SMT

(* A BL is made of nothing but its operand.                                *)
LEMMA Joining ==
  ASSUME NEW a \in Nat, NEW b \in Nat, IsBL(a, b)
  PROVE  /\ Imm(a) * 2048 + Imm(b) \in Nat
         /\ Imm(a) * 2048 + Imm(b) < 4194304
         /\ FirstHalf(Imm(a) * 2048 + Imm(b)) = a
         /\ SecondHalf(Imm(a) * 2048 + Imm(b)) = b
<1>. DEFINE i == a % 2048
            j == b % 2048
            v == i * 2048 + j
<1>1. i \in Nat /\ i < 2048 /\ j \in Nat /\ j < 2048
  BY SMT
<1>2. a = 61440 + i
  BY SMT DEF IsBL, Tag
<1>3. b = 63488 + j
  BY SMT DEF IsBL, Tag
<1>4. Imm(a) * 2048 + Imm(b) = v
  BY SMT DEF Imm
<1>. HIDE DEF i, j
<1>5. v \in Nat /\ v < 4194304
  BY <1>1, SMT
<1>6. v \div 2048 = i
  BY <1>1, SMT
<1>7. v % 2048 = j
  BY <1>1, SMT
<1>. HIDE DEF v
<1>. QED  BY <1>2, <1>3, <1>4, <1>5, <1>6, <1>7, SMT DEF FirstHalf, SecondHalf

(* The 22 bits that are kept of a sum.                                     *)
LEMMA Modulus ==
  ASSUME NEW x \in Int
  PROVE  x % 4194304 \in Nat /\ x % 4194304 < 4194304
BY SMT

(* What version 1 adds, the other versions take off, across a wrap too.    *)
LEMMA Back ==
  ASSUME NEW x \in Nat, x < 4194304, NEW o \in Int
  PROVE  (((x + o) % 4194304) + (-1) * o) % 4194304 = x
BY SMT

(* A moved target has 22 bits.                                             *)
LEMMA OperandInt ==
  ASSUME NEW a \in Nat, NEW b \in Nat, NEW o \in Int
  PROVE  Target(a, b, o) \in Nat /\ Target(a, b, o) < 4194304
<1>1. Imm(a) * 2048 + Imm(b) + o \in Int
  BY SMT DEF Imm
<1>. QED  BY <1>1, Modulus, SMT DEF Target

(* BranchOf(-1) of BranchOf(1) is the BL it was.                           *)
LEMMA Undone ==
  ASSUME NEW a \in Nat, NEW b \in Nat, IsBL(a, b), NEW o \in Int,
         NEW v, v = Target(a, b, o)
  PROVE  LET w == Target(FirstHalf(v), SecondHalf(v), (-1) * o)
         IN  FirstHalf(w) = a /\ SecondHalf(w) = b
<1>. DEFINE x == Imm(a) * 2048 + Imm(b)
<1>1. x \in Nat /\ x < 4194304 /\ FirstHalf(x) = a /\ SecondHalf(x) = b
  BY Joining, SMT
<1>2. v \in Nat /\ v < 4194304
  BY OperandInt, SMT
<1>3. Imm(FirstHalf(v)) * 2048 + Imm(SecondHalf(v)) = v
  BY <1>2, Halving, SMT
<1>4. v = (x + o) % 4194304
  BY SMT DEF Target
<1>. HIDE DEF x
<1>5. Target(FirstHalf(v), SecondHalf(v), (-1) * o) = x
  <2>1. Target(FirstHalf(v), SecondHalf(v), (-1) * o) = (v + (-1) * o) % 4194304
    BY <1>3, SMT DEF Target
  <2>2. (((x + o) % 4194304) + (-1) * o) % 4194304 = x
    BY <1>1, Back, SMT
  <2>. QED  BY <2>1, <2>2, <1>4, SMT
<1>. QED  BY <1>1, <1>5, SMT

(* Which five bits the halves of a BL and of a MOVT begin with.            *)
LEMMA Apart ==
  ASSUME NEW a \in Nat, NEW b \in Nat
  PROVE  /\ IsBL(a, b) => Tag(a) = 30 /\ Tag(b) = 31
         /\ IsMOVT(a, b) => Tag(a) = 30 /\ Tag(b) # 30 /\ Tag(b) # 31
<1>1. b < 32768 => Tag(b) # 30 /\ Tag(b) # 31
  BY SMT DEF Tag
<1>. QED  BY <1>1, SMT DEF IsBL, IsMOVT

(* The exchange of nibbles leaves integers.                                *)
LEMMA Nibbles ==
  ASSUME NEW a \in Nat, NEW b \in Nat
  PROVE  /\ SetNibble(a, HighNibble(b)) \in Int
         /\ SetHighNibble(b, Nibble(a)) \in Int
BY SMT DEF SetNibble, SetHighNibble, Nibble, HighNibble

------------------------------------------------------------------------------
(* Recognition.  A BL and a MOVT begin at different places ...             *)
LEMMA Neighbours ==
  ASSUME orig \in [Cells -> Nat], NEW q \in Int
  PROVE  /\ BLAt(q) => /\ q \in Cells /\ q + 1 \in Cells
                       /\ Tag(orig[q]) = 30 /\ Tag(orig[q + 1]) = 31
                       /\ ~MOVTAt(q)
         /\ MOVTAt(q) => /\ q \in Cells /\ q + 1 \in Cells
                         /\ Tag(orig[q]) = 30
                         /\ Tag(orig[q + 1]) # 30 /\ Tag(orig[q + 1]) # 31
                         /\ ~BLAt(q)
<1>1. ASSUME q \in 0 .. (N - 1)
      PROVE  /\ q \in Cells /\ q + 1 \in Cells
             /\ orig[q] \in Nat /\ orig[q + 1] \in Nat
  BY <1>1, ArzlBranchAssumption, SMT DEF Cells
<1>2. CASE q \in 0 .. (N - 1)
  BY <1>1, <1>2, Apart, SMT DEF BLAt, MOVTAt
<1>. QED  BY <1>2, SMT DEF BLAt, MOVTAt

(* ... and an instruction never begins in the middle of another.           *)
LEMMA Disjoint ==
  ASSUME orig \in [Cells -> Nat], NEW q \in Int, BLAt(q) \/ MOVTAt(q)
  PROVE  ~BLAt(q - 1) /\ ~BLAt(q + 1) /\ ~MOVTAt(q - 1) /\ ~MOVTAt(q + 1)
<1>1. q - 1 \in Int /\ q + 1 \in Int /\ (q - 1) + 1 = q
  BY SMT
<1>. QED  BY <1>1, Neighbours, SMT

(* A moved BL: what it has become, and that it can be moved back.          *)
LEMMA Moving ==
  ASSUME orig \in [Cells -> Nat], NEW q \in Int, BLAt(q)
  PROVE  /\ Obf(q) = FirstHalf(Moved(q)) /\ Obf(q + 1) = SecondHalf(Moved(q))
         /\ Obf(q) \in Nat /\ Obf(q + 1) \in Nat
         /\ Tag(Obf(q)) = 30 /\ Tag(Obf(q + 1)) = 31
         /\ LET w == Target(Obf(q), Obf(q + 1), (-1) * (q + 2))
            IN  FirstHalf(w) = orig[q] /\ SecondHalf(w) = orig[q + 1]
<1>1. q \in Cells /\ q + 1 \in Cells /\ ~BLAt(q + 1) /\ IsBL(orig[q], orig[q + 1])
  BY Neighbours, Disjoint, SMT DEF BLAt
<1>2. orig[q] \in Nat /\ orig[q + 1] \in Nat /\ (q + 1) - 1 = q /\ q + 2 \in Int
  BY <1>1, SMT
<1>3. Obf(q) = FirstHalf(Moved(q)) /\ Obf(q + 1) = SecondHalf(Moved(q))
  BY <1>1, <1>2, SMT DEF Obf
<1>4. Moved(q) = Target(orig[q], orig[q + 1], q + 2)
  BY SMT DEF Moved
<1>5. Moved(q) \in Nat /\ Moved(q) < 4194304
  <2>. DEFINE a == orig[q]
              b == orig[q + 1]
              o == q + 2
  <2>1. a \in Nat /\ b \in Nat /\ o \in Int /\ Moved(q) = Target(a, b, o)
    BY <1>2, <1>4, SMT
  <2>. HIDE DEF a, b, o
  <2>. QED  BY <2>1, OperandInt, SMT
<1>6. /\ FirstHalf(Moved(q)) \in Nat /\ SecondHalf(Moved(q)) \in Nat
      /\ Tag(FirstHalf(Moved(q))) = 30 /\ Tag(SecondHalf(Moved(q))) = 31
  BY <1>5, Halving, SMT
<1>7. LET w == Target(FirstHalf(Moved(q)), SecondHalf(Moved(q)), (-1) * (q + 2))
      IN  FirstHalf(w) = orig[q] /\ SecondHalf(w) = orig[q + 1]
  BY <1>1, <1>2, <1>4, Undone, SMT
<1>. QED  BY <1>3, <1>6, <1>7, SMT

(* Moving the BLs leaves every five-bit tag and every other halfword.      *)
LEMMA Keeping ==
  ASSUME orig \in [Cells -> Nat], NEW q \in Cells
  PROVE  /\ Obf(q) \in Nat /\ Tag(Obf(q)) = Tag(orig[q])
         /\ ~BLAt(q) /\ ~BLAt(q - 1) => Obf(q) = orig[q]
<1>1. q \in Int /\ q - 1 \in Int /\ (q - 1) + 1 = q /\ orig[q] \in Nat
  BY SMT DEF Cells
<1>2. CASE BLAt(q)
  BY <1>1, <1>2, Moving, Neighbours, SMT
<1>3. CASE BLAt(q - 1)
  BY <1>1, <1>3, Moving, Neighbours, SMT
<1>4. CASE ~BLAt(q) /\ ~BLAt(q - 1)
  BY <1>1, <1>4, SMT DEF Obf
<1>. QED  BY <1>2, <1>3, <1>4, SMT

(* What the loop sees at the pointer is what the code had there.           *)
LEMMA Recognised ==
  ASSUME orig \in [Cells -> Nat], NEW q \in Nat, q < N
  PROVE  /\ q \in Cells /\ q + 1 \in Cells
         /\ IsBL(orig[q], orig[q + 1]) <=> BLAt(q)
         /\ IsBL(Obf(q), Obf(q + 1)) <=> BLAt(q)
         /\ IsMOVT(orig[q], orig[q + 1]) <=> MOVTAt(q)
         /\ ~BLAt(q - 1) => (IsMOVT(Obf(q), Obf(q + 1)) <=> MOVTAt(q))
<1>1. /\ q \in Cells /\ q + 1 \in Cells /\ q \in 0 .. (N - 1)
      /\ orig[q] \in Nat /\ orig[q + 1] \in Nat /\ (q + 1) - 1 = q
      /\ q + 1 \in Int
  BY ArzlBranchAssumption, SMT DEF Cells
<1>2. /\ IsBL(orig[q], orig[q + 1]) <=> BLAt(q)
      /\ IsMOVT(orig[q], orig[q + 1]) <=> MOVTAt(q)
  BY <1>1, SMT DEF BLAt, MOVTAt
<1>3. IsBL(Obf(q), Obf(q + 1)) <=> BLAt(q)
  BY <1>1, <1>2, Keeping, SMT DEF IsBL
<1>4. ASSUME ~BLAt(q - 1), ~BLAt(q), ~BLAt(q + 1)
      PROVE  Obf(q) = orig[q] /\ Obf(q + 1) = orig[q + 1]
  BY <1>1, <1>4, Keeping, SMT
<1>5. /\ MOVTAt(q) => ~BLAt(q) /\ ~BLAt(q + 1)
      /\ BLAt(q + 1) => Tag(orig[q + 1]) = 30
  BY <1>1, Neighbours, Disjoint, SMT
<1>6. IsMOVT(Obf(q), Obf(q + 1)) => ~BLAt(q) /\ ~BLAt(q + 1)
  <2>1. /\ Obf(q) \in Nat /\ Obf(q + 1) \in Nat
        /\ Tag(Obf(q + 1)) = Tag(orig[q + 1])
    BY <1>1, Keeping, SMT
  <2>2. IsMOVT(Obf(q), Obf(q + 1)) => Tag(orig[q + 1]) # 30 /\ Tag(orig[q + 1]) # 31
    BY <2>1, Apart, SMT
  <2>3. BLAt(q) => Tag(orig[q + 1]) = 31
    BY <1>1, Neighbours, SMT
  <2>. QED  BY <2>2, <2>3, <1>5, SMT
<1>7. ~BLAt(q - 1) => (IsMOVT(Obf(q), Obf(q + 1)) <=> MOVTAt(q))
  BY <1>2, <1>4, <1>5, <1>6, SMT
<1>. QED  BY <1>1, <1>2, <1>3, <1>7, SMT

(* The three cases of Swapped.                                             *)
LEMMA Swapping ==
  ASSUME NEW q \in Int
  PROVE  /\ ~MOVTAt(q) /\ ~MOVTAt(q - 1) => Swapped(q) = orig[q]
         /\ MOVTAt(q) => Swapped(q) = SetNibble(orig[q], HighNibble(orig[q + 1]))
         /\ ~MOVTAt(q) /\ MOVTAt(q - 1) =>
              Swapped(q) = SetHighNibble(orig[q], Nibble(orig[q - 1]))
BY SMT DEF Swapped
------------------------------------------------------------------------------
(* The invariant.  The pointer never stands inside a BL, nor, in version 2, *)
(* inside a MOVT: neither begins at the halfword before it.                *)
Pointer ==
  /\ at \in Nat /\ at <= N + 1
  /\ ~BLAt(at - 1)
  /\ version = 2 => ~MOVTAt(at - 1)

IInv ==
  /\ orig \in [Cells -> Nat] /\ code \in [Cells -> Int] /\ version \in {0, 1, 2}
  /\ Pointer
  /\ EveryBranchOnce

(* The pointer is at 0 and nothing has been treated.                       *)
LEMMA InitIInv == BranchInit => IInv
<1>. SUFFICES ASSUME BranchInit PROVE IInv
  OBVIOUS
<1>1. orig \in [Cells -> Nat] /\ code = orig /\ at = 0 /\ version = 1
  BY ArzlBranchAssumption, SMT DEF BranchInit
<1>2. ~BLAt(at - 1)
  BY <1>1, SMT DEF BLAt
<1>3. \A q \in Cells : ~(q < at)
  BY <1>1, SMT DEF Cells
<1>. QED  BY <1>1, <1>2, <1>3, ArzlBranchAssumption, SMT DEF IInv, Pointer, EveryBranchOnce

(* Nothing the reference is made of changes.                               *)
LEMMA SameCode ==
  ASSUME orig' = orig
  PROVE  \A q : /\ BLAt(q)' = BLAt(q) /\ MOVTAt(q)' = MOVTAt(q)
                /\ Obf(q)' = Obf(q) /\ Swapped(q)' = Swapped(q)
<1>1. \A q : BLAt(q)' = BLAt(q) /\ MOVTAt(q)' = MOVTAt(q)
  BY Zenon DEF BLAt, MOVTAt
<1>2. \A q : Obf(q)' = Obf(q)
  BY <1>1, SMT DEF Obf, Moved
<1>3. \A q : Swapped(q)' = Swapped(q)
  BY <1>1, SMT DEF Swapped
<1>. QED  BY <1>1, <1>2, <1>3
(* The word at the pointer has not been treated yet.                       *)
LEMMA Reading ==
  ASSUME IInv, at < N
  PROVE  /\ at \in Nat /\ at \in Cells /\ at + 1 \in Cells
         /\ version = 1 => code[at] = orig[at] /\ code[at + 1] = orig[at + 1]
         /\ version # 1 => code[at] = Obf(at) /\ code[at + 1] = Obf(at + 1)
         /\ IsBL(code[at], code[at + 1]) <=> BLAt(at)
         /\ version = 2 => (IsMOVT(code[at], code[at + 1]) <=> MOVTAt(at))
         /\ Tag(code[at + 1]) = Tag(orig[at + 1])
<1>1. at \in Nat /\ at \in Cells /\ at + 1 \in Cells /\ ~(at < at) /\ ~(at + 1 < at)
  BY ArzlBranchAssumption, SMT DEF IInv, Pointer, Cells
<1>2. /\ version = 1 => code[at] = orig[at] /\ code[at + 1] = orig[at + 1]
      /\ version # 1 => code[at] = Obf(at) /\ code[at + 1] = Obf(at + 1)
  BY <1>1, SMT DEF IInv, EveryBranchOnce
<1>3. Tag(Obf(at + 1)) = Tag(orig[at + 1])
  BY <1>1, Keeping, SMT DEF IInv
<1>. QED  BY <1>1, <1>2, <1>3, Recognised, SMT DEF IInv, Pointer

(* A round that writes two halfwords, the ones the reference asks for.     *)
LEMMA WriteWord ==
  ASSUME IInv, at < N, NEW a \in Int, NEW b \in Int,
         Put(a, b), at' = at + 2, orig' = orig, version' = version,
         version = 1 => a = Obf(at) /\ b = Obf(at + 1),
         version = 0 => a = orig[at] /\ b = orig[at + 1],
         version = 2 => a = Swapped(at) /\ b = Swapped(at + 1),
         ~BLAt(at + 1), ~MOVTAt(at + 1)
  PROVE  IInv'
<1>1. at \in Nat /\ at \in Cells /\ at + 1 \in Cells /\ at' - 1 = at + 1
  BY Reading, SMT
<1>2. Pointer'
  <2>1. at' \in Nat /\ at' <= N + 1
    BY <1>1, ArzlBranchAssumption, SMT
  <2>2. BLAt(at - 1)' = BLAt(at + 1) /\ MOVTAt(at - 1)' = MOVTAt(at + 1)
    BY <1>1, SMT DEF BLAt, MOVTAt
  <2>. QED  BY <2>1, <2>2, SMT DEF Pointer
<1>3. code' \in [Cells -> Int] /\ orig' \in [Cells -> Nat] /\ version' \in {0, 1, 2}
  BY <1>1, SMT DEF IInv, Put
<1>4. \A q \in Cells : code'[q] = IF q = at THEN a ELSE IF q = at + 1 THEN b ELSE code[q]
  BY <1>1, SMT DEF IInv, Put
<1>5. \A q \in Cells : q < at' <=> q < at \/ q = at \/ q = at + 1
  BY <1>1, SMT DEF Cells
<1>6. EveryBranchOnce'
  <2>1. \A q \in Cells : version = 1 => code'[q] = IF q < at' THEN Obf(q) ELSE orig[q]
    BY <1>1, <1>4, <1>5, SMT DEF IInv, EveryBranchOnce
  <2>2. \A q \in Cells : version = 0 => code'[q] = IF q < at' THEN orig[q] ELSE Obf(q)
    BY <1>1, <1>4, <1>5, SMT DEF IInv, EveryBranchOnce
  <2>3. \A q \in Cells : version = 2 => code'[q] = IF q < at' THEN Swapped(q) ELSE Obf(q)
    BY <1>1, <1>4, <1>5, SMT DEF IInv, EveryBranchOnce
  <2>. QED  BY <2>1, <2>2, <2>3, SameCode DEF EveryBranchOnce
<1>. QED  BY <1>2, <1>3, <1>6 DEF IInv

(* A round that only moves the pointer, over halfwords that stay.          *)
LEMMA StepOver ==
  ASSUME IInv, NEW k \in {1, 2}, at + k <= N + 1,
         code' = code, at' = at + k, orig' = orig, version' = version,
         \A q \in Cells : at <= q /\ q < at + k =>
            Obf(q) = orig[q] /\ (version = 2 => Swapped(q) = orig[q]),
         ~BLAt(at + k - 1), version = 2 => ~MOVTAt(at + k - 1)
  PROVE  IInv'
<1>1. at \in Nat /\ at' - 1 = at + k - 1
  BY SMT DEF IInv, Pointer
<1>2. Pointer'
  <2>1. at' \in Nat /\ at' <= N + 1
    BY <1>1, ArzlBranchAssumption, SMT
  <2>2. BLAt(at - 1)' = BLAt(at + k - 1) /\ MOVTAt(at - 1)' = MOVTAt(at + k - 1)
    BY <1>1, SMT DEF BLAt, MOVTAt
  <2>. QED  BY <2>1, <2>2, SMT DEF Pointer
<1>3. code' \in [Cells -> Int] /\ orig' \in [Cells -> Nat] /\ version' \in {0, 1, 2}
  BY SMT DEF IInv
<1>5. \A q \in Cells : q < at' <=> q < at \/ (at <= q /\ q < at + k)
  BY <1>1, SMT DEF Cells
<1>6. EveryBranchOnce'
  <2>1. \A q \in Cells : version = 1 => code[q] = IF q < at' THEN Obf(q) ELSE orig[q]
    BY <1>5, SMT DEF IInv, EveryBranchOnce
  <2>2. \A q \in Cells : version = 0 => code[q] = IF q < at' THEN orig[q] ELSE Obf(q)
    BY <1>5, SMT DEF IInv, EveryBranchOnce
  <2>3. \A q \in Cells : version = 2 => code[q] = IF q < at' THEN Swapped(q) ELSE Obf(q)
    BY <1>5, SMT DEF IInv, EveryBranchOnce
  <2>. QED  BY <2>1, <2>2, <2>3, SameCode DEF EveryBranchOnce
<1>. QED  BY <1>2, <1>3, <1>6 DEF IInv
(* Every round of the loop keeps the invariant.                            *)
LEMMA StepIInv == IInv /\ [BranchNext]_branchVars => IInv'
<1>. SUFFICES ASSUME IInv, [BranchNext]_branchVars PROVE IInv'
  OBVIOUS
<1>1. CASE AddOffset
  <2>1. /\ at < N /\ IsBL(code[at], code[at + 1]) /\ version = 1
        /\ at' = at + 2 /\ orig' = orig /\ version' = version
    BY <1>1, SMT DEF AddOffset, BranchOf
  <2>2. /\ BLAt(at) /\ code[at] = orig[at] /\ code[at + 1] = orig[at + 1]
        /\ at \in Nat
    BY <2>1, Reading, SMT
  <2>3. 1 * (at + 2) = at + 2
    BY <2>2, SMT
  <2>4. Put(FirstHalf(Moved(at)), SecondHalf(Moved(at)))
    BY <1>1, <2>2, <2>3, SMT DEF AddOffset, BranchOf, Moved
  <2>5. orig \in [Cells -> Nat] /\ at \in Int
    BY <2>2, SMT DEF IInv
  <2>6. /\ Obf(at) = FirstHalf(Moved(at)) /\ Obf(at + 1) = SecondHalf(Moved(at))
        /\ Obf(at) \in Int /\ Obf(at + 1) \in Int
    BY <2>2, <2>5, Moving, SMT
  <2>7. ~BLAt(at + 1) /\ ~MOVTAt(at + 1)
    BY <2>2, <2>5, Disjoint, SMT
  <2>8. Put(Obf(at), Obf(at + 1))
    BY <2>4, <2>6, SMT
  <2>. QED  BY <2>1, <2>6, <2>7, <2>8, WriteWord, SMT
<1>2. CASE SubtractOffset
  <2>1. /\ at < N /\ IsBL(code[at], code[at + 1]) /\ version \in {0, 2}
        /\ at' = at + 2 /\ orig' = orig /\ version' = version
    BY <1>2, SMT DEF SubtractOffset, BranchOf
  <2>2. /\ BLAt(at) /\ code[at] = Obf(at) /\ code[at + 1] = Obf(at + 1)
        /\ at \in Nat
    BY <2>1, Reading, SMT
  <2>5. orig \in [Cells -> Nat] /\ at \in Int
    BY <2>2, SMT DEF IInv
  <2>3. LET w == Target(Obf(at), Obf(at + 1), (-1) * (at + 2))
        IN  FirstHalf(w) = orig[at] /\ SecondHalf(w) = orig[at + 1]
    BY <2>2, <2>5, Moving, SMT
  <2>4. Put(orig[at], orig[at + 1])
    BY <1>2, <2>2, <2>3, SMT DEF SubtractOffset, BranchOf
  <2>6. orig[at] \in Int /\ orig[at + 1] \in Int
    BY <2>1, <2>5, Reading, SMT
  <2>7. /\ ~BLAt(at + 1) /\ ~MOVTAt(at + 1) /\ ~MOVTAt(at) /\ ~MOVTAt(at - 1)
        /\ at + 1 \in Int /\ (at + 1) - 1 = at
    BY <2>2, <2>5, Disjoint, Neighbours, SMT
  <2>8. Swapped(at) = orig[at] /\ Swapped(at + 1) = orig[at + 1]
    BY <2>5, <2>7, Swapping, SMT
  <2>. QED  BY <2>1, <2>4, <2>6, <2>7, <2>8, WriteWord, SMT
<1>3. CASE SwapNibbles
  <2>1. /\ at < N /\ IsMOVT(code[at], code[at + 1]) /\ version = 2
        /\ at' = at + 2 /\ orig' = orig /\ version' = version
    BY <1>3, SMT DEF SwapNibbles
  <2>2. /\ MOVTAt(at) /\ code[at] = Obf(at) /\ code[at + 1] = Obf(at + 1)
        /\ at \in Nat /\ at \in Cells /\ at + 1 \in Cells
    BY <2>1, Reading, SMT
  <2>3. /\ orig \in [Cells -> Nat] /\ at \in Int /\ at + 1 \in Int
        /\ (at + 1) - 1 = at
    BY <2>2, SMT DEF IInv
  <2>4. /\ ~BLAt(at - 1) /\ ~BLAt(at) /\ ~BLAt(at + 1) /\ ~MOVTAt(at + 1)
    BY <2>2, <2>3, Disjoint, Neighbours, SMT
  <2>5. Obf(at) = orig[at] /\ Obf(at + 1) = orig[at + 1]
    BY <2>2, <2>3, <2>4, Keeping, SMT
  <2>6. /\ Swapped(at) = SetNibble(orig[at], HighNibble(orig[at + 1]))
        /\ Swapped(at + 1) = SetHighNibble(orig[at + 1], Nibble(orig[at]))
    BY <2>2, <2>3, <2>4, Swapping, SMT
  <2>7. Put(Swapped(at), Swapped(at + 1))
    BY <1>3, <2>2, <2>5, <2>6, SMT DEF SwapNibbles
  <2>8. Swapped(at) \in Int /\ Swapped(at + 1) \in Int
    BY <2>2, <2>3, <2>6, Nibbles, SMT
  <2>. QED  BY <2>1, <2>4, <2>7, <2>8, WriteWord, SMT
<1>4. CASE OtherWord
  <2>1. /\ at < N /\ ~IsBL(code[at], code[at + 1])
        /\ version = 2 => ~IsMOVT(code[at], code[at + 1])
        /\ at' = at + Stride(code[at + 1])
        /\ code' = code /\ orig' = orig /\ version' = version
    BY <1>4, SMT DEF OtherWord
  <2>2. /\ ~BLAt(at) /\ (version = 2 => ~MOVTAt(at)) /\ at \in Nat
        /\ at \in Cells /\ at + 1 \in Cells
        /\ Tag(code[at + 1]) = Tag(orig[at + 1])
    BY <2>1, Reading, SMT
  <2>3. /\ orig \in [Cells -> Nat] /\ at \in Int /\ at + 1 \in Int
        /\ (at + 1) - 1 = at /\ (at + 2) - 1 = at + 1 /\ at + 2 <= N + 1
        /\ at + 1 <= N + 1 /\ N \in Nat
    BY <2>1, <2>2, ArzlBranchAssumption, SMT DEF IInv
  <2>4. ~BLAt(at - 1) /\ (version = 2 => ~MOVTAt(at - 1))
    BY SMT DEF IInv, Pointer
  <2>5. Obf(at) = orig[at] /\ (version = 2 => Swapped(at) = orig[at])
    BY <2>2, <2>3, <2>4, Keeping, Swapping, SMT
  <2>6. CASE Tag(code[at + 1]) = 30
    <3>1. at' = at + 1
      BY <2>1, <2>6, SMT DEF Stride
    <3>2. \A q \in Cells : at <= q /\ q < at + 1 => q = at
      BY <2>2, SMT DEF Cells
    <3>3. \A q \in Cells : at <= q /\ q < at + 1 =>
             Obf(q) = orig[q] /\ (version = 2 => Swapped(q) = orig[q])
      BY <2>5, <3>2
    <3>. QED  BY <2>1, <2>2, <2>3, <3>1, <3>3, StepOver, SMT
  <2>7. CASE Tag(code[at + 1]) # 30
    <3>1. at' = at + 2
      BY <2>1, <2>7, SMT DEF Stride
    <3>2. ~BLAt(at + 1) /\ ~MOVTAt(at + 1)
      BY <2>2, <2>3, <2>7, Neighbours, SMT
    <3>3. Obf(at + 1) = orig[at + 1] /\ (version = 2 => Swapped(at + 1) = orig[at + 1])
      BY <2>2, <2>3, <3>2, Keeping, Swapping, SMT
    <3>4. \A q \in Cells : at <= q /\ q < at + 2 => q = at \/ q = at + 1
      BY <2>2, SMT DEF Cells
    <3>5. \A q \in Cells : at <= q /\ q < at + 2 =>
             Obf(q) = orig[q] /\ (version = 2 => Swapped(q) = orig[q])
      BY <2>5, <3>3, <3>4
    <3>. QED  BY <2>1, <2>3, <3>1, <3>2, <3>5, StepOver, SMT
  <2>. QED  BY <2>6, <2>7
<1>5. CASE Obfuscated
  <2>1. /\ version = 1 /\ at >= N /\ at' = 0 /\ version' \in {0, 2}
        /\ orig' = orig /\ code' = code
    BY <1>5, SMT DEF Obfuscated
  <2>2. /\ orig \in [Cells -> Nat] /\ at \in Nat /\ N \in Nat /\ ~BLAt(at - 1)
        /\ at <= N + 1
        /\ \A q \in Cells : code[q] = IF q < at THEN Obf(q) ELSE orig[q]
    BY <2>1, ArzlBranchAssumption, SMT DEF IInv, Pointer, EveryBranchOnce
  <2>3. ASSUME NEW q \in Cells, ~(q < at) PROVE Obf(q) = orig[q]
    <3>1. q = at /\ ~BLAt(q)
      BY <2>1, <2>2, <2>3, SMT DEF Cells, BLAt
    <3>. QED  BY <2>2, <3>1, Keeping, SMT
  <2>4. \A q \in Cells : code[q] = Obf(q) /\ ~(q < 0)
    BY <2>2, <2>3, SMT DEF Cells
  <2>5. EveryBranchOnce'
    BY <2>1, <2>4, SameCode, SMT DEF EveryBranchOnce
  <2>6. Pointer'
    BY <2>1, <2>2, SMT DEF Pointer, BLAt, MOVTAt
  <2>. QED  BY <2>1, <2>5, <2>6, SMT DEF IInv
<1>6. CASE UNCHANGED branchVars
  <2>1. orig' = orig /\ code' = code /\ at' = at /\ version' = version
    BY <1>6 DEF branchVars
  <2>2. EveryBranchOnce' /\ Pointer'
    BY <2>1, SameCode, SMT DEF EveryBranchOnce, Pointer, IInv
  <2>. QED  BY <2>1, <2>2, SMT DEF IInv
<1>. QED  BY <1>1, <1>2, <1>3, <1>4, <1>5, <1>6 DEF BranchNext

(* For code of any length, versions 1, 0 and 2 of arzl_deobfuscate treat   *)
(* every BL (and version 2 every MOVT) exactly once wherever it begins, so *)
(* version 0 gives back what version 1 was given.                          *)
THEOREM BranchesCorrect == BranchSpec => []EveryBranchOnce
<1>1. IInv => EveryBranchOnce
  BY DEF IInv
<1>. QED  BY InitIInv, StepIInv, <1>1, PTL DEF BranchSpec

------------------------------------------------------------------------------
(* Words and their halves.                                                 *)

(* A halfword is a number of 16 bits.                                      *)
LEMMA HalfBounds ==
  ASSUME NEW h
  PROVE  h \in HalfWord <=> h \in Int /\ 0 <= h /\ h < 65536
<1>1. ASSUME h \in HalfWord PROVE h \in Int /\ 0 <= h /\ h < 65536
  BY <1>1, SMT DEF HalfWord
<1>2. ASSUME h \in Int, 0 <= h, h < 65536 PROVE h \in HalfWord
  BY <1>2, SMT DEF HalfWord
<1>. QED  BY <1>1, <1>2

(* A word taken apart.                                                     *)
LEMMA WordHalves ==
  ASSUME NEW w \in Word
  PROVE  \E h, l \in Int : /\ w.hi = h /\ 0 <= h /\ h < 65536
                           /\ w.lo = l /\ 0 <= l /\ l < 65536
<1>1. w.hi \in HalfWord /\ w.lo \in HalfWord
  BY SMT DEF Word
<1>2. PICK h, l \in HalfWord : h = w.hi /\ l = w.lo
  BY <1>1
<1>. QED  BY <1>2, HalfBounds

(* Two halfwords put together.                                             *)
LEMMA WordOf ==
  ASSUME NEW h \in Int, 0 <= h, h < 65536, NEW l \in Int, 0 <= l, l < 65536,
         NEW v, v = [hi |-> h, lo |-> l]
  PROVE  v \in Word /\ v.hi = h /\ v.lo = l
<1>1. h \in HalfWord /\ l \in HalfWord
  BY HalfBounds
<1>2. v \in Word
  BY <1>1, SMT DEF Word
<1>. QED  BY <1>2, SMT

(* A number cut to 32 bits is a word.                                      *)
LEMMA ToWordType ==
  ASSUME NEW n \in Int
  PROVE  \A v : v = ToWord(n) \/ v = [ToWord(n) EXCEPT !.hi = @ % 32768] => v \in Word
<1>1. PICK q \in Int : q = n \div 65536
  BY SMT
<1>2. PICK h, l, g \in Int : h = q % 65536 /\ l = n % 65536 /\ g = h % 32768
  BY SMT
<1>3. 0 <= h /\ h < 65536 /\ 0 <= l /\ l < 65536 /\ 0 <= g /\ g < 65536
  BY <1>2, SMT
<1>4. ToWord(n) = [hi |-> h, lo |-> l]
  BY <1>1, <1>2 DEF ToWord
<1>5. [ToWord(n) EXCEPT !.hi = @ % 32768] = [hi |-> g, lo |-> l]
  BY <1>2, <1>4
<1>. QED  BY <1>3, <1>4, <1>5, WordOf

(* MOV PC, Rm with the condition and the register that were there.         *)
LEMMA MovPcCorrect ==
  ASSUME NEW w \in Word, NEW v, v = MovPc(w)
  PROVE  v \in Word /\ v.hi \div 4096 = w.hi \div 4096 /\ v.lo % 16 = w.lo % 16
<1>1. PICK h, l \in Int : /\ w.hi = h /\ 0 <= h /\ h < 65536
                          /\ w.lo = l /\ 0 <= l /\ l < 65536
  BY WordHalves
<1>2. PICK x, y \in Int : x = 4096 * (h \div 4096) + 416 /\ y = 61440 + (l % 16)
  BY SMT
<1>3. 0 <= x /\ x < 65536 /\ x \div 4096 = h \div 4096
  BY <1>1, <1>2, SMT
<1>4. 0 <= y /\ y < 65536 /\ y % 16 = l % 16
  BY <1>1, <1>2, SMT
<1>5. v = [hi |-> x, lo |-> y]
  BY <1>1, <1>2 DEF MovPc
<1>. QED  BY <1>1, <1>3, <1>4, <1>5, WordOf

------------------------------------------------------------------------------
(* The encodings, read back.                                               *)

(* MOVW and MOVT: the immediate is the low half of n.                      *)
LEMMA MoveImmCorrect ==
  ASSUME NEW w \in Word, NEW n \in Int, NEW v, v = MoveImm(w, n)
  PROVE  /\ v \in Word /\ Imm16(v) = n % 65536
         /\ v.hi \div 16 = w.hi \div 16 /\ v.lo \div 4096 = w.lo \div 4096
<1>1. PICK h, l \in Int : /\ w.hi = h /\ 0 <= h /\ h < 65536
                          /\ w.lo = l /\ 0 <= l /\ l < 65536
  BY WordHalves
<1>2. PICK f, r \in Int : f = Field(n, 4096, 16) /\ r = n % 4096
  BY SMT DEF Field
<1>3. 0 <= f /\ f < 16 /\ 0 <= r /\ r < 4096 /\ 4096 * f + r = n % 65536
  BY <1>2, SMT DEF Field
<1>4. PICK x, y \in Int : x = 16 * (h \div 16) + f /\ y = 4096 * (l \div 4096) + r
  BY SMT
<1>5. 0 <= x /\ x < 65536 /\ x \div 16 = h \div 16 /\ x % 16 = f
  BY <1>1, <1>3, <1>4, SMT
<1>6. 0 <= y /\ y < 65536 /\ y \div 4096 = l \div 4096 /\ y % 4096 = r
  BY <1>1, <1>3, <1>4, SMT
<1>7. v = [hi |-> x, lo |-> y]
  BY <1>1, <1>2, <1>4 DEF MoveImm
<1>. QED  BY <1>1, <1>3, <1>5, <1>6, <1>7, WordOf DEF Imm16

(* The same for Thumb, where the immediate lies in four pieces.            *)
LEMMA ThumbMoveImmCorrect ==
  ASSUME NEW w \in Word, NEW n \in Int, NEW v, v = ThumbMoveImm(w, n)
  PROVE  /\ v \in Word /\ ThumbImm16(v) = n % 65536
         /\ v.lo \div 2048 = w.lo \div 2048 /\ Field(v.lo, 16, 64) = Field(w.lo, 16, 64)
         /\ v.hi \div 32768 = w.hi \div 32768
         /\ Field(v.hi, 256, 16) = Field(w.hi, 256, 16)
<1>1. PICK h, l \in Int : /\ w.hi = h /\ 0 <= h /\ h < 65536
                          /\ w.lo = l /\ 0 <= l /\ l < 65536
  BY WordHalves
<1>2. PICK f, i, t, r \in Int :
        /\ f = Field(n, 4096, 16) /\ i = Field(n, 2048, 2) /\ t = Field(n, 256, 8)
        /\ r = n % 256
  BY SMT DEF Field
<1>3. /\ 0 <= f /\ f < 16 /\ 0 <= i /\ i < 2 /\ 0 <= t /\ t < 8 /\ 0 <= r /\ r < 256
  BY <1>2, SMT DEF Field
<1>4. 4096 * f + 2048 * i + 256 * t + r = n % 65536
  BY <1>2, SMT DEF Field
<1>5. PICK a, b, c, d \in Int :
        /\ a = l \div 2048 /\ b = Field(l, 16, 64)
        /\ c = h \div 32768 /\ d = Field(h, 256, 16)
  BY SMT DEF Field
<1>6. 0 <= a /\ a < 32 /\ 0 <= b /\ b < 64 /\ 0 <= c /\ c < 2 /\ 0 <= d /\ d < 16
  BY <1>1, <1>5, SMT DEF Field
<1>7. PICK x, y \in Int : /\ x = 32768 * c + 4096 * t + 256 * d + r
                          /\ y = 2048 * a + 1024 * i + 16 * b + f
  BY SMT
<1>8. /\ 0 <= x /\ x < 65536 /\ x \div 32768 = c /\ Field(x, 256, 16) = d
      /\ Field(x, 4096, 8) = t /\ x % 256 = r
  BY <1>3, <1>6, <1>7, SMT DEF Field
<1>9. /\ 0 <= y /\ y < 65536 /\ y \div 2048 = a /\ Field(y, 16, 64) = b
      /\ Field(y, 1024, 2) = i /\ y % 16 = f
  BY <1>3, <1>6, <1>7, SMT DEF Field
<1>10. v = [hi |-> x, lo |-> y]
  BY <1>1, <1>2, <1>5, <1>7 DEF ThumbMoveImm
<1>. QED  BY <1>1, <1>4, <1>5, <1>8, <1>9, <1>10, WordOf DEF ThumbImm16

(* B and BL: the offset up to the two bits a word address does not have.   *)
LEMMA Jump24Correct ==
  ASSUME NEW w \in Word, NEW n \in Int, NEW v, v = Jump24(w, n)
  PROVE  /\ v \in Word /\ v.hi \div 256 = w.hi \div 256
         /\ -33554432 < n /\ n < 33554432 => n - JumpOffset(v) \in 0 .. 3
<1>1. PICK h, l \in Int : /\ w.hi = h /\ 0 <= h /\ h < 65536
                          /\ w.lo = l /\ 0 <= l /\ l < 65536
  BY WordHalves
<1>2. PICK f, q, k \in Int : /\ f = Field(n, 4, 16777216)
                             /\ q = n \div 67108864 /\ k = n % 4
  BY SMT DEF Field
<1>3. /\ 0 <= f /\ f < 16777216 /\ 0 <= k /\ k < 4
      /\ n = 67108864 * q + 4 * f + k
  BY <1>2, SMT DEF Field
<1>4. PICK g, y \in Int : g = f \div 65536 /\ y = f % 65536
  BY SMT
<1>5. 0 <= g /\ g < 256 /\ 0 <= y /\ y < 65536 /\ f = 65536 * g + y
  BY <1>3, <1>4, SMT
<1>6. PICK x \in Int : x = 256 * (h \div 256) + g
  BY SMT
<1>7. 0 <= x /\ x < 65536 /\ x \div 256 = h \div 256 /\ x % 256 = g
  BY <1>1, <1>5, <1>6, SMT
<1>8. v = [hi |-> x, lo |-> y]
  BY <1>1, <1>2, <1>4, <1>6 DEF Jump24
<1>9. PICK o \in Int : o = 4 * (IF f >= 8388608 THEN f - 16777216 ELSE f)
  BY SMT
<1>10. -33554432 < n /\ n < 33554432 => n - o = k
  BY <1>3, <1>9, SMT
<1>11. v \in Word /\ v.hi = x /\ v.lo = y
  BY <1>5, <1>7, <1>8, WordOf
<1>12. JumpOffset(v) = o
  BY <1>5, <1>7, <1>9, <1>11, SMT DEF JumpOffset, Signed
<1>. QED  BY <1>1, <1>3, <1>7, <1>10, <1>11, <1>12, SMT

(* BL and B.W of Thumb: the offset up to its lowest bit.                   *)
LEMMA ThumbCallCorrect ==
  ASSUME NEW w \in Word, NEW n \in Int, NEW v, v = ThumbCall(w, n)
  PROVE  /\ v \in Word
         /\ Opcode("THM_CALL", v) = Opcode("THM_CALL", w)
         /\ -16777216 < n /\ n < 16777216 => n - CallOffset(v) \in 0 .. 1
<1>1. PICK h, l \in Int : /\ w.hi = h /\ 0 <= h /\ h < 65536
                          /\ w.lo = l /\ 0 <= l /\ l < 65536
  BY WordHalves
<1>2. PICK s, i, j, t, r \in Int :
        /\ s = Field(n, 16777216, 2) /\ i = Field(n, 8388608, 2)
        /\ j = Field(n, 4194304, 2) /\ t = Field(n, 4096, 1024) /\ r = Field(n, 2, 2048)
  BY SMT DEF Field
<1>3. /\ 0 <= s /\ s < 2 /\ 0 <= i /\ i < 2 /\ 0 <= j /\ j < 2
      /\ 0 <= t /\ t < 1024 /\ 0 <= r /\ r < 2048
  BY <1>2, SMT DEF Field
<1>4. PICK u, z \in Int : u = Xnor(s, i) /\ z = Xnor(s, j)
  BY SMT DEF Xnor
<1>5. 0 <= u /\ u < 2 /\ 0 <= z /\ z < 2 /\ Xnor(s, u) = i /\ Xnor(s, z) = j
  BY <1>3, <1>4, SMT DEF Xnor
<1>6. PICK a, b, c \in Int : a = l \div 2048 /\ b = h \div 16384 /\ c = Field(h, 4096, 2)
  BY SMT DEF Field
<1>7. 0 <= a /\ a < 32 /\ 0 <= b /\ b < 4 /\ 0 <= c /\ c < 2
  BY <1>1, <1>6, SMT DEF Field
<1>8. PICK x, y \in Int : /\ x = 16384 * b + 4096 * c + 8192 * u + 2048 * z + r
                          /\ y = 2048 * a + 1024 * s + t
  BY SMT
<1>9. /\ 0 <= x /\ x < 65536 /\ x \div 16384 = b /\ Field(x, 4096, 2) = c
      /\ Field(x, 8192, 2) = u /\ Field(x, 2048, 2) = z /\ x % 2048 = r
  BY <1>3, <1>5, <1>7, <1>8, SMT DEF Field
<1>10. 0 <= y /\ y < 65536 /\ y \div 2048 = a /\ Field(y, 1024, 2) = s /\ y % 1024 = t
  BY <1>3, <1>7, <1>8, SMT DEF Field
<1>11. v = [hi |-> x, lo |-> y]
  BY <1>1, <1>2, <1>4, <1>6, <1>8 DEF ThumbCall
<1>12. v \in Word /\ v.hi = x /\ v.lo = y
  BY <1>9, <1>10, <1>11, WordOf
<1>13. PICK m \in Int : m = 16777216 * s + 8388608 * i + 4194304 * j + 4096 * t + 2 * r
  BY SMT
<1>14. 0 <= m /\ m < 33554432
  BY <1>3, <1>13, SMT
<1>15. PICK q, k \in Int : n = 33554432 * q + m + k /\ 0 <= k /\ k < 2
  <2>1. PICK q0, q1, q2, q3, q4, q, k \in Int :
          /\ q0 = n \div 2 /\ q1 = n \div 4096 /\ q2 = n \div 4194304
          /\ q3 = n \div 8388608 /\ q4 = n \div 16777216 /\ q = n \div 33554432
          /\ k = n % 2
    BY SMT
  <2>2. n = 2 * q0 + k /\ 0 <= k /\ k < 2
    BY <2>1, SMT
  <2>3. q0 = 2048 * q1 + r
    BY <1>2, <2>1, SMT DEF Field
  <2>4. q1 = 1024 * q2 + t
    BY <1>2, <2>1, SMT DEF Field
  <2>5. q2 = 2 * q3 + j
    BY <1>2, <2>1, SMT DEF Field
  <2>6. q3 = 2 * q4 + i
    BY <1>2, <2>1, SMT DEF Field
  <2>7. q4 = 2 * q + s
    BY <1>2, <2>1, SMT DEF Field
  <2>8. n = 33554432 * q + m + k
    BY <2>2, <2>3, <2>4, <2>5, <2>6, <2>7, <1>13, SMT
  <2>. QED  BY <2>2, <2>8, SMT
<1>16. PICK o \in Int : o = IF m >= 16777216 THEN m - 33554432 ELSE m
  BY SMT
<1>17. -16777216 < n /\ n < 16777216 => n - o = k
  BY <1>14, <1>15, <1>16, SMT
<1>18. CallOffset(v) = o
  BY <1>5, <1>9, <1>10, <1>12, <1>13, <1>16, SMT DEF CallOffset, Signed
<1>19. Opcode("THM_CALL", v) = Opcode("THM_CALL", w)
  BY <1>1, <1>6, <1>9, <1>10, <1>12, SMT DEF Opcode
<1>. QED  BY <1>12, <1>15, <1>17, <1>18, <1>19, SMT

------------------------------------------------------------------------------
(* The loop.                                                               *)

(* The numbers an entry is about are integers.                             *)
LEMMA EntryInts ==
  ASSUME NEW e \in Entry
  PROVE  Absolute(e) \in Int /\ Relative(e) \in Int
<1>1. TextAddr \in Int /\ DataAddr \in Int /\ Addends \subseteq Int /\ Offsets \subseteq Nat
  BY RelocateAssumption, Zenon
<1>2. e.addend \in Int /\ e.offset \in Int
  <2>1. e.addend \in Addends /\ e.offset \in Offsets
    BY Zenon DEF Entry
  <2>2. e.addend \in Int /\ e.offset \in Nat
    BY <1>1, <2>1, Zenon
  <2>. QED  BY <2>2, SMT
<1>3. vaddr(e.symseg) \in Int /\ vaddr(e.datseg) \in Int
  BY <1>1, SMT DEF vaddr
<1>4. symval(e) \in Int
  BY <1>3, SMT DEF symval
<1>. QED  BY <1>2, <1>3, <1>4, SMT DEF Absolute, Relative, loc

(* The value written for an entry is a word, and for one in range it does  *)
(* what the entry asks for to the instruction it replaces.                 *)
LEMMA NewValueCorrect ==
  ASSUME NEW e \in Entry, e.code \notin {"NONE", "unknown"}, value \in Word,
         NEW w \in Word, NEW v, v = NewValue(e, w)
  PROVE  /\ v \in Word
         /\ ~OutOfRange(e) => Reaches(e, v) /\ Opcode(e.code, v) = Opcode(e.code, w)
<1>0. PICK a, n, t \in Int : a = Absolute(e) /\ n = Relative(e) /\ t = a \div 65536
  <2>1. PICK a, n \in Int : a = Absolute(e) /\ n = Relative(e)
    BY EntryInts, Zenon
  <2>2. PICK t \in Int : t = a \div 65536
    BY SMT
  <2>. QED  BY <2>1, <2>2
<1>1. CASE OutOfRange(e)
  BY <1>1, SMT DEF NewValue, OutOfRange
<1>2. CASE ~OutOfRange(e) /\ e.code = "V4BX"
  <2>1. v = MovPc(w)
    BY <1>2, SMT DEF NewValue
  <2>2. Reaches(e, v)
    BY <1>2, SMT DEF Reaches
  <2>. QED  BY <1>2, <2>1, <2>2, MovPcCorrect, SMT DEF Opcode
<1>3. CASE ~OutOfRange(e) /\ e.code = "ABS32"
  <2>1. v = ToWord(a)
    BY <1>0, <1>3, SMT DEF NewValue
  <2>2. v \in Word
    BY <1>0, <2>1, ToWordType, SMT
  <2>3. Opcode(e.code, v) = Opcode(e.code, w)
    BY <1>3, SMT DEF Opcode
  <2>4. Reaches(e, v)
    BY <1>0, <1>3, <2>1, SMT DEF Reaches
  <2>. QED  BY <2>2, <2>3, <2>4
<1>4. CASE ~OutOfRange(e) /\ e.code = "REL32"
  <2>1. v = ToWord(n)
    BY <1>0, <1>4, SMT DEF NewValue
  <2>2. v \in Word
    BY <1>0, <2>1, ToWordType, SMT
  <2>3. Opcode(e.code, v) = Opcode(e.code, w)
    BY <1>4, SMT DEF Opcode
  <2>4. Reaches(e, v)
    BY <1>0, <1>4, <2>1, SMT DEF Reaches
  <2>. QED  BY <2>2, <2>3, <2>4
<1>5. CASE ~OutOfRange(e) /\ e.code = "PREL31"
  <2>1. v = [ToWord(n) EXCEPT !.hi = @ % 32768]
    BY <1>0, <1>5, SMT DEF NewValue
  <2>2. Reaches(e, v) /\ Opcode(e.code, v) = Opcode(e.code, w)
    BY <1>5, SMT DEF Reaches, Opcode
  <2>. QED  BY <1>0, <2>1, <2>2, ToWordType, SMT
<1>6. CASE ~OutOfRange(e) /\ e.code = "THM_CALL"
  <2>1. v = ThumbCall(w, n)
    BY <1>0, <1>6, SMT DEF NewValue
  <2>2. -16777216 < n /\ n < 16777216
    BY <1>0, <1>6, SMT DEF OutOfRange
  <2>3. /\ v \in Word
        /\ -16777216 < n /\ n < 16777216 => n - CallOffset(v) \in 0 .. 1
        /\ Opcode("THM_CALL", v) = Opcode("THM_CALL", w)
    BY <2>1, ThumbCallCorrect, SMT
  <2>. QED  BY <1>0, <1>6, <2>2, <2>3, SMT DEF Reaches
<1>7. CASE ~OutOfRange(e) /\ e.code = "JUMP24"
  <2>1. v = Jump24(w, n)
    BY <1>0, <1>7, SMT DEF NewValue
  <2>2. -33554432 < n /\ n < 33554432
    BY <1>0, <1>7, SMT DEF OutOfRange
  <2>3. v \in Word /\ n - JumpOffset(v) \in 0 .. 3 /\ v.hi \div 256 = w.hi \div 256
    BY <2>1, <2>2, Jump24Correct, SMT
  <2>. QED  BY <1>0, <1>7, <2>3, SMT DEF Reaches, Opcode
<1>8. CASE ~OutOfRange(e) /\ e.code = "MOVW"
  <2>1. v = MoveImm(w, a)
    BY <1>0, <1>8, SMT DEF NewValue
  <2>. QED  BY <1>0, <1>8, <2>1, MoveImmCorrect, SMT DEF Reaches, Opcode
<1>9. CASE ~OutOfRange(e) /\ e.code = "MOVT"
  <2>1. v = MoveImm(w, t)
    BY <1>0, <1>9, SMT DEF NewValue
  <2>. QED  BY <1>0, <1>9, <2>1, MoveImmCorrect, SMT DEF Reaches, Opcode
<1>10. CASE ~OutOfRange(e) /\ e.code = "THM_MOVW"
  <2>1. v = ThumbMoveImm(w, a)
    BY <1>0, <1>10, SMT DEF NewValue
  <2>. QED  BY <1>0, <1>10, <2>1, ThumbMoveImmCorrect, SMT DEF Reaches, Opcode
<1>11. CASE ~OutOfRange(e) /\ e.code = "THM_MOVT"
  <2>1. v = ThumbMoveImm(w, t)
    BY <1>0, <1>11, SMT DEF NewValue
  <2>. QED  BY <1>0, <1>11, <2>1, ThumbMoveImmCorrect, SMT DEF Reaches, Opcode
<1>. QED
  BY <1>1, <1>2, <1>3, <1>4, <1>5, <1>6, <1>7, <1>8, <1>9, <1>10, <1>11, SMT
  DEF Entry, Codes

(* The words and the entry that was applied last.                          *)
RelocTypes ==
  /\ value \in Word
  /\ mem \in [Segments -> [Places -> Word]]

RelocInv == RelocTypes /\ PatchReachesTarget

(* Nothing has been patched.                                               *)
LEMMA RelocInitInv == RelocateInit => RelocInv
<1>. SUFFICES ASSUME RelocateInit PROVE RelocInv
  OBVIOUS
<1>1. [hi : Words, lo : Words] \subseteq Word
  BY RelocateAssumption DEF Word
<1>2. RelocTypes
  BY <1>1, SMT DEF RelocateInit, RelocTypes
<1>3. PatchReachesTarget
  BY SMT DEF RelocateInit, PatchReachesTarget
<1>. QED  BY <1>2, <1>3, SMT DEF RelocInv

(* The place of an entry holds the value that was computed for it, and     *)
(* what an entry says does not depend on its length.                       *)
LEMMA PatchInv ==
  ASSUME RelocInv, NEW e \in Entry, Patch(e)
  PROVE  RelocInv'
<1>. DEFINE x == [e EXCEPT !.short = FALSE]
            w == mem[e.datseg][e.offset]
<1>1. /\ e.code \notin {"NONE", "unknown"} /\ e.offset \in Places /\ e.datseg \in Segments
      /\ value' = NewValue(e, w)
      /\ mem' = [mem EXCEPT ![e.datseg][e.offset] = value']
      /\ patched' = [entry |-> x, over |-> w, set |-> TRUE]
  BY SMT DEF Patch, Ignored, Entry
<1>2. w \in Word /\ value \in Word
  BY <1>1, SMT DEF RelocInv, RelocTypes
<1>3. /\ value' \in Word
      /\ ~OutOfRange(e) => Reaches(e, value') /\ Opcode(e.code, value') = Opcode(e.code, w)
  BY <1>1, <1>2, NewValueCorrect, SMT
<1>4. mem' \in [Segments -> [Places -> Word]] /\ mem'[e.datseg][e.offset] = value'
  BY <1>1, <1>3, SMT DEF RelocInv, RelocTypes
<1>5. /\ x.code = e.code /\ x.offset = e.offset /\ x.addend = e.addend
      /\ x.symseg = e.symseg /\ x.datseg = e.datseg
  BY SMT DEF Entry
<1>6. Absolute(x) = Absolute(e) /\ Relative(x) = Relative(e)
  BY <1>5, SMT DEF Absolute, Relative, symval, loc
<1>7. OutOfRange(x) = OutOfRange(e) /\ Reaches(x, value') = Reaches(e, value')
  BY <1>5, <1>6, SMT DEF OutOfRange, Reaches
<1>8. PatchReachesTarget'
  <2>1. patched'.entry = x /\ patched'.over = w
    BY <1>1
  <2>2. ~OutOfRange(x) => Reaches(x, value') /\ Opcode(x.code, value') = Opcode(x.code, w)
    BY <1>3, <1>5, <1>7
  <2>3. mem'[x.datseg][x.offset] = value'
    BY <1>4, <1>5
  <2>. HIDE DEF x, w
  <2>. QED  BY <2>1, <2>2, <2>3, Zenon DEF PatchReachesTarget
<1>. QED  BY <1>3, <1>4, <1>8, SMT DEF RelocInv, RelocTypes

(* Every round of the loop keeps the invariant.                            *)
LEMMA RelocStepInv == RelocInv /\ [uvl_relocate]_relocVars => RelocInv'
<1>. SUFFICES ASSUME RelocInv, [uvl_relocate]_relocVars PROVE RelocInv'
  OBVIOUS
<1>1. ASSUME value' \in Word, mem' = mem, patched' = patched PROVE RelocInv'
  BY <1>1, SMT DEF RelocInv, RelocTypes, PatchReachesTarget
<1>2. ASSUME NEW e \in Entry, Skip(e) PROVE RelocInv'
  BY <1>1, <1>2, SMT DEF Skip, RelocInv, RelocTypes
<1>3. ASSUME NEW e \in Entry, Refused(e) PROVE RelocInv'
  <2>1. [hi : Words, lo : Words] \subseteq Word
    BY RelocateAssumption DEF Word
  <2>2. PICK w \in Word : value' = NewValue(e, w)
    BY <1>3, <2>1, SMT DEF Refused
  <2>3. value' \in Word
    BY <1>3, <2>2, NewValueCorrect, SMT DEF Refused, Ignored, RelocInv, RelocTypes
  <2>. QED  BY <1>1, <1>3, <2>3, SMT DEF Refused
<1>4. CASE UNCHANGED relocVars
  BY <1>1, <1>4, SMT DEF relocVars, RelocInv, RelocTypes
<1>. QED  BY <1>2, <1>3, <1>4, PatchInv, SMT DEF uvl_relocate

(* For any segments, words and entries: after an entry that is in range    *)
(* the instruction at its place is the one that was there, and goes to or  *)
(* loads the target of the entry.  Addresses are numbers here; the code's  *)
(* 32-bit differences are these as long as they fit in 32 bits.            *)
THEOREM RelocationCorrect == RelocateSpec => []PatchReachesTarget
<1>1. RelocInv => PatchReachesTarget
  BY SMT DEF RelocInv
<1>. QED  BY RelocInitInv, RelocStepInv, <1>1, PTL DEF RelocateSpec

------------------------------------------------------------------------------
(* Injecting segments into a SELF and taking them out of it again.         *)

(* A segment that compress can make fit into its buffer.                   *)
HasRoom(i) == zsize[i] <= p_filesz[i]

(* The loop of the injector, or of the extraction, is past the segment.    *)
Injected(i) == fpc # "inject" \/ i < seg
Extracted(i) == fpc \in {"phdrs", "done"} \/ (fpc = "unmake" /\ i < seg)

(* Where segment i will be when the injector has come past it.             *)
Place(i) == sinfo[i].offset + (IF Injected(i) THEN 0 ELSE correction)

FselfTypes ==
  /\ p_filesz \in [Segs -> Nat] /\ p_offset \in [Segs -> Nat] /\ zsize \in [Segs -> Nat]
  /\ sinfo \in [Segs -> [offset : Nat, length : Nat, compression : {1, 2}]]
  /\ correction \in Nat /\ seg \in Segs
  /\ fpc \in {"inject", "headers", "unmake", "phdrs", "done"}
  /\ fpc = "headers" => seg = 1

(* The segments of the ELF do not overlap, nor its headers.                *)
ElfInOrder ==
  /\ \A i \in Segs : p_offset[i] >= 1
  /\ \A i, j \in Segs : i < j => p_offset[i] + p_filesz[i] <= p_offset[j]

(* The segments of the SELF do not overlap, nor its headers.               *)
SelfInOrder ==
  /\ \A i \in Segs : Place(i) >= 2
  /\ \A i, j \in Segs : i < j => Place(i) + sinfo[i].length <= Place(j)

(* The parts of a segment, from a place of a file on.                      *)
Holds(file, offset, n, kind, i) ==
  \A k \in 1 .. n : /\ offset + k - 1 \in DOMAIN file
                    /\ file[offset + k - 1] = Part(kind, i, k)

(* The segment is where the table, or the program header, says it is.      *)
InSelf(i) ==
  /\ zsize[i] <= sinfo[i].length
  /\ Holds(self_out, sinfo[i].offset, zsize[i], "z", i)
InElf(i) == Holds(elf_out, p_offset[i], p_filesz[i], "p", i)

FselfInv ==
  /\ FselfTypes /\ ElfInOrder /\ SelfInOrder
  /\ \A i \in Segs : HasRoom(i) /\ Injected(i) => InSelf(i)
  /\ \A i \in Segs : HasRoom(i) /\ sinfo[i].compression = 2 /\ Extracted(i) => InElf(i)

(* What is written is there.                                               *)
LEMMA Written ==
  ASSUME NEW file, NEW offset \in Nat, NEW n \in Nat, NEW data,
         NEW m \in Nat, m <= n, NEW kind, NEW i,
         \A k \in 1 .. m : data[k] = Part(kind, i, k),
         NEW new, new = WriteAt(file, offset, n, data)
  PROVE  Holds(new, offset, m, kind, i)
<1>. SUFFICES ASSUME NEW k \in 1 .. m
     PROVE  offset + k - 1 \in DOMAIN new /\ new[offset + k - 1] = Part(kind, i, k)
  BY DEF Holds
<1>1. PICK p \in Int : p = offset + k - 1
  OBVIOUS
<1>2. p \in offset .. (offset + n - 1) /\ p - offset + 1 = k
  BY <1>1
<1>3. p \in DOMAIN new /\ new[p] = data[k]
  BY <1>2 DEF WriteAt
<1>. QED  BY <1>1, <1>3

(* What lies outside of the places that are written stays.                 *)
LEMMA Kept ==
  ASSUME NEW file, NEW offset \in Nat, NEW n \in Nat, NEW data,
         NEW o \in Nat, NEW m \in Nat, NEW kind, NEW i,
         o + m <= offset \/ offset + n <= o,
         Holds(file, o, m, kind, i),
         NEW new, new = WriteAt(file, offset, n, data)
  PROVE  Holds(new, o, m, kind, i)
<1>. SUFFICES ASSUME NEW k \in 1 .. m
     PROVE  o + k - 1 \in DOMAIN new /\ new[o + k - 1] = Part(kind, i, k)
  BY DEF Holds
<1>1. PICK p \in Int : p = o + k - 1
  OBVIOUS
<1>2. p \in DOMAIN file /\ file[p] = Part(kind, i, k)
  BY <1>1 DEF Holds
<1>3. p \notin offset .. (offset + n - 1)
  BY <1>1
<1>4. p \in DOMAIN new /\ new[p] = file[p]
  BY <1>2, <1>3 DEF WriteAt
<1>. QED  BY <1>1, <1>2, <1>4

(* The table and the layout of both files at the start.                    *)
LEMMA FselfStart == FselfInit => FselfInv
<1>. SUFFICES ASSUME FselfInit PROVE FselfInv
  OBVIOUS
<1>. USE FselfAssumption
<1>1. PICK offset \in [Segs -> 2 .. MaxPlace], length \in [Segs -> 1 .. MaxSeg],
           compression \in [Segs -> {1, 2}] :
        /\ InOrder(offset, length)
        /\ sinfo = [i \in Segs |-> [offset |-> offset[i], length |-> length[i],
                                    compression |-> compression[i]]]
  BY DEF FselfInit
<1>2. /\ correction = 0 /\ seg = 1 /\ fpc = "inject"
      /\ p_filesz \in [Segs -> Nat] /\ p_offset \in [Segs -> Nat] /\ zsize \in [Segs -> Nat]
      /\ \A i \in Segs : p_offset[i] >= 1
      /\ InOrder(p_offset, p_filesz)
  BY DEF FselfInit
<1>3. FselfTypes
  <2>1. sinfo \in [Segs -> [offset : Nat, length : Nat, compression : {1, 2}]]
    <3>1. \A i \in Segs : offset[i] \in Nat /\ length[i] \in Nat /\ compression[i] \in {1, 2}
      OBVIOUS
    <3>. QED  BY <1>1, <3>1
  <2>2. seg \in Segs
    BY <1>2 DEF Segs
  <2>. QED  BY <1>2, <2>1, <2>2 DEF FselfTypes
<1>4. \A i \in Segs : ~Injected(i) /\ ~Extracted(i)
  BY <1>2 DEF Injected, Extracted, Segs
<1>5. \A i \in Segs : Place(i) = offset[i] /\ sinfo[i].length = length[i] /\ offset[i] >= 2
  BY <1>1, <1>2, <1>4 DEF Place
<1>6. SelfInOrder
  BY <1>1, <1>5 DEF SelfInOrder, InOrder
<1>7. ElfInOrder
  BY <1>2 DEF ElfInOrder, InOrder
<1>. QED  BY <1>3, <1>4, <1>6, <1>7 DEF FselfInv

(* Where a loop stands after its step.                                     *)
LEMMA LoopStep ==
  ASSUME seg \in Segs, NEW pc, NextSegment(pc), pc # fpc
  PROVE  /\ seg' \in Segs /\ fpc' \in {fpc, pc} /\ (fpc' = pc => seg' = 1)
         /\ \A i \in Segs : (fpc' # fpc \/ i < seg') <=> (i < seg \/ i = seg)
BY FselfAssumption DEF NextSegment, Segs

(* The entry of the segment at hand, after it has grown by g.              *)
Grown(g) ==
  /\ sinfo' \in [Segs -> [offset : Nat, length : Nat, compression : {1, 2}]]
  /\ sinfo'[seg].offset = sinfo[seg].offset + correction
  /\ sinfo'[seg].length = sinfo[seg].length + g
  /\ \A i \in Segs : sinfo'[i].compression = sinfo[i].compression
  /\ \A i \in Segs : i # seg => sinfo'[i] = sinfo[i]

(* The injector's loop: the segment at hand gets its place, the segments   *)
(* behind it move on by as much as it has grown.                           *)
LEMMA Shift ==
  ASSUME FselfInv, fpc = "inject", NextSegment("headers"), NEW g \in Nat,
         correction' = correction + g,
         Grown(g),
         UNCHANGED <<p_filesz, p_offset, zsize>>
  PROVE  /\ FselfTypes' /\ ElfInOrder' /\ SelfInOrder'
         /\ \A i \in Segs : Injected(i)' <=> Injected(i) \/ i = seg
         /\ \A i \in Segs : ~Extracted(i)'
         /\ \A i \in Segs : HasRoom(i)' = HasRoom(i) /\ sinfo'[i].compression = sinfo[i].compression
<1>1. FselfTypes /\ ElfInOrder /\ SelfInOrder /\ seg \in Segs
  BY DEF FselfInv, FselfTypes
<1>2. /\ seg' \in Segs /\ fpc' \in {"inject", "headers"} /\ (fpc' = "headers" => seg' = 1)
      /\ \A i \in Segs : (fpc' # "inject" \/ i < seg') <=> (i < seg \/ i = seg)
  BY <1>1, LoopStep
<1>3. \A i \in Segs : Injected(i)' <=> i < seg \/ i = seg
  BY <1>2 DEF Injected
<1>4. \A i \in Segs : Injected(i) <=> i < seg
  BY DEF Injected
<1>5. \A i \in Segs : ~Extracted(i)'
  BY <1>2 DEF Extracted
<1>6. /\ sinfo' \in [Segs -> [offset : Nat, length : Nat, compression : {1, 2}]]
      /\ sinfo'[seg].offset = sinfo[seg].offset + correction
      /\ sinfo'[seg].length = sinfo[seg].length + g
      /\ \A i \in Segs : sinfo'[i].compression = sinfo[i].compression
      /\ \A i \in Segs : i # seg => sinfo'[i] = sinfo[i]
  BY DEF Grown
<1>7. FselfTypes'
  BY <1>1, <1>2, <1>6 DEF FselfTypes
<1>8. ElfInOrder'
  BY <1>1 DEF ElfInOrder
<1>9. \A i \in Segs : sinfo[i].offset \in Nat /\ sinfo[i].length \in Nat /\ correction \in Nat
  BY <1>1 DEF FselfTypes
<1>10. ASSUME NEW i \in Segs
       PROVE  /\ Place(i) \in Nat
              /\ Place(i)' = Place(i) + (IF i > seg THEN g ELSE 0)
              /\ sinfo'[i].length = sinfo[i].length + (IF i = seg THEN g ELSE 0)
  <2>0. i \in Int /\ seg \in Int
    BY <1>1 DEF Segs
  <2>1. Place(i) \in Nat
    BY <1>9 DEF Place
  <2>2. CASE i < seg
    BY <1>3, <1>4, <1>6, <1>9, <2>0, <2>1, <2>2 DEF Place
  <2>3. CASE i = seg
    <3>1. Injected(i)' /\ ~Injected(i)
      BY <1>3, <1>4, <2>0, <2>3
    <3>. QED  BY <1>6, <1>9, <2>0, <2>1, <2>3, <3>1 DEF Place
  <2>4. CASE i > seg
    <3>1. ~Injected(i)' /\ ~Injected(i)
      BY <1>3, <1>4, <2>0, <2>4
    <3>. QED  BY <1>6, <1>9, <2>0, <2>1, <2>4, <3>1 DEF Place
  <2>. QED  BY <2>0, <2>1, <2>2, <2>3, <2>4
<1>12. SelfInOrder'
  <2>1. \A i \in Segs : Place(i)' >= 2
    BY <1>1, <1>10 DEF SelfInOrder
  <2>2. ASSUME NEW i \in Segs, NEW j \in Segs, i < j
        PROVE  Place(i)' + sinfo'[i].length <= Place(j)'
    <3>1. Place(i) + sinfo[i].length <= Place(j) /\ i \in Int /\ j \in Int /\ seg \in Int
      BY <1>1, <2>2 DEF SelfInOrder, Segs
    <3>2. /\ Place(i) \in Nat /\ Place(i)' = Place(i) + (IF i > seg THEN g ELSE 0)
          /\ sinfo'[i].length = sinfo[i].length + (IF i = seg THEN g ELSE 0)
          /\ Place(j) \in Nat /\ Place(j)' = Place(j) + (IF j > seg THEN g ELSE 0)
          /\ sinfo[i].length \in Nat
      BY <1>9, <1>10
    <3>. QED  BY <2>2, <3>1, <3>2
  <2>. QED  BY <2>1, <2>2 DEF SelfInOrder
<1>13. \A i \in Segs : HasRoom(i)' = HasRoom(i)
  BY DEF HasRoom
<1>. QED  BY <1>3, <1>4, <1>5, <1>6, <1>7, <1>8, <1>12, <1>13

(* compress wrote the segment behind everything that was written before.   *)
LEMMA InjectInv == FselfInv /\ InjectSegment => FselfInv'
<1>. SUFFICES ASSUME FselfInv, InjectSegment PROVE FselfInv'
  OBVIOUS
<1>1. FselfTypes /\ SelfInOrder /\ seg \in Segs /\ fpc = "inject" /\ seg \in Int
  BY DEF FselfInv, FselfTypes, InjectSegment, Segs
<1>2. PICK off, sz, g \in Nat :
        /\ off = sinfo[seg].offset + correction
        /\ sz = sinfo[seg].length + g /\ sz >= zsize[seg]
        /\ sz = IF sinfo[seg].length < zsize[seg] THEN zsize[seg] ELSE sinfo[seg].length
        /\ g = Grow(seg)
  <2>1. sinfo[seg].offset \in Nat /\ sinfo[seg].length \in Nat /\ zsize[seg] \in Nat /\ correction \in Nat
    BY <1>1 DEF FselfTypes
  <2>2. PICK o, l, z, c \in Nat : /\ o = sinfo[seg].offset /\ l = sinfo[seg].length
                                  /\ z = zsize[seg] /\ c = correction
    BY <2>1
  <2>3. PICK g \in Nat : g = IF l < z THEN z - l ELSE 0
    <3>1. (IF l < z THEN z - l ELSE 0) \in Nat
      BY <2>2
    <3>. QED  BY <3>1
  <2>4. o + c \in Nat /\ l + g \in Nat /\ l + g >= z /\ l + g = (IF l < z THEN z ELSE l)
    BY <2>3
  <2>. QED  BY <2>2, <2>3, <2>4 DEF Grow
<1>3. /\ sinfo' = [sinfo EXCEPT ![seg] = [offset |-> off, length |-> sz,
                                          compression |-> sinfo[seg].compression]]
      /\ self_out' = WriteAt(self_out, off, sz, Compressed(seg, sz))
      /\ correction' = correction + g /\ NextSegment("headers")
      /\ UNCHANGED <<p_filesz, p_offset, zsize, elf_out>>
  BY <1>2 DEF InjectSegment
<1>5. /\ sinfo'[seg].offset = off /\ sinfo'[seg].length = sz
      /\ \A i \in Segs : i # seg => sinfo'[i] = sinfo[i]
  BY <1>1, <1>3 DEF FselfTypes
<1>9. Grown(g)
  BY <1>1, <1>2, <1>3, <1>5 DEF FselfTypes, Grown
<1>4. /\ FselfTypes' /\ ElfInOrder' /\ SelfInOrder'
      /\ \A i \in Segs : Injected(i)' <=> Injected(i) \/ i = seg
      /\ \A i \in Segs : ~Extracted(i)'
      /\ \A i \in Segs : HasRoom(i)' = HasRoom(i)
  BY <1>1, <1>3, <1>9, Shift
<1>6. Holds(self_out', off, zsize[seg], "z", seg)
  <2>1. zsize[seg] \in Nat /\ \A k \in 1 .. zsize[seg] : Compressed(seg, sz)[k] = Part("z", seg, k)
    BY <1>1, <1>2 DEF FselfTypes, Compressed
  <2>2. PICK m, data : m = zsize[seg] /\ data = Compressed(seg, sz)
    OBVIOUS
  <2>. QED  BY <1>2, <1>3, <2>1, <2>2, Written
<1>7. ASSUME NEW i \in Segs, i < seg, InSelf(i)
      PROVE  Holds(self_out', sinfo[i].offset, zsize[i], "z", i)
  <2>1. Place(i) = sinfo[i].offset /\ Place(seg) = off
    BY <1>1, <1>2, <1>7 DEF Place, Injected, FselfTypes
  <2>2. PICK o, l, m \in Nat : o = sinfo[i].offset /\ l = sinfo[i].length /\ m = zsize[i]
    BY <1>1 DEF FselfTypes
  <2>3. o + m <= off
    <3>1. Place(i) + sinfo[i].length <= Place(seg)
      BY <1>1, <1>7 DEF SelfInOrder
    <3>2. o + l <= off /\ m <= l
      BY <1>7, <2>1, <2>2, <3>1 DEF InSelf
    <3>. QED  BY <1>2, <2>2, <3>2
  <2>4. Holds(self_out, o, m, "z", i)
    BY <1>7, <2>2 DEF InSelf
  <2>5. Holds(self_out', o, m, "z", i)
    BY <1>2, <1>3, <2>3, <2>4, Kept
  <2>. QED  BY <2>2, <2>5
<1>8. ASSUME NEW i \in Segs, HasRoom(i)', Injected(i)'
      PROVE  InSelf(i)'
  <2>1. CASE i = seg
    <3>1. zsize'[i] = zsize[seg] /\ sinfo'[i].offset = off /\ sinfo'[i].length = sz
      BY <1>3, <1>5, <2>1
    <3>2. Holds(self_out', sinfo'[i].offset, zsize'[i], "z", i)
      BY <1>6, <2>1, <3>1
    <3>. QED  BY <1>2, <3>1, <3>2 DEF InSelf
  <2>2. CASE i # seg
    <3>1. Injected(i) /\ HasRoom(i) /\ i < seg
      BY <1>1, <1>4, <1>8, <2>2 DEF Injected
    <3>2. InSelf(i)
      BY <3>1 DEF FselfInv
    <3>. QED  BY <1>3, <1>5, <1>7, <2>2, <3>1, <3>2 DEF InSelf
  <2>. QED  BY <2>1, <2>2
<1>. QED  BY <1>4, <1>8 DEF FselfInv

(* A segment that is left out only gets its new place.                     *)
LEMMA SkipInv == FselfInv /\ SkipSegment => FselfInv'
<1>. SUFFICES ASSUME FselfInv, SkipSegment PROVE FselfInv'
  OBVIOUS
<1>1. FselfTypes /\ seg \in Segs /\ fpc = "inject" /\ seg \in Int
  BY DEF FselfInv, FselfTypes, SkipSegment, Segs
<1>2. /\ correction' = correction + 0 /\ NextSegment("headers")
      /\ sinfo' = [sinfo EXCEPT ![seg].offset = sinfo[seg].offset + correction]
      /\ UNCHANGED <<p_filesz, p_offset, zsize, self_out, elf_out>>
  BY <1>1 DEF SkipSegment, FselfTypes
<1>3. Grown(0)
  <2>1. PICK o, l, c : /\ o \in Nat /\ l \in Nat /\ c \in {1, 2}
                       /\ sinfo[seg] = [offset |-> o, length |-> l, compression |-> c]
    BY <1>1 DEF FselfTypes
  <2>2. l + 0 = l /\ o + correction \in Nat
    BY <1>1, <2>1 DEF FselfTypes
  <2>3. sinfo' = [sinfo EXCEPT ![seg] =
                    [offset |-> o + correction, length |-> l, compression |-> c]]
    <3>1. sinfo' = [sinfo EXCEPT ![seg] = [sinfo[seg] EXCEPT !.offset = o + correction]]
      BY <1>1, <1>2, <2>1 DEF FselfTypes
    <3>2. [sinfo[seg] EXCEPT !.offset = o + correction]
            = [offset |-> o + correction, length |-> l, compression |-> c]
      BY <2>1
    <3>. QED  BY <3>1, <3>2
  <2>. QED  BY <1>1, <2>1, <2>2, <2>3 DEF FselfTypes, Grown
<1>4. /\ FselfTypes' /\ ElfInOrder' /\ SelfInOrder'
      /\ \A i \in Segs : Injected(i)' <=> Injected(i) \/ i = seg
      /\ \A i \in Segs : ~Extracted(i)'
      /\ \A i \in Segs : HasRoom(i)' = HasRoom(i)
  BY <1>1, <1>2, <1>3, Shift
<1>5. \A i \in Segs : i # seg => sinfo'[i] = sinfo[i]
  BY <1>1, <1>2 DEF FselfTypes
<1>6. ~HasRoom(seg)
  BY <1>1 DEF SkipSegment, HasRoom, FselfTypes
<1>7. ASSUME NEW i \in Segs, HasRoom(i)', Injected(i)'
      PROVE  InSelf(i)'
  <2>1. HasRoom(i) /\ i # seg /\ Injected(i)
    BY <1>4, <1>6, <1>7
  <2>2. InSelf(i)
    BY <2>1 DEF FselfInv
  <2>. QED  BY <1>2, <1>5, <2>1, <2>2 DEF InSelf
<1>. QED  BY <1>4, <1>7 DEF FselfInv

(* Nothing moves in the SELF once the injector's loop has ended.           *)
LEMMA Settled ==
  ASSUME FselfInv, fpc # "inject", FselfTypes', fpc' # "inject",
         UNCHANGED <<p_filesz, p_offset, zsize, sinfo>>
  PROVE  ElfInOrder' /\ SelfInOrder'
<1>1. FselfTypes /\ ElfInOrder /\ SelfInOrder
  BY DEF FselfInv
<1>2. ElfInOrder'
  BY <1>1 DEF ElfInOrder
<1>3. \A i \in Segs : Place(i)' = Place(i) /\ sinfo'[i] = sinfo[i]
  BY DEF Place, Injected
<1>. QED  BY <1>1, <1>2, <1>3 DEF SelfInOrder

(* The headers end before the first segment of the SELF.                   *)
LEMMA WriteHeadersInv == FselfInv /\ WriteHeaders => FselfInv'
<1>. SUFFICES ASSUME FselfInv, WriteHeaders PROVE FselfInv'
  OBVIOUS
<1>1. /\ FselfTypes /\ SelfInOrder /\ fpc = "headers" /\ fpc' = "unmake" /\ seg = 1
      /\ self_out' = WriteAt(self_out, 0, 2, [k \in 1 .. 2 |-> Header])
      /\ UNCHANGED <<p_filesz, p_offset, zsize, sinfo, correction, seg, elf_out>>
  BY DEF FselfInv, FselfTypes, WriteHeaders
<1>2. FselfTypes'
  BY <1>1 DEF FselfTypes
<1>3. ElfInOrder' /\ SelfInOrder'
  BY <1>1, <1>2, Settled
<1>4. ASSUME NEW i \in Segs, HasRoom(i)', Injected(i)'
      PROVE  InSelf(i)'
  <2>1. HasRoom(i) /\ Injected(i)
    BY <1>1, <1>4 DEF HasRoom, Injected
  <2>2. InSelf(i)
    BY <2>1 DEF FselfInv
  <2>3. Place(i) = sinfo[i].offset + 0 /\ Place(i) >= 2
    BY <1>1, <2>1 DEF Place, SelfInOrder
  <2>4. PICK o, m \in Nat : o = sinfo[i].offset /\ m = zsize[i]
    BY <1>1 DEF FselfTypes
  <2>5. 0 + 2 <= o
    BY <2>3, <2>4
  <2>6. Holds(self_out, o, m, "z", i)
    BY <2>2, <2>4 DEF InSelf
  <2>7. PICK data : data = [k \in 1 .. 2 |-> Header]
    OBVIOUS
  <2>8. Holds(self_out', o, m, "z", i)
    BY <1>1, <2>5, <2>6, <2>7, Kept
  <2>. QED  BY <1>1, <2>2, <2>4, <2>8 DEF InSelf
<1>5. \A i \in Segs : ~Extracted(i)'
  BY <1>1 DEF Extracted, Segs
<1>. QED  BY <1>2, <1>3, <1>4, <1>5 DEF FselfInv

(* uncompress finds the segment where the table says it is, and the        *)
(* segments that were taken out before it lie in front of its place.       *)
LEMMA ExtractInv == FselfInv /\ ExtractSegment => FselfInv'
<1>. SUFFICES ASSUME FselfInv, ExtractSegment PROVE FselfInv'
  OBVIOUS
<1>1. /\ FselfTypes /\ ElfInOrder /\ fpc = "unmake" /\ seg \in Segs /\ seg \in Int
      /\ NextSegment("phdrs")
      /\ UNCHANGED <<p_filesz, p_offset, zsize, sinfo, correction, self_out>>
  BY DEF FselfInv, FselfTypes, ExtractSegment, Segs
<1>2. /\ seg' \in Segs /\ fpc' \in {"unmake", "phdrs"}
      /\ \A i \in Segs : (fpc' # "unmake" \/ i < seg') <=> (i < seg \/ i = seg)
  BY <1>1, LoopStep
<1>3. FselfTypes'
  BY <1>1, <1>2 DEF FselfTypes
<1>4. ElfInOrder' /\ SelfInOrder'
  BY <1>1, <1>2, <1>3, Settled
<1>5. ASSUME NEW i \in Segs, HasRoom(i)', Injected(i)'
      PROVE  InSelf(i)'
  <2>1. InSelf(i)
    BY <1>1, <1>5 DEF FselfInv, HasRoom, Injected
  <2>. QED  BY <1>1, <2>1 DEF InSelf
<1>6. PICK off, n \in Nat : off = p_offset[seg] /\ n = p_filesz[seg]
  BY <1>1 DEF FselfTypes
<1>7. PICK data :
        /\ elf_out' = WriteAt(elf_out, off, n, data)
        /\ HasRoom(seg) /\ sinfo[seg].compression = 2 => data = Plain(seg)
  <2>1. ASSUME HasRoom(seg)
        PROVE  Uncompresses(ReadAt(self_out, sinfo[seg].offset, sinfo[seg].length),
                            sinfo[seg].length, seg)
    <3>1. InSelf(seg)
      BY <1>1, <2>1 DEF FselfInv, Injected
    <3>2. PICK o, l, m \in Nat : o = sinfo[seg].offset /\ l = sinfo[seg].length /\ m = zsize[seg]
      BY <1>1 DEF FselfTypes
    <3>3. m <= l /\ Holds(self_out, o, m, "z", seg)
      BY <3>1, <3>2 DEF InSelf
    <3>4. ASSUME NEW k \in 1 .. m
          PROVE  ReadAt(self_out, o, l)[k] = Part("z", seg, k)
      <4>1. k \in 1 .. l
        BY <3>2, <3>3
      <4>2. o + k - 1 \in DOMAIN self_out /\ self_out[o + k - 1] = Part("z", seg, k)
        BY <3>3 DEF Holds
      <4>. QED  BY <4>1, <4>2 DEF ReadAt
    <3>. QED  BY <3>2, <3>3, <3>4 DEF Uncompresses
  <2>. QED  BY <1>6, <2>1 DEF ExtractSegment
<1>8. ASSUME NEW i \in Segs, HasRoom(i)', sinfo'[i].compression = 2, Extracted(i)'
      PROVE  InElf(i)'
  <2>1. HasRoom(i) /\ sinfo[i].compression = 2 /\ (i < seg \/ i = seg)
    BY <1>1, <1>2, <1>8 DEF HasRoom, Extracted
  <2>2. PICK o, m \in Nat : o = p_offset[i] /\ m = p_filesz[i]
    BY <1>1 DEF FselfTypes
  <2>3. CASE i = seg
    <3>1. \A k \in 1 .. n : data[k] = Part("p", seg, k)
      BY <1>6, <1>7, <2>1, <2>3 DEF Plain
    <3>2. Holds(elf_out', off, n, "p", seg)
      BY <1>6, <1>7, <3>1, Written
    <3>. QED  BY <1>1, <1>6, <2>3, <3>2 DEF InElf
  <2>4. CASE i < seg
    <3>1. o + m <= off
      BY <1>1, <1>6, <2>2, <2>4 DEF ElfInOrder
    <3>2. Extracted(i)
      BY <1>1, <2>4 DEF Extracted
    <3>3. Holds(elf_out, o, m, "p", i)
      BY <2>1, <2>2, <3>2 DEF FselfInv, InElf
    <3>4. Holds(elf_out', o, m, "p", i)
      BY <1>6, <1>7, <2>2, <3>1, <3>3, Kept
    <3>. QED  BY <1>1, <2>2, <3>4 DEF InElf
  <2>. QED  BY <2>1, <2>3, <2>4
<1>. QED  BY <1>3, <1>4, <1>5, <1>8 DEF FselfInv

(* The ELF's headers end before its first segment.                         *)
LEMMA WritePhdrsInv == FselfInv /\ WritePhdrs => FselfInv'
<1>. SUFFICES ASSUME FselfInv, WritePhdrs PROVE FselfInv'
  OBVIOUS
<1>1. /\ FselfTypes /\ ElfInOrder /\ fpc = "phdrs" /\ fpc' = "done"
      /\ elf_out' = WriteAt(elf_out, 0, 1, [k \in 1 .. 1 |-> Header])
      /\ UNCHANGED <<p_filesz, p_offset, zsize, sinfo, correction, seg, self_out>>
  BY DEF FselfInv, WritePhdrs
<1>2. FselfTypes'
  BY <1>1 DEF FselfTypes
<1>3. ElfInOrder' /\ SelfInOrder'
  BY <1>1, <1>2, Settled
<1>4. ASSUME NEW i \in Segs, HasRoom(i)', Injected(i)'
      PROVE  InSelf(i)'
  <2>1. InSelf(i)
    BY <1>1, <1>4 DEF FselfInv, HasRoom, Injected
  <2>. QED  BY <1>1, <2>1 DEF InSelf
<1>5. ASSUME NEW i \in Segs, HasRoom(i)', sinfo'[i].compression = 2, Extracted(i)'
      PROVE  InElf(i)'
  <2>1. InElf(i)
    BY <1>1, <1>5 DEF FselfInv, HasRoom, Extracted
  <2>2. PICK o, m \in Nat : o = p_offset[i] /\ m = p_filesz[i]
    BY <1>1 DEF FselfTypes
  <2>3. 0 + 1 <= o
    BY <1>1, <2>2 DEF ElfInOrder
  <2>4. Holds(elf_out, o, m, "p", i)
    BY <2>1, <2>2 DEF InElf
  <2>5. PICK data : data = [k \in 1 .. 1 |-> Header]
    OBVIOUS
  <2>6. Holds(elf_out', o, m, "p", i)
    BY <1>1, <2>3, <2>4, <2>5, Kept
  <2>. QED  BY <1>1, <2>2, <2>6 DEF InElf
<1>. QED  BY <1>2, <1>3, <1>4, <1>5 DEF FselfInv

(* For any number of segments, of any lengths, whatever grew, shrank or    *)
(* could not be compressed (elf_injector's main, then vita-unmake-fself's  *)
(* main): a segment that was compressed into the SELF comes out of it at   *)
(* its place in the ELF.                                                   *)
THEOREM InjectCorrect == FselfSpec => []InjectedComesOut
<1>1. FselfInit => FselfInv
  BY FselfStart
<1>2. FselfInv /\ [FselfNext]_fselfVars => FselfInv'
  <2>. SUFFICES ASSUME FselfInv, [FselfNext]_fselfVars PROVE FselfInv'
    OBVIOUS
  <2>1. CASE FselfNext
    BY <2>1, InjectInv, SkipInv, WriteHeadersInv, ExtractInv, WritePhdrsInv DEF FselfNext
  <2>2. CASE UNCHANGED fselfVars
    BY <2>2 DEF fselfVars, FselfInv, FselfTypes, ElfInOrder, SelfInOrder, Place,
                Injected, Extracted, HasRoom, InSelf, InElf
  <2>. QED  BY <2>1, <2>2
<1>3. FselfInv => InjectedComesOut
  <2>. SUFFICES ASSUME FselfInv, fpc = "done", NEW i \in Segs, HasRoom(i),
                       sinfo[i].compression = 2
       PROVE  ReadAt(elf_out, p_offset[i], p_filesz[i]) = Plain(i)
    BY DEF InjectedComesOut, HasRoom
  <2>1. InElf(i)
    BY DEF FselfInv, Extracted
  <2>2. \A k \in 1 .. p_filesz[i] : ReadAt(elf_out, p_offset[i], p_filesz[i])[k] = Part("p", i, k)
    BY <2>1 DEF InElf, Holds, ReadAt
  <2>. QED  BY <2>2 DEF ReadAt, Plain
<1>. QED  BY <1>1, <1>2, <1>3, PTL DEF FselfSpec

------------------------------------------------------------------------------
(* ShipLog: its buffer overflows only with two threads in a handler.       *)

(* The invariant.                                                          *)
ShipTypeOK ==
  /\ buf_pos \in Nat
  /\ len \in [Handlers -> 0 .. BUF_SIZE]
  /\ loaded \in [Handlers -> Nat]
  /\ hpc \in [Handlers -> {"out", "test", "copy", "store", "start"}]

Alone ==
  ~overlapped =>
    \A g, h \in Handlers : hpc[g] # "out" /\ hpc[h] # "out" => g = h

Room == \A h \in Handlers : hpc[h] = "copy" => buf_pos + len[h] <= BUF_SIZE

Tested == \A h \in Handlers : hpc[h] = "store" => loaded[h] + len[h] <= BUF_SIZE

ShipInv ==
  /\ ShipTypeOK /\ Alone
  /\ ~overlapped => Room /\ Tested /\ buf_pos <= BUF_SIZE

(* A character fits into the buffer; the net thread is a writer too.       *)
LEMMA Positive == BUF_SIZE \in Nat /\ 1 \in 0 .. BUF_SIZE /\ NetThd \in Handlers
BY ShipLogAssumption DEF Handlers

(* Nothing is in a handler, and the buffer is empty.                       *)
LEMMA ShipStart == ShipInit => ShipInv
BY Positive DEF ShipInit, ShipInv, ShipTypeOK, Alone, Room, Tested

(* Entering a handler: the thread is alone there, or that is recorded.     *)
LEMMA EnterIInv ==
  ASSUME ShipInv, NEW h \in Handlers, NEW l \in 0 .. BUF_SIZE, Enter(h, l)
  PROVE  ShipInv'
<1>1. /\ hpc[h] = "out" /\ hpc' = [hpc EXCEPT ![h] = "test"]
      /\ len' = [len EXCEPT ![h] = l]
      /\ buf_pos' = buf_pos /\ loaded' = loaded
      /\ ~overlapped' => ~overlapped /\ \A g \in Handlers : g # h => hpc[g] = "out"
  BY DEF Enter, HGoto
<1>2. ShipTypeOK'
  BY <1>1 DEF ShipInv, ShipTypeOK
<1>3. \A g \in Handlers : hpc'[g] = IF g = h THEN "test" ELSE hpc[g]
  BY <1>1 DEF ShipInv, ShipTypeOK
<1>4. Alone'
  BY <1>1, <1>3 DEF ShipInv, Alone
<1>5. ~overlapped' => Room' /\ Tested'
  BY <1>1, <1>3 DEF ShipInv, Room, Tested
<1>. QED  BY <1>1, <1>2, <1>4, <1>5 DEF ShipInv

(* A step inside a handler.                                                *)
LEMMA HandleIInv ==
  ASSUME ShipInv, NEW h \in Handlers, Handle(h)
  PROVE  ShipInv'
<1>. USE Positive
<1>1. CASE MakeRoom(h)
  <2>1. /\ hpc[h] = "test" /\ hpc' = [hpc EXCEPT ![h] = "copy"]
        /\ loaded' = loaded /\ len' = len /\ overlapped' = overlapped
        /\ buf_pos' \in {0, buf_pos}
        /\ buf_pos' + len[h] <= BUF_SIZE
    BY <1>1 DEF MakeRoom, HGoto, bufClear, HandlerOnly, ShipInv, ShipTypeOK
  <2>2. ShipTypeOK'
    BY <2>1 DEF ShipInv, ShipTypeOK
  <2>3. \A g \in Handlers : hpc'[g] = IF g = h THEN "copy" ELSE hpc[g]
    BY <2>1 DEF ShipInv, ShipTypeOK
  <2>4. Alone'
    BY <2>1, <2>3 DEF ShipInv, Alone
  <2>5. ~overlapped' => Room' /\ Tested' /\ buf_pos' <= BUF_SIZE
    BY <2>1, <2>3 DEF ShipInv, ShipTypeOK, Alone, Room, Tested
  <2>. QED  BY <2>2, <2>4, <2>5 DEF ShipInv
<1>2. CASE Copy(h)
  <2>1. /\ hpc[h] = "copy" /\ hpc' = [hpc EXCEPT ![h] = "store"]
        /\ loaded' = [loaded EXCEPT ![h] = buf_pos]
        /\ len' = len /\ overlapped' = overlapped /\ buf_pos' = buf_pos
    BY <1>2 DEF Copy, HGoto, HandlerOnly
  <2>2. ShipTypeOK'
    BY <2>1 DEF ShipInv, ShipTypeOK
  <2>3. \A g \in Handlers : /\ hpc'[g] = IF g = h THEN "store" ELSE hpc[g]
                            /\ loaded'[g] = IF g = h THEN buf_pos ELSE loaded[g]
    BY <2>1 DEF ShipInv, ShipTypeOK
  <2>4. Alone'
    BY <2>1, <2>3 DEF ShipInv, Alone
  <2>5. ~overlapped' => Room' /\ Tested' /\ buf_pos' <= BUF_SIZE
    BY <2>1, <2>3 DEF ShipInv, Room, Tested
  <2>. QED  BY <2>2, <2>4, <2>5 DEF ShipInv
<1>3. CASE Store(h)
  <2>1. /\ hpc[h] = "store" /\ hpc' = [hpc EXCEPT ![h] = "start"]
        /\ loaded' = [loaded EXCEPT ![h] = 0] /\ len' = [len EXCEPT ![h] = 0]
        /\ overlapped' = overlapped /\ buf_pos' = loaded[h] + len[h]
    BY <1>3 DEF Store, HGoto
  <2>2. ShipTypeOK'
    BY <2>1 DEF ShipInv, ShipTypeOK
  <2>3. \A g \in Handlers : hpc'[g] = IF g = h THEN "start" ELSE hpc[g]
    BY <2>1 DEF ShipInv, ShipTypeOK
  <2>4. Alone'
    BY <2>1, <2>3 DEF ShipInv, Alone
  <2>5. ~overlapped' => Room' /\ Tested' /\ buf_pos' <= BUF_SIZE
    <3>. SUFFICES ASSUME ~overlapped' PROVE Room' /\ Tested' /\ buf_pos' <= BUF_SIZE
      OBVIOUS
    <3>1. \A g \in Handlers : g # h => hpc[g] = "out"
      BY <2>1 DEF ShipInv, Alone
    <3>2. buf_pos' <= BUF_SIZE
      BY <2>1 DEF ShipInv, Tested
    <3>. QED  BY <2>3, <3>1, <3>2 DEF Room, Tested
  <2>. QED  BY <2>2, <2>4, <2>5 DEF ShipInv
<1>4. CASE startSend(h)
  <2>1. /\ hpc[h] = "start" /\ hpc' = [hpc EXCEPT ![h] = "out"]
        /\ loaded' = loaded /\ len' = len /\ overlapped' = overlapped
        /\ buf_pos' = buf_pos
    BY <1>4 DEF startSend, HGoto, HandlerOnly
  <2>2. ShipTypeOK'
    BY <2>1 DEF ShipInv, ShipTypeOK
  <2>3. \A g \in Handlers : hpc'[g] = IF g = h THEN "out" ELSE hpc[g]
    BY <2>1 DEF ShipInv, ShipTypeOK
  <2>4. Alone'
    BY <2>1, <2>3 DEF ShipInv, Alone
  <2>5. ~overlapped' => Room' /\ Tested' /\ buf_pos' <= BUF_SIZE
    BY <2>1, <2>3 DEF ShipInv, Room, Tested
  <2>. QED  BY <2>2, <2>4, <2>5 DEF ShipInv
<1>. QED  BY <1>1, <1>2, <1>3, <1>4 DEF Handle

(* Whatever else happens, no thread moves in a handler and the buffer only *)
(* shrinks.                                                                *)
LEMMA OthersIInv ==
  ASSUME ShipInv, UNCHANGED handlerVars, buf_pos' \in {0, buf_pos}
  PROVE  ShipInv'
BY Positive DEF ShipInv, handlerVars, ShipTypeOK, Alone, Room, Tested

(* One step per action of the plugin.                                      *)
LEMMA ShipStep == ShipInv /\ [ShipNext]_shipVars => ShipInv'
<1>. SUFFICES ASSUME ShipInv, [ShipNext]_shipVars PROVE ShipInv'
  OBVIOUS
<1>1. CASE main_netdbg
  <2>1. CASE Connect
    BY <2>1, Positive, EnterIInv DEF Connect
  <2>2. CASE ~Connect
    <3>1. UNCHANGED handlerVars /\ buf_pos' \in {0, buf_pos}
      BY <1>1, <2>2 DEF main_netdbg, ConnectFails, NoConnect, Printed, CheckBuffer,
         WaitSendOut, Send, SendFails, AllSent, WriteFile, Clear, NetOnly, bufClear
    <3>. QED  BY <3>1, OthersIInv
  <2>. QED  BY <2>1, <2>2
<1>2. CASE shipLogBufClear
  BY <1>2, OthersIInv DEF shipLogBufClear, bufClear
<1>3. ASSUME NEW h \in Handlers, Handle(h) PROVE ShipInv'
  BY <1>3, HandleIInv
<1>4. ASSUME NEW h \in Printers, debugHandler(h) \/ putchar_handler(h) PROVE ShipInv'
  <2>1. h \in Handlers
    BY DEF Handlers
  <2>2. PICK l \in 0 .. BUF_SIZE : Enter(h, l)
    BY <1>4, Positive, ShipLogAssumption DEF debugHandler, putchar_handler
  <2>. QED  BY <2>1, <2>2, EnterIInv
<1>5. CASE UNCHANGED shipVars
  BY <1>5, OthersIInv DEF shipVars, handlerVars
<1>. QED  BY <1>1, <1>2, <1>3, <1>4, <1>5 DEF ShipNext

(* As long as no two threads have been in the printf handlers at the same  *)
(* time, buf_pos stays within the buffer, whatever main_netdbg and the     *)
(* system calls do in between.                                             *)
THEOREM OverflowCorrect == ShipSpec => []OverflowNeedsTwoPrinters
<1>1. ShipInv => OverflowNeedsTwoPrinters
  BY Positive DEF ShipInv, ShipTypeOK, OverflowNeedsTwoPrinters
<1>. QED  BY ShipStart, ShipStep, <1>1, PTL DEF ShipSpec

------------------------------------------------------------------------------
(* Arzl: induction over numbers.                                           *)

(* A set of numbers has a least one.                                       *)
LEMMA Least ==
  ASSUME NEW T, T \subseteq Nat, T # {}
  PROVE  \E x \in T : \A y \in T : x <= y
<1>1. PICK x \in T : \A y \in T : ~(<<y, x>> \in OpToRel(<, Nat))
  BY NatLessThanWellFounded, WFMin
<1>2. ASSUME NEW y \in T PROVE x <= y
  <2>1. ~(y < x)
    BY <1>1 DEF OpToRel
  <2>. QED  BY <2>1
<1>. QED  BY <1>2

(* Induction, for a set of numbers.                                        *)
LEMMA Induction ==
  ASSUME NEW T, 0 \in T, \A k \in Nat : k \in T => k + 1 \in T
  PROVE  \A k \in Nat : k \in T
<1>. DEFINE U == Nat \ T
<1>. SUFFICES ASSUME U # {} PROVE FALSE
  OBVIOUS
<1>1. PICK x \in U : \A y \in U : x <= y
  <2>. U \subseteq Nat
    OBVIOUS
  <2>. QED  BY Least
<1>2. x \in Nat /\ x # 0 /\ x - 1 \in Nat /\ ~(x <= x - 1)
  OBVIOUS
<1>3. x - 1 \in T
  BY <1>1, <1>2
<1>4. (x - 1) + 1 \in T
  BY <1>2, <1>3
<1>5. x = (x - 1) + 1
  BY <1>2
<1>. QED  BY <1>4, <1>5

(* Two functions that begin alike and go on alike.                         *)
LEMMA Alike ==
  ASSUME NEW n \in Nat, NEW f, NEW g, f[0] = g[0],
         \A k \in 1 .. n : f[k - 1] = g[k - 1] => f[k] = g[k]
  PROVE  \A k \in 0 .. n : f[k] = g[k]
<1>. DEFINE T == {k \in Nat : k <= n => f[k] = g[k]}
<1>1. 0 \in T
  OBVIOUS
<1>2. ASSUME NEW k \in Nat, k \in T PROVE k + 1 \in T
  <2>. SUFFICES ASSUME k + 1 <= n PROVE f[k + 1] = g[k + 1]
    OBVIOUS
  <2>1. f[k] = g[k] /\ k + 1 \in 1 .. n /\ (k + 1) - 1 = k
    BY <1>2
  <2>. QED  BY <2>1
<1>. HIDE DEF T
<1>3. \A k \in Nat : k \in T
  BY <1>1, <1>2, Induction
<1>. QED  BY <1>3 DEF T

------------------------------------------------------------------------------
(* Powers of two: the function that Pow2(n) is the last value of.          *)
PowTo(n, f) == f = [k \in 0 .. n |-> IF k = 0 THEN 1 ELSE 2 * f[k - 1]]

(* There is such a function for every n, ...                               *)
LEMMA PowExists == \A n \in Nat : \E f : PowTo(n, f)
<1>. DEFINE T == {n \in Nat : \E f : PowTo(n, f)}
<1>1. 0 \in T
  <2>. DEFINE f == [k \in 0 .. 0 |-> 1]
  <2>1. PowTo(0, f)
    BY DEF PowTo
  <2>. QED  BY <2>1
<1>2. ASSUME NEW n \in Nat, n \in T PROVE n + 1 \in T
  <2>1. PICK f : PowTo(n, f)
    BY <1>2
  <2>. DEFINE g == [k \in 0 .. (n + 1) |-> IF k <= n THEN f[k] ELSE 2 * f[n]]
  <2>2. ASSUME NEW k \in 0 .. (n + 1)
        PROVE  g[k] = IF k = 0 THEN 1 ELSE 2 * g[k - 1]
    BY <2>1 DEF PowTo
  <2>3. PowTo(n + 1, g)
    BY <2>2 DEF PowTo
  <2>. QED  BY <2>3
<1>. HIDE DEF T
<1>3. \A k \in Nat : k \in T
  BY <1>1, <1>2, Induction
<1>. QED  BY <1>3 DEF T

(* ... and Pow2 is taken from one.                                         *)
LEMMA PowIs ==
  ASSUME NEW n \in Nat PROVE \E f : PowTo(n, f) /\ Pow2(n) = f[n]
<1>. DEFINE f == CHOOSE p : p = [k \in 0 .. n |-> IF k = 0 THEN 1 ELSE 2 * p[k - 1]]
<1>1. PowTo(n, f)
  BY PowExists DEF PowTo
<1>2. Pow2(n) = f[n]
  BY DEF Pow2
<1>. QED  BY <1>1, <1>2

(* Functions for two n agree where both are defined.                       *)
LEMMA PowSucc ==
  /\ Pow2(0) = 1
  /\ \A n \in Nat : Pow2(n + 1) = 2 * Pow2(n)
<1>1. Pow2(0) = 1
  <2>1. PICK f : PowTo(0, f) /\ Pow2(0) = f[0]
    BY PowIs
  <2>. QED  BY <2>1 DEF PowTo
<1>2. ASSUME NEW n \in Nat PROVE Pow2(n + 1) = 2 * Pow2(n)
  <2>1. PICK f : PowTo(n, f) /\ Pow2(n) = f[n]
    BY PowIs
  <2>2. PICK g : PowTo(n + 1, g) /\ Pow2(n + 1) = g[n + 1]
    BY PowIs
  <2>3. f[0] = g[0] /\ \A k \in 1 .. n : f[k - 1] = g[k - 1] => f[k] = g[k]
    BY <2>1, <2>2 DEF PowTo
  <2>4. f[n] = g[n]
    BY <2>3, Alike
  <2>5. g[n + 1] = 2 * g[n]
    BY <2>2 DEF PowTo
  <2>. QED  BY <2>1, <2>2, <2>4, <2>5
<1>. QED  BY <1>1, <1>2

(* They are numbers, and above their exponents.                            *)
LEMMA PowType == \A n \in Nat : Pow2(n) \in Nat /\ Pow2(n) > n
<1>. DEFINE T == {n \in Nat : Pow2(n) \in Nat /\ Pow2(n) > n}
<1>1. 0 \in T
  BY PowSucc
<1>2. ASSUME NEW n \in Nat, n \in T PROVE n + 1 \in T
  BY <1>2, PowSucc
<1>. HIDE DEF T
<1>3. \A k \in Nat : k \in T
  BY <1>1, <1>2, Induction
<1>. QED  BY <1>3 DEF T

(* The powers grow.                                                        *)
LEMMA PowGrows ==
  ASSUME NEW m \in Nat, NEW n \in Nat, m < n PROVE 2 * Pow2(m) <= Pow2(n)
<1>. DEFINE T == {k \in Nat : 2 * Pow2(m) <= Pow2(m + 1 + k)}
<1>1. 0 \in T
  BY PowSucc, PowType
<1>2. ASSUME NEW k \in Nat, k \in T PROVE k + 1 \in T
  <2>1. m + 1 + (k + 1) = (m + 1 + k) + 1 /\ m + 1 + k \in Nat
    OBVIOUS
  <2>2. Pow2(m + 1 + (k + 1)) = 2 * Pow2(m + 1 + k)
    BY <2>1, PowSucc
  <2>3. Pow2(m + 1 + k) \in Nat
    BY <2>1, PowType
  <2>4. Pow2(m) \in Nat
    BY PowType
  <2>. QED  BY <1>2, <2>2, <2>3, <2>4
<1>. HIDE DEF T
<1>3. n - (m + 1) \in T
  <2>1. n - (m + 1) \in Nat
    OBVIOUS
  <2>. QED  BY <1>1, <1>2, <2>1, Induction
<1>4. m + 1 + (n - (m + 1)) = n
  OBVIOUS
<1>. QED  BY <1>3, <1>4 DEF T

(* The leading one of a number.                                            *)
LEMMA LogIs ==
  ASSUME NEW n \in Nat, NEW k \in Nat, Pow2(k) <= n, n < Pow2(k + 1)
  PROVE  Log(n) = k
<1>1. k \in 0 .. n
  BY PowType
<1>2. ASSUME NEW j \in 0 .. n, Pow2(j) <= n, n < Pow2(j + 1) PROVE j = k
  <2>1. j \in Nat /\ Pow2(j) \in Nat /\ Pow2(k) \in Nat
        /\ Pow2(j + 1) = 2 * Pow2(j) /\ Pow2(k + 1) = 2 * Pow2(k)
    BY PowType, PowSucc
  <2>2. ASSUME j < k PROVE FALSE
    BY <1>2, <2>1, <2>2, PowGrows
  <2>3. ASSUME k < j PROVE FALSE
    BY <1>2, <2>1, <2>3, PowGrows
  <2>. QED  BY <2>1, <2>2, <2>3
<1>. QED  BY <1>1, <1>2, Zenon DEF Log

------------------------------------------------------------------------------
(* Reading a tree of decisions.                                            *)

(* The stream is a sequence of bits, and zeros follow.                     *)
StreamType == stream \in [1 .. StreamBits -> {0, 1}]

LEMMA BitType == ASSUME StreamType, NEW p \in Nat PROVE Bit(p) \in {0, 1}
  BY ArzlAssumption DEF StreamType, Bit

(* A quotient, from what it is a quotient of.                              *)
LEMMA Quotient ==
  ASSUME NEW a \in Nat, NEW b \in Nat, b > 0, NEW r \in 0 .. (b - 1)
  PROVE  (a * b + r) \div b = a
<1>. DEFINE x == a * b + r
            q == x \div b
<1>1. x \in Nat
  OBVIOUS
<1>. HIDE DEF x
<1>2. q \in Int /\ b * q <= x /\ x < b * (q + 1)
  BY <1>1
<1>. HIDE DEF q
<1>3. ASSUME q < a PROVE FALSE
  <2>1. b * (q + 1) <= b * a
    BY <1>2, <1>3
  <2>2. b * a = a * b /\ x = a * b + r
    BY DEF x
  <2>. QED  BY <1>1, <1>2, <2>1, <2>2
<1>4. ASSUME a < q PROVE FALSE
  <2>1. b * (a + 1) <= b * q
    BY <1>2, <1>4
  <2>2. b * (a + 1) = a * b + b /\ x = a * b + r
    BY DEF x
  <2>. QED  BY <1>1, <1>2, <2>1, <2>2
<1>5. q = a
  BY <1>2, <1>3, <1>4
<1>. QED  BY <1>5 DEF q, x

(* The function that Bits is the last value of.                            *)
BitsTo(p, n, high, f) ==
  f = [k \in 0 .. n |-> IF k = 0 THEN high ELSE 2 * f[k - 1] + Bit(p + k - 1)]

(* There is one for every number of bits, ...                              *)
LEMMA BitsExist ==
  ASSUME NEW p, NEW high PROVE \A n \in Nat : \E f : BitsTo(p, n, high, f)
<1>. DEFINE T == {n \in Nat : \E f : BitsTo(p, n, high, f)}
<1>1. 0 \in T
  <2>. DEFINE f == [k \in 0 .. 0 |-> high]
  <2>1. BitsTo(p, 0, high, f)
    BY DEF BitsTo
  <2>. QED  BY <2>1
<1>2. ASSUME NEW n \in Nat, n \in T PROVE n + 1 \in T
  <2>1. PICK f : BitsTo(p, n, high, f)
    BY <1>2
  <2>. DEFINE g == [k \in 0 .. (n + 1) |->
                      IF k <= n THEN f[k] ELSE 2 * f[k - 1] + Bit(p + k - 1)]
  <2>2. ASSUME NEW k \in 0 .. (n + 1)
        PROVE  g[k] = IF k = 0 THEN high ELSE 2 * g[k - 1] + Bit(p + k - 1)
    BY <2>1 DEF BitsTo
  <2>3. BitsTo(p, n + 1, high, g)
    BY <2>2 DEF BitsTo
  <2>. QED  BY <2>3
<1>. HIDE DEF T
<1>3. \A k \in Nat : k \in T
  BY <1>1, <1>2, Induction
<1>. QED  BY <1>3 DEF T

(* ... and Bits is taken from one.                                         *)
LEMMA BitsIs ==
  ASSUME NEW p, NEW high, NEW n \in Nat
  PROVE  \E f : BitsTo(p, n, high, f) /\ Bits(p, n, high) = [val |-> f[n], next |-> p + n]
<1>. DEFINE f == CHOOSE v : v = [k \in 0 .. n |->
                   IF k = 0 THEN high ELSE 2 * v[k - 1] + Bit(p + k - 1)]
<1>1. BitsTo(p, n, high, f)
  BY BitsExist DEF BitsTo
<1>2. Bits(p, n, high) = [val |-> f[n], next |-> p + n]
  BY DEF Bits
<1>. QED  BY <1>1, <1>2

(* The code that stands at a place of the stream.                          *)
Reads(p, s) == \A j \in 1 .. Len(s) : Bit(p + j - 1) = s[j]

(* What a tree yields has the bits above it, and its digits are the bits   *)
(* that were read.                                                         *)
LEMMA BitsRead ==
  ASSUME StreamType, NEW p \in Nat, NEW n \in Nat, NEW high \in Nat
  PROVE  LET b == Bits(p, n, high)
         IN  /\ b.val \in Nat /\ b.next = p + n
             /\ high * Pow2(n) <= b.val /\ b.val < (high + 1) * Pow2(n)
             /\ Reads(p, Digits(b.val, n))
<1>1. PICK f : BitsTo(p, n, high, f) /\ Bits(p, n, high) = [val |-> f[n], next |-> p + n]
  BY BitsIs
<1>2. f[0] = high
  BY <1>1 DEF BitsTo
<1>3. ASSUME NEW k \in 1 .. n PROVE f[k] = 2 * f[k - 1] + Bit(p + k - 1)
  BY <1>1 DEF BitsTo
<1>4. ASSUME NEW k \in 1 .. n PROVE Bit(p + k - 1) \in {0, 1}
  <2>. p + k - 1 \in Nat
    OBVIOUS
  <2>. QED  BY BitType
<1>5. ASSUME NEW k \in 0 .. n PROVE f[k] \in Nat
  <2>. DEFINE T == {i \in Nat : i <= n => f[i] \in Nat}
  <2>1. 0 \in T
    BY <1>2
  <2>2. ASSUME NEW i \in Nat, i \in T PROVE i + 1 \in T
    <3>. SUFFICES ASSUME i + 1 <= n PROVE f[i + 1] \in Nat
      OBVIOUS
    <3>1. i + 1 \in 1 .. n /\ (i + 1) - 1 = i /\ f[i] \in Nat
      BY <2>2
    <3>2. f[i + 1] = 2 * f[i] + Bit(p + (i + 1) - 1) /\ Bit(p + (i + 1) - 1) \in {0, 1}
      BY <3>1, <1>3, <1>4
    <3>. QED  BY <3>1, <3>2
  <2>. HIDE DEF T
  <2>3. k \in T
    BY <2>1, <2>2, Induction
  <2>. QED  BY <2>3 DEF T
<1>6. ASSUME NEW j \in 0 .. n
      PROVE  \E r \in 0 .. (Pow2(n - j) - 1) : f[n] = f[j] * Pow2(n - j) + r
  <2>. DEFINE T == {i \in Nat : j + i <= n =>
                     \E r \in 0 .. (Pow2(i) - 1) : f[j + i] = f[j] * Pow2(i) + r}
  <2>0. f[j] \in Nat
    BY <1>5
  <2>1. 0 \in T
    <3>1. Pow2(0) = 1 /\ j + 0 = j
      BY PowSucc
    <3>2. f[j + 0] = f[j] * Pow2(0) + 0 /\ 0 \in 0 .. (Pow2(0) - 1)
      BY <3>1, <2>0
    <3>. QED  BY <3>2
  <2>2. ASSUME NEW i \in Nat, i \in T PROVE i + 1 \in T
    <3>. SUFFICES ASSUME j + (i + 1) <= n
                  PROVE  \E r \in 0 .. (Pow2(i + 1) - 1) :
                           f[j + (i + 1)] = f[j] * Pow2(i + 1) + r
      OBVIOUS
    <3>1. PICK r \in 0 .. (Pow2(i) - 1) : f[j + i] = f[j] * Pow2(i) + r
      BY <2>2
    <3>2. j + (i + 1) \in 1 .. n /\ (j + (i + 1)) - 1 = j + i
      OBVIOUS
    <3>3. PICK b \in {0, 1} : f[j + (i + 1)] = 2 * f[j + i] + b
      BY <3>2, <1>3, <1>4
    <3>4. Pow2(i) \in Nat /\ Pow2(i + 1) = 2 * Pow2(i)
      BY PowSucc, PowType
    <3>5. f[j] * Pow2(i + 1) = 2 * (f[j] * Pow2(i)) /\ f[j] * Pow2(i) \in Nat
      BY <3>4, <2>0
    <3>6. f[j + (i + 1)] = f[j] * Pow2(i + 1) + (2 * r + b)
      BY <3>1, <3>3, <3>4, <3>5
    <3>7. 2 * r + b \in 0 .. (Pow2(i + 1) - 1)
      BY <3>4
    <3>. QED  BY <3>6, <3>7
  <2>. HIDE DEF T
  <2>3. n - j \in Nat /\ j + (n - j) = n
    OBVIOUS
  <2>4. n - j \in T
    BY <2>1, <2>2, <2>3, Induction
  <2>. QED  BY <2>3, <2>4 DEF T
<1>7. high * Pow2(n) <= f[n] /\ f[n] < (high + 1) * Pow2(n)
  <2>1. PICK r \in 0 .. (Pow2(n) - 1) : f[n] = high * Pow2(n) + r
    BY <1>6, <1>2
  <2>2. Pow2(n) \in Nat
    BY PowType
  <2>3. (high + 1) * Pow2(n) = high * Pow2(n) + Pow2(n) /\ high * Pow2(n) \in Nat
    BY <2>2
  <2>. QED  BY <2>1, <2>2, <2>3
<1>8. ASSUME NEW j \in 1 .. n
      PROVE  Bit(p + j - 1) = (f[n] \div Pow2(n - j)) % 2
  <2>1. PICK r \in 0 .. (Pow2(n - j) - 1) : f[n] = f[j] * Pow2(n - j) + r
    BY <1>6
  <2>2. Pow2(n - j) \in Nat /\ Pow2(n - j) > 0 /\ f[j] \in Nat
    BY PowType, <1>5
  <2>3. f[n] \div Pow2(n - j) = f[j]
    BY <2>1, <2>2, Quotient
  <2>4. f[j] = 2 * f[j - 1] + Bit(p + j - 1) /\ f[j - 1] \in Nat /\ Bit(p + j - 1) \in {0, 1}
    BY <1>3, <1>4, <1>5
  <2>5. f[j] % 2 = Bit(p + j - 1)
    BY <2>4
  <2>. QED  BY <2>3, <2>5
<1>9. Reads(p, Digits(f[n], n))
  <2>1. Len(Digits(f[n], n)) = n
    BY DEF Digits
  <2>. QED  BY <2>1, <1>8 DEF Reads, Digits
<1>. QED  BY <1>1, <1>5, <1>7, <1>9

------------------------------------------------------------------------------
(* The format, piece by piece: what is read is the code of what it yields. *)

(* Digits are a sequence of numbers.                                       *)
LEMMA DigitsType ==
  ASSUME NEW n \in Nat, NEW k \in Nat
  PROVE  Digits(n, k) \in Seq(Int) /\ Len(Digits(n, k)) = k
<1>1. ASSUME NEW j \in 1 .. k PROVE (n \div Pow2(k - j)) % 2 \in Int
  <2>1. k - j \in Nat
    OBVIOUS
  <2>2. Pow2(k - j) \in Nat /\ Pow2(k - j) > 0
    BY <2>1, PowType
  <2>3. n \div Pow2(k - j) \in Int
    BY <2>2
  <2>. QED  BY <2>3
<1>2. Digits(n, k) \in [1 .. k -> Int]
  BY <1>1 DEF Digits
<1>. QED  BY <1>2

(* Two codes, one behind the other.                                        *)
LEMMA ReadsCat ==
  ASSUME NEW p \in Nat, NEW s \in Seq(Int), NEW t \in Seq(Int),
         Reads(p, s), Reads(p + Len(s), t)
  PROVE  Reads(p, s \o t)
<1>. SUFFICES ASSUME NEW j \in 1 .. Len(s \o t)
              PROVE  Bit(p + j - 1) = (s \o t)[j]
  BY DEF Reads
<1>0. Len(s) \in Nat /\ Len(t) \in Nat /\ Len(s \o t) = Len(s) + Len(t)
  OBVIOUS
<1>1. CASE j <= Len(s)
  <2>1. (s \o t)[j] = s[j] /\ j \in 1 .. Len(s)
    BY <1>0, <1>1
  <2>. QED  BY <2>1 DEF Reads
<1>2. CASE j > Len(s)
  <2>1. (s \o t)[j] = t[j - Len(s)] /\ j - Len(s) \in 1 .. Len(t)
    BY <1>0, <1>2
  <2>2. p + Len(s) + (j - Len(s)) - 1 = p + j - 1
    BY <1>0
  <2>3. Bit(p + Len(s) + (j - Len(s)) - 1) = t[j - Len(s)]
    BY <2>1 DEF Reads
  <2>. QED  BY <2>1, <2>2, <2>3
<1>. QED  BY <1>0, <1>1, <1>2

(* A single bit.                                                           *)
LEMMA ReadsOne ==
  ASSUME NEW p \in Nat, NEW b \in Int, Bit(p) = b
  PROVE  Reads(p, <<b>>)
  BY DEF Reads

(* The greatest of some numbers that are bounded.                          *)
LEMMA Greatest ==
  ASSUME NEW n \in Nat, NEW T, T \subseteq 0 .. n, T # {}
  PROVE  \E x \in T : \A y \in T : y <= x
<1>. DEFINE U == {n - t : t \in T}
<1>1. U \subseteq Nat /\ U # {}
  <2>1. ASSUME NEW t \in T PROVE n - t \in Nat
    <3>. t \in 0 .. n
      OBVIOUS
    <3>. QED  OBVIOUS
  <2>. QED  BY <2>1
<1>2. PICK u \in U : \A y \in U : u <= y
  BY <1>1, Least
<1>3. PICK x \in T : u = n - x
  OBVIOUS
<1>4. ASSUME NEW y \in T PROVE y <= x
  <2>1. n - x <= n - y
    BY <1>2, <1>3
  <2>. QED  BY <2>1
<1>. QED  BY <1>4

(* A class is read from as many ones, and a zero unless it is the last.    *)
LEMMA ClassRead ==
  ASSUME StreamType, NEW p \in Nat
  PROVE  \E n \in 0 .. (LenClasses + 1) :
           LET stop == IF n = LenClasses + 1 THEN <<>> ELSE <<0>>
           IN  /\ Class(p) = [val |-> n - 1, next |-> p + n + Len(stop)]
               /\ Ones(n) \in Seq(Int) /\ Len(Ones(n)) = n /\ stop \in Seq(Int)
               /\ Reads(p, Ones(n) \o stop)
<1>. DEFINE ones == {k \in 0 .. (LenClasses + 1) : \A j \in 0 .. (k - 1) : Bit(p + j) = 1}
            n    == CHOOSE k \in ones : \A j \in ones : j <= k
            stop == IF n = LenClasses + 1 THEN <<>> ELSE <<0>>
<1>0. LenClasses \in Nat
  BY ArzlAssumption
<1>1. n \in ones /\ \A j \in ones : j <= n
  <2>1. 0 \in ones /\ ones \subseteq 0 .. (LenClasses + 1)
    BY <1>0
  <2>2. \E x \in ones : \A y \in ones : y <= x
    <3>. HIDE DEF ones
    <3>1. LenClasses + 1 \in Nat /\ ones # {}
      BY <1>0, <2>1
    <3>. QED  BY <2>1, <3>1, Greatest
  <2>. HIDE DEF ones
  <2>. QED  BY <2>2
<1>2. Class(p) = [val |-> n - 1, next |-> p + n + (IF n = LenClasses + 1 THEN 0 ELSE 1)]
  BY DEF Class
<1>. HIDE DEF n
<1>3. n \in 0 .. (LenClasses + 1) /\ \A j \in 0 .. (n - 1) : Bit(p + j) = 1
  BY <1>1
<1>4. Len(stop) = (IF n = LenClasses + 1 THEN 0 ELSE 1) /\ stop \in Seq(Int)
  OBVIOUS
<1>5. Ones(n) \in Seq(Int) /\ Len(Ones(n)) = n
  <2>1. Ones(n) \in [1 .. n -> Int]
    BY DEF Ones
  <2>. QED  BY <2>1, <1>3
<1>6. Reads(p, Ones(n))
  <2>. SUFFICES ASSUME NEW j \in 1 .. n PROVE Bit(p + j - 1) = 1
    BY <1>5 DEF Reads, Ones
  <2>1. j - 1 \in 0 .. (n - 1) /\ p + (j - 1) = p + j - 1
    BY <1>3
  <2>. QED  BY <2>1, <1>3
<1>7. Reads(p + n, stop)
  <2>1. CASE n = LenClasses + 1
    BY <2>1 DEF Reads
  <2>2. CASE n # LenClasses + 1
    <3>1. n + 1 \notin ones /\ n + 1 \in 0 .. (LenClasses + 1)
      <4>1. ASSUME n + 1 \in ones PROVE FALSE
        <5>1. n + 1 <= n
          BY <4>1, <1>1
        <5>. QED  BY <5>1, <1>3
      <4>. QED  BY <4>1, <1>3, <1>0, <2>2
    <3>2. PICK j \in 0 .. n : Bit(p + j) # 1
      <4>1. (n + 1) - 1 = n
        BY <1>3
      <4>2. ~ \A j \in 0 .. ((n + 1) - 1) : Bit(p + j) = 1
        BY <3>1
      <4>. QED  BY <4>1, <4>2
    <3>3. j = n
      BY <3>2, <1>3, <1>0
    <3>4. Bit(p + n) = 0
      <4>1. p + n \in Nat
        BY <1>3
      <4>. QED  BY <3>2, <3>3, <4>1, BitType
    <3>. QED  BY <3>4, <2>2, <1>3, ReadsOne
  <2>. QED  BY <2>1, <2>2
<1>8. Reads(p, Ones(n) \o stop)
  <2>. HIDE DEF stop
  <2>. QED  BY <1>4, <1>5, <1>6, <1>7, ReadsCat
<1>. HIDE DEF ones
<1>. QED  BY <1>2, <1>3, <1>4, <1>5, <1>8

(* A length (v35) is read from its code, ...                               *)
LEMMA LengthRead ==
  ASSUME StreamType, NEW p \in Nat
  PROVE  LET l == Length(p)
         IN  /\ l.val \in Nat /\ l.val >= 1
             /\ CodeOfLength(l.val) \in Seq(Int)
             /\ l.next = p + Len(CodeOfLength(l.val))
             /\ Reads(p, CodeOfLength(l.val))
<1>. DEFINE stop(n) == IF n = LenClasses + 1 THEN <<>> ELSE <<0>>
<1>0. LenClasses \in Nat
  BY ArzlAssumption
<1>1. PICK n \in 0 .. (LenClasses + 1) :
        /\ Class(p) = [val |-> n - 1, next |-> p + n + Len(stop(n))]
        /\ Ones(n) \in Seq(Int) /\ Len(Ones(n)) = n /\ stop(n) \in Seq(Int)
        /\ Reads(p, Ones(n) \o stop(n))
  BY ClassRead
<1>2. CASE n = 0
  <2>1. Class(p).val = -1 /\ Class(p).next = p + 1
    BY <1>0, <1>1, <1>2
  <2>2. Length(p) = [val |-> 1, next |-> p + 1]
    BY <2>1 DEF Length
  <2>3. CodeOfLength(1) = <<0>>
    BY DEF CodeOfLength
  <2>4. Ones(n) \o stop(n) = <<0>>
    <3>1. Ones(n) = <<>> /\ stop(n) = <<0>>
      BY <1>0, <1>1, <1>2
    <3>. QED  BY <3>1
  <2>5. Reads(p, <<0>>)
    BY <1>1, <2>4
  <2>6. <<0>> \in Seq(Int) /\ Len(<<0>>) = 1
    OBVIOUS
  <2>7. Length(p).val = 1 /\ Length(p).next = p + 1
    BY <2>2
  <2>8. CodeOfLength(Length(p).val) = <<0>>
    BY <2>3, <2>7
  <2>9. Length(p).next = p + Len(CodeOfLength(Length(p).val))
    BY <2>6, <2>7, <2>8
  <2>10. Reads(p, CodeOfLength(Length(p).val)) /\ CodeOfLength(Length(p).val) \in Seq(Int)
    BY <2>5, <2>6, <2>8
  <2>. QED  BY <2>7, <2>9, <2>10
<1>3. CASE n # 0
  <2>1. n \in Nat /\ n >= 1 /\ Class(p).val # -1 /\ Class(p).val + 1 = n
    BY <1>0, <1>1, <1>3
  <2>2. Class(p).next = p + n + Len(stop(n)) /\ Class(p).next \in Nat
    BY <1>0, <1>1, <1>3
  <2>. DEFINE q == p + n + Len(stop(n))
              b == Bits(q, n, 1)
  <2>3. Length(p) = b
    BY <2>1, <2>2 DEF Length
  <2>4. q \in Nat
    BY <2>2
  <2>. HIDE DEF q
  <2>5. /\ b.val \in Nat /\ b.next = q + n
        /\ 1 * Pow2(n) <= b.val /\ b.val < (1 + 1) * Pow2(n)
        /\ Reads(q, Digits(b.val, n))
    <3>1. n \in Nat /\ 1 \in Nat
      BY <2>1
    <3>. QED  BY <3>1, <2>4, BitsRead
  <2>. HIDE DEF b
  <2>6. Pow2(n) \in Nat /\ Pow2(n) > 1 /\ Pow2(n + 1) = 2 * Pow2(n)
    BY <2>1, PowType, PowSucc
  <2>7. Pow2(n) <= b.val /\ b.val < Pow2(n + 1) /\ b.val # 1
    BY <2>5, <2>6
  <2>8. Log(b.val) = n
    BY <2>1, <2>5, <2>7, LogIs
  <2>9. (Log(b.val) > LenClasses) <=> (n = LenClasses + 1)
    BY <2>8, <1>0
  <2>10. CodeOfLength(b.val) = Ones(n) \o stop(n) \o Digits(b.val, n)
    BY <2>7, <2>8, <2>9 DEF CodeOfLength
  <2>11. Digits(b.val, n) \in Seq(Int) /\ Len(Digits(b.val, n)) = n
    BY <2>1, <2>5, DigitsType
  <2>. HIDE DEF stop
  <2>12. Ones(n) \o stop(n) \in Seq(Int) /\ p + Len(Ones(n) \o stop(n)) = q
    <3>. DEFINE s == Ones(n)
                t == stop(n)
    <3>1. s \in Seq(Int) /\ t \in Seq(Int) /\ Len(s) = n
      BY <1>1
    <3>. HIDE DEF s, t
    <3>2. s \o t \in Seq(Int) /\ Len(s \o t) = n + Len(t) /\ Len(t) \in Nat
      BY <3>1
    <3>3. p + (n + Len(t)) = p + n + Len(t)
      BY <3>2, <2>1
    <3>. QED  BY <3>2, <3>3 DEF q, s, t
  <2>13. Reads(p, CodeOfLength(b.val))
    BY <1>1, <2>5, <2>10, <2>11, <2>12, ReadsCat
  <2>14. CodeOfLength(b.val) \in Seq(Int) /\ q + n = p + Len(CodeOfLength(b.val))
    <3>. DEFINE s == Ones(n) \o stop(n)
                t == Digits(b.val, n)
    <3>1. s \in Seq(Int) /\ t \in Seq(Int) /\ Len(t) = n /\ p + Len(s) = q
      BY <2>11, <2>12
    <3>2. CodeOfLength(b.val) = s \o t
      BY <2>10
    <3>. HIDE DEF s, t
    <3>3. Len(s \o t) = Len(s) + Len(t) /\ s \o t \in Seq(Int) /\ Len(s) \in Nat
      BY <3>1
    <3>. QED  BY <3>1, <3>2, <3>3, <2>1
  <2>15. b.val >= 1
    BY <2>5, <2>6
  <2>. QED  BY <2>3, <2>5, <2>13, <2>14, <2>15
<1>. QED  BY <1>2, <1>3

(* ... and so is a distance (v66).                                         *)
LEMMA DistanceRead ==
  ASSUME StreamType, NEW p \in Nat, NEW l \in Nat, l >= 1
  PROVE  LET d == Distance(p, l)
         IN  /\ d.val \in Nat
             /\ CodeOfDistance(l, d.val) \in Seq(Int)
             /\ d.next = p + Len(CodeOfDistance(l, d.val))
             /\ Reads(p, CodeOfDistance(l, d.val))
<1>. DEFINE n == IF l <= 2 THEN ShortSlots ELSE LongSlots
            s == Bits(p, n, 0)
<1>1. n \in Nat /\ n = IF l \in {1, 2} THEN ShortSlots ELSE LongSlots
  BY ArzlAssumption
<1>2. Distance(p, l) = IF s.val = 0 THEN s
                       ELSE [Bits(s.next, s.val, 1) EXCEPT !.val = @ - 1]
  BY DEF Distance
<1>3. \A d : CodeOfDistance(l, d) = Digits(Log(d + 1), n) \o Digits(d + 1, Log(d + 1))
  BY <1>1 DEF CodeOfDistance
<1>. HIDE DEF n
<1>4. s.val \in Nat /\ s.next = p + n /\ Reads(p, Digits(s.val, n))
  BY <1>1, BitsRead
<1>. HIDE DEF s
<1>5. Digits(s.val, n) \in Seq(Int) /\ Len(Digits(s.val, n)) = n
  BY <1>1, <1>4, DigitsType
<1>6. CASE s.val = 0
  <2>1. Log(0 + 1) = 0
    <3>1. Pow2(0) <= 1 /\ 1 < Pow2(0 + 1)
      BY PowSucc
    <3>. QED  BY <3>1, LogIs
  <2>2. Digits(1, 0) = <<>>
    BY DEF Digits
  <2>3. CodeOfDistance(l, 0) = Digits(0, n) \o <<>>
    <3>1. 0 + 1 = 1 /\ Log(1) = 0
      BY <2>1
    <3>2. CodeOfDistance(l, 0) = Digits(Log(0 + 1), n) \o Digits(0 + 1, Log(0 + 1))
      BY <1>3
    <3>. QED  BY <3>1, <3>2, <2>2
  <2>4. CodeOfDistance(l, 0) = Digits(0, n)
    BY <2>3, <1>5, <1>6
  <2>. QED  BY <1>2, <1>4, <1>5, <1>6, <2>4
<1>7. CASE s.val # 0
  <2>. DEFINE b == Bits(s.next, s.val, 1)
              d == b.val - 1
  <2>0. s.next \in Nat
    BY <1>1, <1>4
  <2>1. /\ b.val \in Nat /\ b.next = s.next + s.val
        /\ 1 * Pow2(s.val) <= b.val /\ b.val < (1 + 1) * Pow2(s.val)
        /\ Reads(s.next, Digits(b.val, s.val))
    BY <2>0, <1>4, BitsRead
  <2>2. b = [val |-> b.val, next |-> b.next]
    <3>1. \E f : b = [val |-> f[s.val], next |-> s.next + s.val]
      BY <1>4, BitsIs
    <3>. QED  BY <3>1
  <2>3. Distance(p, l) = [val |-> d, next |-> b.next]
    BY <1>2, <1>7, <2>2
  <2>. HIDE DEF b
  <2>4. Pow2(s.val) \in Nat /\ Pow2(s.val) > s.val /\ Pow2(s.val + 1) = 2 * Pow2(s.val)
    BY <1>4, PowType, PowSucc
  <2>5. d \in Nat /\ d + 1 = b.val /\ Pow2(s.val) <= b.val /\ b.val < Pow2(s.val + 1)
    BY <2>1, <2>4, <1>4
  <2>6. Log(b.val) = s.val
    BY <2>1, <2>5, <1>4, LogIs
  <2>. HIDE DEF d
  <2>7. CodeOfDistance(l, d) = Digits(s.val, n) \o Digits(b.val, s.val)
    BY <1>3, <2>5, <2>6
  <2>8. Digits(b.val, s.val) \in Seq(Int) /\ Len(Digits(b.val, s.val)) = s.val
    BY <2>1, <1>4, DigitsType
  <2>9. Reads(p, CodeOfDistance(l, d))
    BY <2>1, <2>7, <2>8, <1>4, <1>5, ReadsCat
  <2>10. CodeOfDistance(l, d) \in Seq(Int) /\ b.next = p + Len(CodeOfDistance(l, d))
    <3>. DEFINE u == Digits(s.val, n)
                t == Digits(b.val, s.val)
    <3>1. u \in Seq(Int) /\ t \in Seq(Int) /\ Len(t) = s.val /\ Len(u) = n
          /\ CodeOfDistance(l, d) = u \o t
      BY <2>7, <2>8, <1>5
    <3>. HIDE DEF u, t
    <3>2. u \in Seq(Int) /\ t \in Seq(Int)
      BY <3>1
    <3>3. Len(u \o t) = Len(u) + Len(t) /\ u \o t \in Seq(Int)
      BY <3>2
    <3>. QED  BY <3>1, <3>3, <2>1, <1>1, <1>4
  <2>. QED  BY <2>3, <2>5, <2>9, <2>10
<1>. QED  BY <1>6, <1>7

------------------------------------------------------------------------------
(* The coder, one token at a time.                                         *)

Token == [len : Nat, val : Nat]

(* The two cases of the coder, and the function it is the last value of.   *)
CoderNone == [text |-> <<>>, code |-> <<>>]
CoderStep(s, t, k) == [text |-> s.text \o Meaning(s.text, t),
                       code |-> s.code \o CodeOf(t, k)]

CoderTo(ts, n, f) ==
  f = [k \in 0 .. n |-> IF k = 0 THEN CoderNone ELSE CoderStep(f[k - 1], ts[k], k)]

(* There is one for every number of tokens, ...                            *)
LEMMA CoderExists ==
  ASSUME NEW ts PROVE \A n \in Nat : \E f : CoderTo(ts, n, f)
<1>. DEFINE T == {n \in Nat : \E f : CoderTo(ts, n, f)}
<1>1. 0 \in T
  <2>. DEFINE f == [k \in 0 .. 0 |-> CoderNone]
  <2>1. CoderTo(ts, 0, f)
    BY DEF CoderTo
  <2>. QED  BY <2>1
<1>2. ASSUME NEW n \in Nat, n \in T PROVE n + 1 \in T
  <2>1. PICK f : CoderTo(ts, n, f)
    BY <1>2
  <2>. DEFINE g == [k \in 0 .. (n + 1) |->
                      IF k <= n THEN f[k] ELSE CoderStep(f[k - 1], ts[k], k)]
  <2>2. ASSUME NEW k \in 0 .. (n + 1)
        PROVE  g[k] = IF k = 0 THEN CoderNone ELSE CoderStep(g[k - 1], ts[k], k)
    BY <2>1 DEF CoderTo
  <2>3. CoderTo(ts, n + 1, g)
    BY <2>2 DEF CoderTo
  <2>. QED  BY <2>3
<1>. HIDE DEF T
<1>3. \A k \in Nat : k \in T
  BY <1>1, <1>2, Induction
<1>. QED  BY <1>3 DEF T

(* The parts of a step of the coder.                                       *)
LEMMA StepParts ==
  ASSUME NEW s, NEW t, NEW k
  PROVE  /\ CoderStep(s, t, k).text = s.text \o Meaning(s.text, t)
         /\ CoderStep(s, t, k).code = s.code \o CodeOf(t, k)
<1>1. ASSUME NEW x, NEW y
      PROVE  [text |-> x, code |-> y].text = x /\ [text |-> x, code |-> y].code = y
  OBVIOUS
<1>. QED  BY <1>1, Zenon DEF CoderStep

(* ... and Coder is taken from one.                                        *)
LEMMA CoderIs ==
  ASSUME NEW ts, NEW n \in Nat, Len(ts) = n
  PROVE  \E f : /\ Coder(ts) = f[n]
               /\ f[0] = CoderNone
               /\ \A k \in 1 .. n : f[k] = CoderStep(f[k - 1], ts[k], k)
<1>. DEFINE f == CHOOSE c : c = [k \in 0 .. n |->
                   IF k = 0 THEN CoderNone ELSE CoderStep(c[k - 1], ts[k], k)]
<1>1. \E g : CoderTo(ts, n, g)
  BY CoderExists
<1>2. CoderTo(ts, n, f)
  BY <1>1, Zenon DEF CoderTo
<1>3. Coder(ts) = f[n]
  BY Zenon DEF Coder, CoderNone, CoderStep
<1>. HIDE DEF f
<1>4. f[0] = CoderNone
  BY <1>2 DEF CoderTo
<1>5. ASSUME NEW k \in 1 .. n PROVE f[k] = CoderStep(f[k - 1], ts[k], k)
  BY <1>2 DEF CoderTo
<1>. QED  BY <1>3, <1>4, <1>5

(* No token: no text and no code.                                          *)
LEMMA CoderEmpty == Expand(<<>>) = <<>> /\ Encode(<<>>) = <<>>
<1>1. Len(<<>>) = 0
  OBVIOUS
<1>2. Coder(<<>>) = CoderNone
  BY <1>1, CoderIs
<1>. QED  BY <1>2 DEF Expand, Encode, CoderNone

(* One more token adds its meaning and its code.                           *)
LEMMA CoderAppend ==
  ASSUME NEW ts \in Seq(Token), NEW t \in Token
  PROVE  /\ Expand(Append(ts, t)) = Expand(ts) \o Meaning(Expand(ts), t)
         /\ Encode(Append(ts, t)) = Encode(ts) \o CodeOf(t, Len(ts) + 1)
<1>. DEFINE us == Append(ts, t)
            n  == Len(ts)
<1>1. n \in Nat /\ Len(us) = n + 1 /\ us[n + 1] = t
  OBVIOUS
<1>2. ASSUME NEW k \in 1 .. n PROVE us[k] = ts[k]
  OBVIOUS
<1>. HIDE DEF us, n
<1>3. PICK f : /\ Coder(ts) = f[n] /\ f[0] = CoderNone
               /\ \A k \in 1 .. n : f[k] = CoderStep(f[k - 1], ts[k], k)
  BY <1>1, CoderIs DEF n
<1>4. PICK g : /\ Coder(us) = g[n + 1] /\ g[0] = CoderNone
               /\ \A k \in 1 .. (n + 1) : g[k] = CoderStep(g[k - 1], us[k], k)
  <2>1. n + 1 \in Nat
    BY <1>1
  <2>. QED  BY <1>1, <2>1, CoderIs
<1>5. f[n] = g[n]
  <2>1. ASSUME NEW k \in 1 .. n, f[k - 1] = g[k - 1] PROVE f[k] = g[k]
    <3>1. k \in 1 .. (n + 1)
      BY <1>1
    <3>. QED  BY <1>2, <1>3, <1>4, <2>1, <3>1
  <2>2. f[0] = g[0]
    BY <1>3, <1>4
  <2>3. \A k \in 1 .. n : f[k - 1] = g[k - 1] => f[k] = g[k]
    BY <2>1
  <2>4. \A k \in 0 .. n : f[k] = g[k]
    BY <1>1, <2>2, <2>3, Alike
  <2>. QED  BY <1>1, <2>4
<1>6. g[n + 1] = CoderStep(g[n], t, n + 1)
  <2>1. n + 1 \in 1 .. (n + 1) /\ (n + 1) - 1 = n
    BY <1>1
  <2>. QED  BY <1>1, <1>4, <2>1
<1>7. Coder(us) = CoderStep(Coder(ts), t, n + 1)
  BY <1>3, <1>4, <1>5, <1>6
<1>8. Coder(us).text = Coder(ts).text \o Meaning(Coder(ts).text, t)
  <2>1. CoderStep(Coder(ts), t, n + 1).text = Coder(ts).text \o Meaning(Coder(ts).text, t)
    BY StepParts
  <2>. QED  BY <1>7, <2>1
<1>9. Coder(us).code = Coder(ts).code \o CodeOf(t, n + 1)
  <2>1. CoderStep(Coder(ts), t, n + 1).code = Coder(ts).code \o CodeOf(t, n + 1)
    BY StepParts
  <2>. QED  BY <1>7, <2>1, Zenon
<1>. QED  BY <1>8, <1>9 DEF Expand, Encode, us, n

(* Stored data are literals.                                               *)
LEMMA StoredText ==
  ASSUME NEW n \in Nat
  PROVE  LET ts == [b \in 1 .. n |-> [len |-> 0, val |-> (b - 1) % 2]]
         IN  ts \in Seq(Token) /\ Expand(ts) = [b \in 1 .. n |-> (b - 1) % 2]
<1>. DEFINE ts == [b \in 1 .. n |-> [len |-> 0, val |-> (b - 1) % 2]]
            W(k) == [b \in 1 .. k |-> (b - 1) % 2]
<1>1. ts \in Seq(Token) /\ Len(ts) = n
  <2>1. ASSUME NEW b \in 1 .. n PROVE (b - 1) % 2 \in Nat
    OBVIOUS
  <2>2. ts \in [1 .. n -> Token]
    BY <2>1 DEF Token
  <2>. QED  BY <2>2
<1>2. \A k \in 1 .. n : ts[k].len = 0 /\ ts[k].val = (k - 1) % 2
  OBVIOUS
<1>. HIDE DEF ts
<1>3. PICK f : /\ Coder(ts) = f[n] /\ f[0] = CoderNone
               /\ \A k \in 1 .. n : f[k] = CoderStep(f[k - 1], ts[k], k)
  BY <1>1, CoderIs
<1>4. f[0].text = <<>>
  BY <1>3 DEF CoderNone
<1>5. ASSUME NEW k \in 1 .. n PROVE f[k].text = f[k - 1].text \o <<(k - 1) % 2>>
  <2>1. f[k].text = f[k - 1].text \o Meaning(f[k - 1].text, ts[k])
    <3>1. CoderStep(f[k - 1], ts[k], k).text = f[k - 1].text \o Meaning(f[k - 1].text, ts[k])
      BY StepParts
    <3>2. f[k] = CoderStep(f[k - 1], ts[k], k)
      BY <1>3
    <3>. QED  BY <3>1, <3>2
  <2>2. Meaning(f[k - 1].text, ts[k]) = <<(k - 1) % 2>>
    BY <1>2, Zenon DEF Meaning
  <2>. QED  BY <2>1, <2>2
<1>. DEFINE T == {k \in Nat : k <= n => f[k].text = W(k)}
<1>6. 0 \in T
  <2>1. W(0) = <<>>
    OBVIOUS
  <2>. QED  BY <2>1, <1>4
<1>7. ASSUME NEW k \in Nat, k \in T PROVE k + 1 \in T
  <2>. SUFFICES ASSUME k + 1 <= n PROVE f[k + 1].text = W(k + 1)
    OBVIOUS
  <2>1. k + 1 \in 1 .. n /\ (k + 1) - 1 = k /\ f[k].text = W(k)
    BY <1>7
  <2>2. f[k + 1].text = W(k) \o <<k % 2>>
    BY <1>5, <2>1
  <2>3. W(k) \o <<k % 2>> = W(k + 1)
    <3>1. W(k) \in Seq(Int) /\ Len(W(k)) = k /\ k % 2 \in Int
      OBVIOUS
    <3>2. \A b \in 1 .. k : W(k)[b] = (b - 1) % 2
      OBVIOUS
    <3>3. W(k + 1) \in Seq(Int) /\ Len(W(k + 1)) = k + 1
      OBVIOUS
    <3>4. \A b \in 1 .. (k + 1) : W(k + 1)[b] = (b - 1) % 2
      OBVIOUS
    <3>. HIDE DEF W
    <3>5. W(k) \o <<k % 2>> \in Seq(Int) /\ Len(W(k) \o <<k % 2>>) = k + 1
      BY <3>1
    <3>6. ASSUME NEW b \in 1 .. (k + 1) PROVE (W(k) \o <<k % 2>>)[b] = W(k + 1)[b]
      <4>1. CASE b <= k
        BY <3>1, <3>2, <3>4, <4>1
      <4>2. CASE b = k + 1
        <5>1. (W(k) \o <<k % 2>>)[k + 1] = k % 2
          BY <3>1
        <5>2. (k + 1) - 1 = k
          OBVIOUS
        <5>. QED  BY <3>4, <4>2, <5>1, <5>2
      <4>3. b <= k \/ b = k + 1
        OBVIOUS
      <4>. QED  BY <4>1, <4>2, <4>3, Zenon
    <3>. DEFINE u == W(k) \o <<k % 2>>
                v == W(k + 1)
    <3>7. u \in Seq(Int) /\ v \in Seq(Int) /\ Len(u) = Len(v)
          /\ \A b \in 1 .. Len(u) : u[b] = v[b]
      BY <3>3, <3>5, <3>6
    <3>. HIDE DEF u, v
    <3>8. u = v
      BY <3>7, SeqEqual
    <3>. QED  BY <3>8 DEF u, v
  <2>. QED  BY <2>2, <2>3
<1>. HIDE DEF T
<1>8. n \in T
  BY <1>6, <1>7, Induction
<1>9. f[n].text = W(n)
  BY <1>8 DEF T
<1>. QED  BY <1>1, <1>3, <1>9 DEF Expand, ts

------------------------------------------------------------------------------
(* The decoder: the values its variables take, ...                         *)
ArzlTypeOK ==
  /\ stored \in Int /\ StreamType
  /\ pos \in Nat
  /\ apc \in {"full", "stored", "literal", "flag", "copy", "corrupt", "done"}
  /\ max_len \in Nat /\ v8 \in 0 .. max_len /\ v9 \in Int
  /\ buffer \in [DOMAIN buffer -> Int]
  /\ apc # "full" => DOMAIN buffer = 0 .. (max_len - 1)
  /\ tokens \in Seq(Token)

(* During the copy of a match of m + 1 bytes at a distance of d + 1, the   *)
(* bytes up to v95 and the one in v9 repeat the last d + 1 before it.      *)
Repeats(ts, m, d) ==
  /\ tokens = Append(ts, [len |-> m, val |-> d])
  /\ v96 = v8 + m /\ v97 = -(d + 1) /\ d < v8
  /\ v95 \in v8 .. v96 /\ v96 < max_len
  /\ Output = Expand(ts)
  /\ \A j \in 0 .. (v95 - v8 - 1) : buffer[v8 + j] = buffer[v8 - d - 1 + (j % (d + 1))]
  /\ v9 = buffer[v8 - d - 1 + ((v95 - v8) % (d + 1))]

(* The output, between tokens, during a match and at the end.              *)
OutputInv ==
  /\ apc \in {"literal", "flag"} => Output = Expand(tokens)
  /\ apc = "copy" => \E ts \in Seq(Token), m \in Nat, d \in Nat :
                       m >= 1 /\ Repeats(ts, m, d)
  /\ apc = "done" => [k \in 1 .. size |-> buffer[k - 1]] = Expand(tokens)

(* The bits that were used are the code of the tokens, and before a later  *)
(* literal the bit that announces it.                                      *)
CodeInv ==
  /\ apc \in {"literal", "flag", "copy"} =>
       Encode(tokens) \in Seq(Int) /\ Reads(0, Encode(tokens))
  /\ apc = "literal" =>
       IF Len(tokens) = 0 THEN pos = 0
       ELSE pos = Len(Encode(tokens)) + 1 /\ Bit(Len(Encode(tokens))) = 0
  /\ apc \in {"flag", "copy"} => Len(tokens) > 0 /\ pos = Len(Encode(tokens))

ArzlInv == ArzlTypeOK /\ OutputInv /\ CodeInv

(* The output is a sequence of numbers.                                    *)
LEMMA OutputType ==
  ASSUME ArzlTypeOK, apc # "full"
  PROVE  Output \in Seq(Int) /\ Len(Output) = v8 /\ \A k \in 1 .. v8 : Output[k] = buffer[k - 1]
<1>1. v8 \in Nat /\ \A k \in 1 .. v8 : k - 1 \in DOMAIN buffer
  BY DEF ArzlTypeOK
<1>2. \A k \in 1 .. v8 : buffer[k - 1] \in Int
  BY <1>1 DEF ArzlTypeOK
<1>3. Output \in [1 .. v8 -> Int]
  BY <1>2 DEF Output
<1>. QED  BY <1>1, <1>3 DEF Output

(* The invariant holds at first, ...                                       *)
LEMMA ArzlStart == ArzlInit => ArzlInv
<1>. SUFFICES ASSUME ArzlInit PROVE ArzlInv
  OBVIOUS
<1>1. ArzlTypeOK
  BY ArzlAssumption DEF ArzlInit, ArzlTypeOK, StreamType, Unset, Token
<1>. QED  BY <1>1 DEF ArzlInit, ArzlInv, OutputInv, CodeInv

(* ... and every step keeps its parts: the types, ...                      *)
LEMMA TypeStep == ASSUME ArzlInv, ArzlNext PROVE ArzlTypeOK'
<1>. USE DEF ArzlInv
<1>1. CASE Attempt
  <2>1. ASSUME NEW b \in 0 .. (2 * max_len - 1)
        PROVE  (IF b \in DOMAIN buffer THEN buffer[b] ELSE Unset) \in Int
    BY DEF ArzlTypeOK, Unset
  <2>2. buffer' \in [0 .. (max_len' - 1) -> Int]
    BY <1>1, <2>1 DEF Attempt
  <2>3. tokens' \in Seq(Token)
    BY <1>1 DEF Attempt
  <2>. QED  BY <1>1, <2>2, <2>3 DEF Attempt, ArzlTypeOK, StreamType
<1>2. CASE Stored
  <2>1. CASE max_len < stored
    BY <1>2, <2>1 DEF Stored, ArzlTypeOK, StreamType
  <2>2. CASE ~(max_len < stored)
    <3>1. apc = "stored" /\ apc' = "done" /\ UNCHANGED <<stored, stream, pos, max_len, v8, v9>>
      BY <1>2, <2>2 DEF Stored, Return
    <3>2. buffer' \in [0 .. (max_len' - 1) -> Int]
      <4>1. ASSUME NEW b \in DOMAIN buffer
            PROVE  (IF b < stored THEN b % 2 ELSE buffer[b]) \in Int
        BY <3>1 DEF ArzlTypeOK
      <4>2. buffer' = [b \in DOMAIN buffer |-> IF b < stored THEN b % 2 ELSE buffer[b]]
        BY <1>2, <2>2 DEF Stored
      <4>3. DOMAIN buffer = 0 .. (max_len' - 1)
        BY <3>1 DEF ArzlTypeOK
      <4>. QED  BY <4>1, <4>2, <4>3
    <3>3. tokens' \in Seq(Token)
      <4>1. tokens' = [b \in 1 .. stored |-> [len |-> 0, val |-> (b - 1) % 2]]
        BY <1>2, <2>2 DEF Stored
      <4>2. CASE stored >= 0
        <5>1. stored \in Nat
          BY <4>2 DEF ArzlTypeOK
        <5>. QED  BY <4>1, <5>1, StoredText
      <4>3. CASE ~(stored >= 0)
        <5>1. 1 .. stored = {}
          BY <4>3 DEF ArzlTypeOK
        <5>2. tokens' = <<>>
          BY <4>1, <5>1
        <5>. QED  BY <5>2
      <4>. QED  BY <4>2, <4>3
    <3>. QED  BY <3>1, <3>2, <3>3 DEF ArzlTypeOK, StreamType
  <2>. QED  BY <2>1, <2>2
<1>3. CASE BufferFull
  BY <1>3 DEF BufferFull, DecoderOnly, ArzlTypeOK, StreamType
<1>4. CASE Literal
  <2>. DEFINE b == Bits(pos, LitBits, 0)
  <2>1. b.val \in Nat /\ b.next = pos + LitBits /\ LitBits \in Nat
    BY ArzlAssumption, BitsRead DEF ArzlTypeOK
  <2>2. /\ apc = "literal" /\ v8 # max_len /\ v9' = b.val /\ pos' = b.next
        /\ buffer' = [buffer EXCEPT ![v8] = b.val]
        /\ tokens' = Append(tokens, [len |-> 0, val |-> b.val])
        /\ v8' = v8 + 1 /\ apc' = "flag" /\ UNCHANGED <<stored, stream, max_len>>
    BY <1>4 DEF Literal, DecoderOnly
  <2>. HIDE DEF b
  <2>3. [len |-> 0, val |-> b.val] \in Token
    BY <2>1 DEF Token
  <2>4. tokens' \in Seq(Token)
    BY <2>2, <2>3 DEF ArzlTypeOK
  <2>5. buffer \in [0 .. (max_len - 1) -> Int]
    BY <2>2 DEF ArzlTypeOK
  <2>6. buffer' \in [0 .. (max_len' - 1) -> Int]
    <3>1. buffer' = [buffer EXCEPT ![v8] = b.val] /\ max_len' = max_len
      BY <2>2
    <3>2. b.val \in Int
      BY <2>1
    <3>. QED  BY <2>5, <3>1, <3>2
  <2>7. DOMAIN buffer' = 0 .. (max_len' - 1) /\ buffer' \in [DOMAIN buffer' -> Int]
    BY <2>6
  <2>8. pos' \in Nat /\ v9' \in Int /\ v8' \in 0 .. max_len' /\ max_len' \in Nat
    <3>1. v9' = b.val /\ pos' = b.next /\ v8' = v8 + 1 /\ max_len' = max_len /\ v8 # max_len
      BY <2>2
    <3>2. pos \in Nat /\ v8 \in 0 .. max_len /\ max_len \in Nat
      BY DEF ArzlTypeOK
    <3>3. b.val \in Int /\ b.next \in Nat
      BY <2>1, <3>2
    <3>. QED  BY <3>1, <3>2, <3>3
  <2>9. stored' \in Int /\ StreamType'
    BY <2>2 DEF ArzlTypeOK, StreamType
  <2>. QED  BY <2>2, <2>4, <2>7, <2>8, <2>9 DEF ArzlTypeOK
<1>5. CASE AnotherLiteral
  BY <1>5 DEF AnotherLiteral, DecoderOnly, ArzlTypeOK, StreamType
<1>6. CASE EndCode
  <2>1. Length(pos + 1).next \in Nat
    <3>1. pos + 1 \in Nat /\ StreamType
      BY DEF ArzlTypeOK
    <3>2. /\ CodeOfLength(Length(pos + 1).val) \in Seq(Int)
          /\ Length(pos + 1).next = pos + 1 + Len(CodeOfLength(Length(pos + 1).val))
      BY <3>1, LengthRead
    <3>3. Len(CodeOfLength(Length(pos + 1).val)) \in Nat
      BY <3>2
    <3>. QED  BY <3>1, <3>2, <3>3
  <2>2. pos' = Length(pos + 1).next /\ apc = "flag" /\ apc' = "done"
        /\ UNCHANGED <<stored, stream, max_len, buffer, v8, v9, tokens>>
    BY <1>6 DEF EndCode, Return, DecoderOnly
  <2>. QED  BY <2>1, <2>2 DEF ArzlTypeOK, StreamType
<1>7. CASE Match
  <2>. DEFINE l == Length(pos + 1)
              d == Distance(l.next, l.val)
  <2>1. l.val \in Nat /\ l.val >= 1 /\ l.next \in Nat /\ d.val \in Nat /\ d.next \in Nat
    <3>1. pos + 1 \in Nat /\ StreamType
      BY DEF ArzlTypeOK
    <3>2. /\ l.val \in Nat /\ l.val >= 1 /\ CodeOfLength(l.val) \in Seq(Int)
          /\ l.next = pos + 1 + Len(CodeOfLength(l.val))
      BY <3>1, LengthRead
    <3>. HIDE DEF l
    <3>3. l.next \in Nat
      <4>1. Len(CodeOfLength(l.val)) \in Nat
        BY <3>2
      <4>. QED  BY <3>1, <3>2, <4>1
    <3>4. /\ d.val \in Nat /\ CodeOfDistance(l.val, d.val) \in Seq(Int)
          /\ d.next = l.next + Len(CodeOfDistance(l.val, d.val))
      BY <3>1, <3>2, <3>3, DistanceRead
    <3>. HIDE DEF d
    <3>5. Len(CodeOfDistance(l.val, d.val)) \in Nat
      BY <3>4
    <3>. QED  BY <3>2, <3>3, <3>4, <3>5
  <2>2. /\ apc = "flag" /\ pos' = d.next /\ UNCHANGED <<buffer, v8, stored, stream, max_len>>
        /\ \/ apc' = "corrupt" /\ UNCHANGED <<v9, tokens>>
           \/ /\ ~(v8 <= d.val) /\ v9' = buffer[v8 - (d.val + 1)]
              /\ \/ apc' = "copy" /\ tokens' = Append(tokens, [len |-> l.val, val |-> d.val])
                 \/ apc' = "full" /\ UNCHANGED tokens
    BY <1>7 DEF Match, DecoderOnly
  <2>. HIDE DEF l, d
  <2>3. v9' \in Int
    <3>1. CASE UNCHANGED v9
      BY <3>1 DEF ArzlTypeOK
    <3>2. CASE ~(v8 <= d.val) /\ v9' = buffer[v8 - (d.val + 1)]
      <4>1. v8 - (d.val + 1) \in DOMAIN buffer
        BY <2>1, <2>2, <3>2 DEF ArzlTypeOK
      <4>. QED  BY <3>2, <4>1 DEF ArzlTypeOK
    <3>. QED  BY <2>2, <3>1, <3>2
  <2>4. tokens' \in Seq(Token)
    <3>1. [len |-> l.val, val |-> d.val] \in Token
      BY <2>1 DEF Token
    <3>. QED  BY <2>2, <3>1 DEF ArzlTypeOK
  <2>. QED  BY <2>1, <2>2, <2>3, <2>4 DEF ArzlTypeOK, StreamType
<1>8. CASE CopyByte
  <2>1. PICK ts \in Seq(Token), m \in Nat, d \in Nat : m >= 1 /\ Repeats(ts, m, d)
    BY <1>8 DEF CopyByte, OutputInv
  <2>2. /\ v8 \in Nat /\ max_len \in Nat /\ v95 \in Int
        /\ v97 = -(d + 1) /\ d < v8 /\ v8 <= v95 /\ v95 < v96 /\ v96 < max_len
    <3>1. v97 = -(d + 1) /\ d < v8 /\ v95 \in v8 .. v96 /\ v96 < max_len /\ v96 = v8 + m
      BY <2>1 DEF Repeats
    <3>2. v8 \in Nat /\ max_len \in Nat
      BY DEF ArzlTypeOK
    <3>3. v95 # v96
      BY <1>8 DEF CopyByte
    <3>. QED  BY <3>1, <3>2, <3>3
  <2>3. /\ apc = "copy" /\ apc' = apc /\ buffer' = [buffer EXCEPT ![v95] = v9]
        /\ v9' = buffer'[v95 + 1 + v97]
        /\ UNCHANGED <<pos, v8, tokens, stored, stream, max_len>>
    BY <1>8 DEF CopyByte, DecoderOnly
  <2>4. buffer \in [0 .. (max_len - 1) -> Int] /\ v9 \in Int
    BY <2>3 DEF ArzlTypeOK
  <2>5. buffer' \in [0 .. (max_len - 1) -> Int]
    BY <2>3, <2>4
  <2>6. v95 + 1 + v97 \in 0 .. (max_len - 1)
    <3>1. v96 \in Int
      BY <2>1, <2>2 DEF Repeats
    <3>. QED  BY <2>2, <3>1
  <2>7. v9' \in Int
    BY <2>3, <2>5, <2>6
  <2>. QED  BY <2>3, <2>5, <2>7 DEF ArzlTypeOK, StreamType
<1>9. CASE LastByte
  <2>1. PICK ts \in Seq(Token), m \in Nat, d \in Nat : m >= 1 /\ Repeats(ts, m, d)
    BY <1>9 DEF LastByte, OutputInv
  <2>2. v8 \in Nat /\ max_len \in Nat /\ v95 = v8 + m /\ v95 < max_len
    BY <1>9, <2>1 DEF LastByte, Repeats, ArzlTypeOK
  <2>3. /\ apc = "copy" /\ apc' = "flag" /\ buffer' = [buffer EXCEPT ![v95] = v9]
        /\ v8' = v95 + 1 /\ UNCHANGED <<pos, v9, tokens, stored, stream, max_len>>
    BY <1>9 DEF LastByte, DecoderOnly
  <2>4. buffer \in [0 .. (max_len - 1) -> Int] /\ v9 \in Int
    BY <2>3 DEF ArzlTypeOK
  <2>5. buffer' \in [0 .. (max_len - 1) -> Int]
    BY <2>3, <2>4
  <2>. QED  BY <2>2, <2>3, <2>5 DEF ArzlTypeOK, StreamType
<1>. QED  BY <1>1, <1>2, <1>3, <1>4, <1>5, <1>6, <1>7, <1>8, <1>9 DEF ArzlNext

(* Bytes behind the output so far.                                         *)
LEMMA Longer ==
  ASSUME NEW s \in Seq(Int), NEW w \in Seq(Int), NEW f,
         \A k \in 1 .. Len(s) : f[k - 1] = s[k],
         \A k \in 1 .. Len(w) : f[Len(s) + k - 1] = w[k]
  PROVE  [k \in 1 .. (Len(s) + Len(w)) |-> f[k - 1]] = s \o w
<1>. DEFINE u == [k \in 1 .. (Len(s) + Len(w)) |-> f[k - 1]]
            v == s \o w
            n == Len(s)
            m == Len(w)
<1>1. n \in Nat /\ m \in Nat
  OBVIOUS
<1>2. v \in Seq(Int) /\ Len(v) = n + m
  OBVIOUS
<1>3. \A k \in 1 .. (n + m) : v[k] = IF k <= n THEN s[k] ELSE w[k - n]
  OBVIOUS
<1>. HIDE DEF v
<1>4. ASSUME NEW k \in 1 .. (n + m) PROVE f[k - 1] = v[k]
  <2>1. CASE k <= n
    BY <1>3, <2>1
  <2>2. CASE ~(k <= n)
    <3>1. k - n \in 1 .. m /\ n + (k - n) - 1 = k - 1
      BY <1>1, <2>2
    <3>2. f[n + (k - n) - 1] = w[k - n]
      BY <3>1
    <3>. QED  BY <1>3, <2>2, <3>1, <3>2
  <2>. QED  BY <2>1, <2>2
<1>5. ASSUME NEW k \in 1 .. (n + m) PROVE v[k] \in Int
  BY <1>2
<1>6. u \in [1 .. (n + m) -> Int]
  BY <1>4, <1>5
<1>7. u \in Seq(Int) /\ Len(u) = n + m
  <2>. HIDE DEF u, n, m
  <2>. DEFINE c == n + m
  <2>1. c \in Nat /\ u \in [1 .. c -> Int]
    BY <1>1, <1>6
  <2>. HIDE DEF c
  <2>2. u \in Seq(Int) /\ Len(u) = c
    BY <2>1
  <2>. QED  BY <2>2 DEF c
<1>8. \A k \in 1 .. Len(u) : u[k] = v[k]
  BY <1>4, <1>7
<1>. HIDE DEF u
<1>9. Len(u) = Len(v)
  BY <1>2, <1>7
<1>10. u = v
  BY <1>2, <1>7, <1>8, <1>9, SeqEqual
<1>. QED  BY <1>10 DEF u, v

(* The remainders of two numbers that are d + 1 apart.                     *)
LEMMA Cycle ==
  ASSUME NEW j \in Nat, NEW d \in Nat
  PROVE  /\ j % (d + 1) \in 0 .. d
         /\ j <= d => j % (d + 1) = j
         /\ j >= d => (j + 1) % (d + 1) = (j - d) % (d + 1)
<1>1. j % (d + 1) \in 0 .. d
  OBVIOUS
<1>2. j <= d => j % (d + 1) = j
  OBVIOUS
<1>3. ASSUME j >= d PROVE (j + 1) % (d + 1) = (j - d) % (d + 1)
  <2>. DEFINE b == d + 1
              x == j - d
              q == x \div b
              r == x % b
              y == j + 1
              z == y \div b
              t == y % b
  <2>1. b \in Nat /\ b > 0 /\ x \in Nat /\ y = x + b
    BY <1>3
  <2>. HIDE DEF b, x, y
  <2>2. q \in Int /\ r \in Int /\ x = b * q + r /\ 0 <= r /\ r < b
    BY <2>1
  <2>3. z \in Int /\ t \in Int /\ y = b * z + t /\ 0 <= t /\ t < b
    <3>1. y \in Nat
      BY <2>1
    <3>. QED  BY <2>1, <3>1
  <2>. HIDE DEF q, r, z, t
  <2>. DEFINE e == z - (q + 1)
  <2>4. e \in Int /\ b * z = b * q + b + b * e
    BY <2>1, <2>2, <2>3
  <2>. HIDE DEF e
  <2>5. b * e = r - t /\ r - t < b /\ -b < r - t
    <3>1. b * q \in Int /\ b * z \in Int /\ b * e \in Int
      BY <2>1, <2>2, <2>3, <2>4
    <3>. QED  BY <2>1, <2>2, <2>3, <2>4, <3>1
  <2>6. e = 0
    <3>1. ASSUME e >= 1 PROVE FALSE
      <4>1. b * e >= b
        BY <2>1, <2>4, <3>1
      <4>. QED  BY <4>1, <2>1, <2>2, <2>3, <2>5
    <3>2. ASSUME e <= -1 PROVE FALSE
      <4>1. b * e <= -b
        BY <2>1, <2>4, <3>2
      <4>. QED  BY <4>1, <2>1, <2>2, <2>3, <2>5
    <3>. QED  BY <2>4, <3>1, <3>2
  <2>7. r = t
    <3>1. b * e = 0
      BY <2>1, <2>6
    <3>. QED  BY <2>2, <2>3, <2>5, <3>1
  <2>. QED  BY <2>7 DEF r, t, x, y, b
<1>. QED  BY <1>1, <1>2, <1>3

(* ... the output, ...                                                     *)
LEMMA OutputStep == ASSUME ArzlInv, ArzlNext PROVE OutputInv'
<1>0. /\ stored \in Int /\ max_len \in Nat /\ v8 \in 0 .. max_len /\ v9 \in Int
      /\ tokens \in Seq(Token) /\ pos \in Nat /\ StreamType
      /\ apc # "full" => buffer \in [0 .. (max_len - 1) -> Int]
  BY DEF ArzlInv, ArzlTypeOK
<1>1. CASE Attempt
  <2>1. apc' \in {"stored", "literal"} /\ tokens' = <<>> /\ v8' = 0
    BY <1>1 DEF Attempt
  <2>2. Output' = <<>>
    BY <2>1 DEF Output
  <2>. QED  BY <2>1, <2>2, CoderEmpty DEF OutputInv
<1>2. CASE Stored
  <2>1. CASE max_len < stored
    BY <1>2, <2>1 DEF Stored, OutputInv
  <2>2. CASE ~(max_len < stored)
    <3>1. /\ apc = "stored" /\ apc' = "done" /\ size' = stored
          /\ buffer' = [b \in DOMAIN buffer |-> IF b < stored THEN b % 2 ELSE buffer[b]]
          /\ tokens' = [b \in 1 .. stored |-> [len |-> 0, val |-> (b - 1) % 2]]
      BY <1>2, <2>2 DEF Stored, Return
    <3>2. CASE stored >= 0
      <4>1. stored \in Nat /\ DOMAIN buffer = 0 .. (max_len - 1)
        BY <1>0, <3>1, <3>2
      <4>2. ASSUME NEW k \in 1 .. stored PROVE buffer'[k - 1] = (k - 1) % 2
        <5>1. k - 1 \in 0 .. (max_len - 1) /\ k - 1 < stored
          BY <1>0, <2>2, <4>1
        <5>. QED  BY <3>1, <4>1, <5>1
      <4>3. [k \in 1 .. stored |-> buffer'[k - 1]] = [k \in 1 .. stored |-> (k - 1) % 2]
        BY <4>2
      <4>4. Expand(tokens') = [k \in 1 .. stored |-> (k - 1) % 2]
        BY <3>1, <4>1, StoredText
      <4>. QED  BY <3>1, <4>3, <4>4 DEF OutputInv
    <3>3. CASE ~(stored >= 0)
      <4>1. 1 .. stored = {}
        BY <1>0, <3>3
      <4>2. tokens' = <<>>
        BY <3>1, <4>1
      <4>3. [k \in 1 .. size' |-> buffer'[k - 1]] = <<>>
        BY <3>1, <4>1
      <4>. QED  BY <3>1, <4>2, <4>3, CoderEmpty DEF OutputInv
    <3>. QED  BY <3>2, <3>3
  <2>. QED  BY <2>1, <2>2
<1>3. CASE BufferFull
  BY <1>3 DEF BufferFull, OutputInv
<1>4. CASE Literal
  <2>. DEFINE b == Bits(pos, LitBits, 0)
              t == [len |-> 0, val |-> b.val]
  <2>1. b.val \in Nat
    BY <1>0, ArzlAssumption, BitsRead
  <2>2. /\ apc = "literal" /\ apc' = "flag" /\ v8 # max_len /\ v8' = v8 + 1
        /\ buffer' = [buffer EXCEPT ![v8] = b.val] /\ tokens' = Append(tokens, t)
    BY <1>4 DEF Literal
  <2>. HIDE DEF b
  <2>3. t \in Token /\ t.len = 0 /\ t.val = b.val
    BY <2>1 DEF Token
  <2>. HIDE DEF t
  <2>4. /\ Output \in Seq(Int) /\ Len(Output) = v8 /\ Output = Expand(tokens)
        /\ \A k \in 1 .. v8 : Output[k] = buffer[k - 1]
    BY <2>2, OutputType DEF ArzlInv, OutputInv
  <2>5. Expand(tokens') = Output \o <<b.val>>
    <3>1. Meaning(Expand(tokens), t) = <<b.val>>
      BY <2>3 DEF Meaning
    <3>. QED  BY <1>0, <2>2, <2>3, <2>4, <3>1, CoderAppend
  <2>6. buffer \in [0 .. (max_len - 1) -> Int] /\ v8 \in 0 .. (max_len - 1)
    BY <1>0, <2>2
  <2>7. Output' = Output \o <<b.val>>
    <3>. DEFINE w == <<b.val>>
    <3>1. w \in Seq(Int) /\ Len(w) = 1 /\ w[1] = b.val
      BY <2>1
    <3>. HIDE DEF w
    <3>2. \A k \in 1 .. Len(Output) : buffer'[k - 1] = Output[k]
      BY <2>2, <2>4, <2>6
    <3>3. \A k \in 1 .. Len(w) : buffer'[Len(Output) + k - 1] = w[k]
      <4>1. buffer'[v8] = b.val
        BY <2>2, <2>6
      <4>2. v8 + 1 - 1 = v8
        BY <2>6
      <4>. QED  BY <2>4, <3>1, <4>1, <4>2
    <3>4. [k \in 1 .. (Len(Output) + Len(w)) |-> buffer'[k - 1]] = Output \o w
      BY <2>4, <3>1, <3>2, <3>3, Longer
    <3>5. Output' = [k \in 1 .. (Len(Output) + Len(w)) |-> buffer'[k - 1]]
      BY <2>2, <2>4, <3>1 DEF Output
    <3>. QED  BY <3>4, <3>5 DEF w
  <2>. QED  BY <2>2, <2>5, <2>7 DEF OutputInv
<1>5. CASE AnotherLiteral
  <2>1. apc = "flag" /\ apc' = "literal" /\ UNCHANGED <<buffer, v8, tokens>>
    BY <1>5 DEF AnotherLiteral
  <2>2. Output' = Output
    BY <2>1 DEF Output
  <2>. QED  BY <2>1, <2>2 DEF ArzlInv, OutputInv
<1>6. CASE EndCode
  <2>1. apc = "flag" /\ apc' = "done" /\ size' = v8 /\ UNCHANGED <<buffer, tokens>>
    BY <1>6 DEF EndCode, Return
  <2>2. [k \in 1 .. size' |-> buffer'[k - 1]] = Output
    BY <2>1 DEF Output
  <2>. QED  BY <2>1, <2>2 DEF ArzlInv, OutputInv
<1>7. CASE Match
  <2>0. PICK l, n, d, ts : /\ l = Length(pos + 1).val /\ n = Length(pos + 1).next
                           /\ d = Distance(n, l).val /\ ts = tokens
    OBVIOUS
  <2>1. l \in Nat /\ l >= 1 /\ d \in Nat
    <3>1. pos + 1 \in Nat
      BY <1>0
    <3>2. /\ l \in Nat /\ l >= 1 /\ CodeOfLength(l) \in Seq(Int)
          /\ n = pos + 1 + Len(CodeOfLength(l))
      BY <1>0, <2>0, <3>1, LengthRead
    <3>3. n \in Nat
      <4>1. Len(CodeOfLength(l)) \in Nat
        BY <3>2
      <4>. QED  BY <3>1, <3>2, <4>1
    <3>. QED  BY <1>0, <2>0, <3>2, <3>3, DistanceRead
  <2>2. /\ apc = "flag" /\ UNCHANGED <<buffer, v8, max_len>>
        /\ \/ apc' \in {"corrupt", "full"}
           \/ /\ ~(v8 <= d) /\ v95' = v8 /\ v96' = v8 + l /\ v97' = -(d + 1)
              /\ v9' = buffer[v8 - (d + 1)] /\ Fits(v8 + l)
              /\ apc' = "copy" /\ tokens' = Append(ts, [len |-> l, val |-> d])
    BY <1>7, <2>0 DEF Match, DecoderOnly
  <2>3. CASE apc' \in {"corrupt", "full"}
    BY <2>3 DEF OutputInv
  <2>4. CASE apc' = "copy"
    <3>1. /\ d < v8 /\ v95' = v8 /\ v96' = v8 + l /\ v97' = -(d + 1)
          /\ v9' = buffer[v8 - (d + 1)] /\ v8 + l < max_len
          /\ tokens' = Append(ts, [len |-> l, val |-> d])
      BY <1>0, <2>1, <2>2, <2>4 DEF Fits
    <3>2. Output' = Expand(ts)
      BY <2>0, <2>2 DEF ArzlInv, OutputInv, Output
    <3>3. \A j \in 0 .. (v95' - v8' - 1) :
            buffer'[v8' + j] = buffer'[v8' - d - 1 + (j % (d + 1))]
      <4>1. v95' - v8' - 1 = -1
        BY <1>0, <2>2, <3>1
      <4>. QED  BY <4>1
    <3>4. v9' = buffer'[v8' - d - 1 + ((v95' - v8') % (d + 1))]
      <4>1. (v95' - v8') % (d + 1) = 0
        <5>1. v95' - v8' = 0
          BY <1>0, <2>2, <3>1
        <5>2. 0 % (d + 1) = 0
          BY <2>1, Cycle
        <5>. QED  BY <5>1, <5>2
      <4>2. v8' - d - 1 + 0 = v8 - (d + 1)
        BY <1>0, <2>1, <2>2
      <4>. QED  BY <2>2, <3>1, <4>1, <4>2
    <3>5. v95' \in v8' .. v96' /\ v96' = v8' + l /\ v96' < max_len' /\ d < v8'
      BY <1>0, <2>1, <2>2, <3>1
    <3>6. Repeats(ts, l, d)'
      BY <3>1, <3>2, <3>3, <3>4, <3>5 DEF Repeats
    <3>. QED  BY <1>0, <2>0, <2>1, <2>4, <3>6 DEF OutputInv
  <2>. QED  BY <2>2, <2>3, <2>4
<1>8. CASE CopyByte
  <2>1. PICK ts \in Seq(Token), m \in Nat, d \in Nat : m >= 1 /\ Repeats(ts, m, d)
    BY <1>8 DEF CopyByte, ArzlInv, OutputInv
  <2>2. /\ apc = "copy" /\ apc' = apc /\ v95 # v96 /\ buffer' = [buffer EXCEPT ![v95] = v9]
        /\ v9' = buffer'[v95 + 1 + v97] /\ v95' = v95 + 1
        /\ UNCHANGED <<v8, v96, v97, tokens, max_len>>
    BY <1>8 DEF CopyByte, DecoderOnly
  <2>3. PICK i \in Nat : i = v95 - v8 /\ i < m
    <3>1. v95 \in v8 .. v96 /\ v96 = v8 + m /\ v95 # v96
      BY <2>1, <2>2 DEF Repeats
    <3>. QED  BY <1>0, <3>1
  <2>4. /\ v95 = v8 + i /\ v8 \in Nat /\ v96 = v8 + m /\ v96 < max_len /\ d < v8
        /\ v97 = -(d + 1)
    BY <1>0, <2>1, <2>3 DEF Repeats
  <2>5. buffer \in [0 .. (max_len - 1) -> Int]
    BY <1>0, <2>2
  <2>6. ASSUME NEW b \in 0 .. (v8 + i - 1) PROVE buffer'[b] = buffer[b]
    BY <1>0, <2>2, <2>3, <2>4, <2>5
  <2>7. buffer'[v8 + i] = v9
    <3>1. v8 + i \in 0 .. (max_len - 1)
      BY <1>0, <2>3, <2>4
    <3>. QED  BY <2>2, <2>4, <2>5, <3>1
  <2>8. ASSUME NEW j \in 0 .. i
        PROVE  buffer'[v8 + j] = buffer'[v8 - d - 1 + (j % (d + 1))]
    <3>1. j % (d + 1) \in 0 .. d
      <4>. j \in Nat
        OBVIOUS
      <4>. QED  BY Cycle
    <3>2. v8 - d - 1 + (j % (d + 1)) \in 0 .. (v8 + i - 1)
      BY <2>4, <3>1
    <3>3. buffer'[v8 - d - 1 + (j % (d + 1))] = buffer[v8 - d - 1 + (j % (d + 1))]
      BY <2>6, <3>2
    <3>4. CASE j < i
      <4>1. v8 + j \in 0 .. (v8 + i - 1) /\ j \in 0 .. (v95 - v8 - 1)
        BY <2>3, <2>4, <3>4
      <4>2. buffer[v8 + j] = buffer[v8 - d - 1 + (j % (d + 1))]
        BY <2>1, <4>1 DEF Repeats
      <4>. QED  BY <2>6, <3>3, <4>1, <4>2
    <3>5. CASE j = i
      <4>1. v9 = buffer[v8 - d - 1 + (i % (d + 1))]
        BY <2>1, <2>3 DEF Repeats
      <4>. QED  BY <2>7, <3>3, <3>5, <4>1
    <3>. QED  BY <3>4, <3>5
  <2>9. v9' = buffer'[v8 - d - 1 + ((i + 1) % (d + 1))]
    <3>1. v9' = buffer'[v8 + i - d]
      <4>1. v95 + 1 + v97 = v8 + i - d
        BY <2>4
      <4>. QED  BY <2>2, <4>1
    <3>2. CASE i < d
      <4>1. (i + 1) % (d + 1) = i + 1
        <5>1. i + 1 \in Nat /\ i + 1 <= d
          BY <3>2
        <5>. QED  BY <5>1, Cycle
      <4>2. v8 - d - 1 + (i + 1) = v8 + i - d
        BY <2>4
      <4>. QED  BY <3>1, <4>1, <4>2
    <3>3. CASE i >= d
      <4>1. (i + 1) % (d + 1) = (i - d) % (d + 1)
        BY <3>3, Cycle
      <4>2. i - d \in 0 .. i /\ v8 + (i - d) = v8 + i - d
        BY <2>4, <3>3
      <4>3. buffer'[v8 + (i - d)] = buffer'[v8 - d - 1 + ((i - d) % (d + 1))]
        BY <2>8, <4>2
      <4>. QED  BY <3>1, <4>1, <4>2, <4>3
    <3>. QED  BY <3>2, <3>3
  <2>10. Output' = Expand(ts)
    <3>1. \A k \in 1 .. v8 : buffer'[k - 1] = buffer[k - 1]
      BY <2>4, <2>6
    <3>2. Output' = Output
      BY <2>2, <3>1 DEF Output
    <3>. QED  BY <2>1, <3>2 DEF Repeats
  <2>11. Repeats(ts, m, d)'
    <3>1. v95' - v8' = i + 1 /\ v95' - v8' - 1 = i /\ v95' \in v8' .. v96'
      BY <2>2, <2>3, <2>4
    <3>2. /\ tokens' = Append(ts, [len |-> m, val |-> d]) /\ v96' = v8' + m
          /\ v97' = -(d + 1) /\ d < v8' /\ v96' < max_len'
      BY <2>1, <2>2 DEF Repeats
    <3>3. \A j \in 0 .. (v95' - v8' - 1) :
            buffer'[v8' + j] = buffer'[v8' - d - 1 + (j % (d + 1))]
      BY <2>2, <2>8, <3>1
    <3>4. v9' = buffer'[v8' - d - 1 + ((v95' - v8') % (d + 1))]
      BY <2>2, <2>9, <3>1
    <3>. QED  BY <2>10, <3>1, <3>2, <3>3, <3>4 DEF Repeats
  <2>. QED  BY <2>1, <2>2, <2>11 DEF OutputInv
<1>9. CASE LastByte
  <2>1. PICK ts \in Seq(Token), m \in Nat, d \in Nat : m >= 1 /\ Repeats(ts, m, d)
    BY <1>9 DEF LastByte, ArzlInv, OutputInv
  <2>2. /\ apc = "copy" /\ apc' = "flag" /\ v95 = v96 /\ buffer' = [buffer EXCEPT ![v95] = v9]
        /\ v8' = v95 + 1 /\ UNCHANGED tokens
    BY <1>9 DEF LastByte
  <2>3. /\ v95 = v8 + m /\ v8 \in Nat /\ v8 + m < max_len /\ d < v8
        /\ tokens = Append(ts, [len |-> m, val |-> d]) /\ Output = Expand(ts)
    BY <1>0, <2>1, <2>2 DEF Repeats
  <2>4. buffer \in [0 .. (max_len - 1) -> Int]
    BY <1>0, <2>2
  <2>5. ASSUME NEW b \in 0 .. (v8 + m - 1) PROVE buffer'[b] = buffer[b]
    BY <1>0, <2>2, <2>3, <2>4
  <2>6. ASSUME NEW j \in 0 .. m
        PROVE  buffer'[v8 + j] = buffer[v8 - d - 1 + (j % (d + 1))]
    <3>1. CASE j < m
      <4>1. v8 + j \in 0 .. (v8 + m - 1) /\ j \in 0 .. (v95 - v8 - 1)
        BY <2>3, <3>1
      <4>2. buffer[v8 + j] = buffer[v8 - d - 1 + (j % (d + 1))]
        BY <2>1, <4>1 DEF Repeats
      <4>. QED  BY <2>5, <4>1, <4>2
    <3>2. CASE j = m
      <4>1. v95 - v8 = m /\ v8 + m \in 0 .. (max_len - 1)
        BY <1>0, <2>3
      <4>2. v9 = buffer[v8 - d - 1 + (m % (d + 1))]
        BY <2>1, <4>1 DEF Repeats
      <4>3. buffer'[v8 + m] = v9
        BY <2>2, <2>3, <2>4, <4>1
      <4>. QED  BY <3>2, <4>2, <4>3
    <3>. QED  BY <3>1, <3>2
  <2>. DEFINE t == [len |-> m, val |-> d]
              w == [k \in 1 .. (m + 1) |-> Output[v8 - d + ((k - 1) % (d + 1))]]
  <2>7. /\ Output \in Seq(Int) /\ Len(Output) = v8
        /\ \A k \in 1 .. v8 : Output[k] = buffer[k - 1]
    BY <2>2, OutputType DEF ArzlInv
  <2>8. Expand(tokens') = Output \o w
    <3>1. t \in Token /\ t.len = m /\ t.val = d /\ m # 0
      BY <2>1 DEF Token
    <3>. HIDE DEF t
    <3>2. Meaning(Output, t) = w
      BY <2>7, <3>1 DEF Meaning
    <3>3. tokens' = Append(ts, t)
      BY <2>2, <2>3 DEF t
    <3>. HIDE DEF w
    <3>. QED  BY <2>1, <2>3, <3>1, <3>2, <3>3, CoderAppend
  <2>9. ASSUME NEW k \in 1 .. (m + 1)
        PROVE  /\ Output[v8 - d + ((k - 1) % (d + 1))] \in Int
               /\ buffer'[v8 + k - 1] = Output[v8 - d + ((k - 1) % (d + 1))]
    <3>. DEFINE j == k - 1
                c == v8 - d + (j % (d + 1))
    <3>1. j \in 0 .. m /\ j \in Nat /\ j % (d + 1) \in 0 .. d
      <4>1. j \in 0 .. m /\ j \in Nat
        OBVIOUS
      <4>. HIDE DEF j
      <4>. QED  BY <4>1, Cycle
    <3>2. c \in 1 .. v8 /\ c - 1 = v8 - d - 1 + (j % (d + 1))
      BY <2>3, <3>1
    <3>3. v8 + k - 1 = v8 + j
      BY <2>3
    <3>4. buffer'[v8 + j] = buffer[c - 1]
      BY <2>6, <3>1, <3>2
    <3>. HIDE DEF c
    <3>5. Output[c] = buffer[c - 1] /\ Output[c] \in Int
      BY <2>7, <3>2
    <3>. QED  BY <3>3, <3>4, <3>5 DEF c
  <2>10. w \in Seq(Int) /\ Len(w) = m + 1
    <3>1. w \in [1 .. (m + 1) -> Int]
      BY <2>9
    <3>2. m + 1 \in Nat
      OBVIOUS
    <3>. HIDE DEF w
    <3>. QED  BY <3>1, <3>2
  <2>11. Output' = Output \o w
    <3>1. \A k \in 1 .. Len(Output) : buffer'[k - 1] = Output[k]
      <4>1. ASSUME NEW k \in 1 .. v8 PROVE buffer'[k - 1] = Output[k]
        <5>1. k - 1 \in 0 .. (v8 + m - 1)
          BY <2>3
        <5>. QED  BY <2>5, <2>7, <5>1
      <4>. QED  BY <2>7, <4>1
    <3>2. \A k \in 1 .. Len(w) : buffer'[Len(Output) + k - 1] = w[k]
      BY <2>7, <2>9, <2>10
    <3>. HIDE DEF w
    <3>3. [k \in 1 .. (Len(Output) + Len(w)) |-> buffer'[k - 1]] = Output \o w
      BY <2>7, <2>10, <3>1, <3>2, Longer
    <3>4. Len(Output) + Len(w) = v8'
      BY <2>2, <2>3, <2>7, <2>10
    <3>. QED  BY <3>3, <3>4 DEF Output
  <2>. HIDE DEF w
  <2>. QED  BY <2>2, <2>8, <2>11 DEF OutputInv
<1>. QED  BY <1>1, <1>2, <1>3, <1>4, <1>5, <1>6, <1>7, <1>8, <1>9 DEF ArzlNext

(* A code behind the code so far.                                          *)
LEMMA ReadsPast ==
  ASSUME NEW s \in Seq(Int), NEW w \in Seq(Int), Reads(0, s), Reads(Len(s), w)
  PROVE  s \o w \in Seq(Int) /\ Len(s \o w) = Len(s) + Len(w) /\ Reads(0, s \o w)
<1>1. Len(s) \in Nat /\ 0 + Len(s) = Len(s)
  OBVIOUS
<1>2. Reads(0, s \o w)
  BY <1>1, ReadsCat
<1>. QED  BY <1>2

(* The input does not change.                                              *)
LEMMA ReadsNext ==
  ASSUME UNCHANGED stream, Reads(0, Encode(tokens'))
  PROVE  Reads(0, Encode(tokens))'
  BY DEF Reads, Bit

(* ... and the bits that were used.                                        *)
LEMMA CodeStep == ASSUME ArzlInv, ArzlNext PROVE CodeInv'
<1>0. tokens \in Seq(Token) /\ pos \in Nat /\ StreamType /\ Len(tokens) \in Nat
  BY DEF ArzlInv, ArzlTypeOK
<1>1. CASE Attempt
  <2>1. apc' \in {"stored", "literal"} /\ tokens' = <<>> /\ pos' = 0
    BY <1>1 DEF Attempt
  <2>2. Encode(tokens') = <<>> /\ Len(tokens') = 0
    BY <2>1, CoderEmpty
  <2>3. Reads(0, Encode(tokens))' /\ Encode(tokens') \in Seq(Int)
    BY <2>2 DEF Reads
  <2>. QED  BY <2>1, <2>2, <2>3 DEF CodeInv
<1>2. CASE Stored
  BY <1>2 DEF Stored, Return, CodeInv
<1>3. CASE BufferFull
  BY <1>3 DEF BufferFull, CodeInv
<1>4. CASE Literal
  <2>. DEFINE b == Bits(pos, LitBits, 0)
              t == [len |-> 0, val |-> b.val]
              w == Digits(b.val, LitBits)
              e == Encode(tokens)
  <2>1. b.val \in Nat /\ b.next = pos + LitBits /\ LitBits \in Nat /\ Reads(pos, w)
    BY <1>0, ArzlAssumption, BitsRead
  <2>2. /\ apc = "literal" /\ apc' = "flag" /\ pos' = b.next
        /\ tokens' = Append(tokens, t) /\ UNCHANGED stream
    BY <1>4 DEF Literal, DecoderOnly
  <2>. HIDE DEF b
  <2>3. t \in Token /\ t.len = 0 /\ t.val = b.val
    BY <2>1 DEF Token
  <2>. HIDE DEF t
  <2>4. w \in Seq(Int) /\ Len(w) = LitBits
    BY <2>1, DigitsType
  <2>5. CodeOf(t, Len(tokens) + 1) = (IF Len(tokens) + 1 = 1 THEN <<>> ELSE <<0>>) \o w
    BY <2>3 DEF CodeOf
  <2>6. Encode(tokens') = e \o CodeOf(t, Len(tokens) + 1)
    BY <1>0, <2>2, <2>3, CoderAppend
  <2>7. e \in Seq(Int) /\ Reads(0, e)
    BY <2>2 DEF ArzlInv, CodeInv
  <2>. HIDE DEF w
  <2>8. /\ Encode(tokens') \in Seq(Int) /\ Reads(0, Encode(tokens'))
        /\ Len(Encode(tokens')) = pos'
    <3>1. CASE Len(tokens) = 0
      <4>1. pos = 0 /\ tokens = <<>>
        BY <1>0, <2>2, <3>1 DEF ArzlInv, CodeInv
      <4>2. e = <<>>
        BY <4>1, CoderEmpty
      <4>3. CodeOf(t, Len(tokens) + 1) = w
        BY <2>4, <2>5, <3>1
      <4>4. Encode(tokens') = w
        BY <2>4, <2>6, <4>2, <4>3
      <4>. QED  BY <2>1, <2>2, <2>4, <4>1, <4>4
    <3>2. CASE Len(tokens) # 0
      <4>1. pos = Len(e) + 1 /\ Bit(Len(e)) = 0 /\ Len(e) \in Nat
        BY <2>2, <2>7, <3>2 DEF ArzlInv, CodeInv
      <4>2. Encode(tokens') = e \o (<<0>> \o w)
        <5>1. Len(tokens) + 1 # 1
          BY <1>0, <3>2
        <5>2. CodeOf(t, Len(tokens) + 1) = <<0>> \o w
          BY <2>5, <5>1
        <5>. QED  BY <2>6, <5>2
      <4>. HIDE DEF e
      <4>3. Reads(Len(e), <<0>>) /\ <<0>> \in Seq(Int) /\ Len(<<0>>) = 1
        BY <4>1, ReadsOne
      <4>. DEFINE x == <<0>> \o w
      <4>4. Reads(Len(e), x)
        BY <2>1, <2>4, <4>1, <4>3, ReadsCat
      <4>5. x \in Seq(Int) /\ Len(x) = LitBits + 1
        BY <2>1, <2>4
      <4>. HIDE DEF x
      <4>6. e \o x \in Seq(Int) /\ Len(e \o x) = Len(e) + Len(x) /\ Reads(0, e \o x)
        BY <2>7, <4>4, <4>5, ReadsPast
      <4>7. pos' = Len(e) + Len(x)
        BY <2>1, <2>2, <4>1, <4>5
      <4>. QED  BY <4>2, <4>6, <4>7 DEF x
    <3>. QED  BY <3>1, <3>2
  <2>9. Len(tokens') > 0
    BY <1>0, <2>2, <2>3
  <2>10. Reads(0, Encode(tokens))'
    BY <2>2, <2>8, ReadsNext
  <2>. QED  BY <2>2, <2>8, <2>9, <2>10 DEF CodeInv
<1>5. CASE AnotherLiteral
  <2>1. /\ apc = "flag" /\ apc' = "literal" /\ Bit(pos) = 0 /\ pos' = pos + 1
        /\ UNCHANGED <<tokens, stream>>
    BY <1>5 DEF AnotherLiteral, DecoderOnly
  <2>2. /\ Encode(tokens) \in Seq(Int) /\ Reads(0, Encode(tokens))
        /\ Len(tokens) > 0 /\ pos = Len(Encode(tokens))
    BY <2>1 DEF ArzlInv, CodeInv
  <2>3. Reads(0, Encode(tokens))'
    BY <2>1, <2>2, ReadsNext
  <2>4. Bit(Len(Encode(tokens)))' = 0
    BY <2>1, <2>2 DEF Bit
  <2>. QED  BY <1>0, <2>1, <2>2, <2>3, <2>4 DEF CodeInv
<1>6. CASE EndCode
  BY <1>6 DEF EndCode, Return, CodeInv
<1>7. CASE Match
  <2>. DEFINE l == Length(pos + 1)
              d == Distance(l.next, l.val)
              x == CodeOfLength(l.val)
              y == CodeOfDistance(l.val, d.val)
              t == [len |-> l.val, val |-> d.val]
              e == Encode(tokens)
  <2>1. /\ apc = "flag" /\ Bit(pos) = 1 /\ pos' = d.next /\ UNCHANGED stream
        /\ apc' \in {"corrupt", "full", "copy"}
        /\ apc' = "copy" => tokens' = Append(tokens, t)
    BY <1>7 DEF Match, DecoderOnly
  <2>2. /\ l.val \in Nat /\ l.val >= 1 /\ x \in Seq(Int)
        /\ l.next = pos + 1 + Len(x) /\ Reads(pos + 1, x)
    <3>1. pos + 1 \in Nat
      BY <1>0
    <3>. QED  BY <1>0, <3>1, LengthRead
  <2>. HIDE DEF l
  <2>3. l.next \in Nat
    <3>1. Len(x) \in Nat
      BY <2>2
    <3>. QED  BY <1>0, <2>2, <3>1
  <2>4. /\ d.val \in Nat /\ y \in Seq(Int) /\ d.next = l.next + Len(y) /\ Reads(l.next, y)
    BY <1>0, <2>2, <2>3, DistanceRead
  <2>. HIDE DEF d
  <2>5. CASE apc' # "copy"
    BY <2>1, <2>5 DEF CodeInv
  <2>6. CASE apc' = "copy"
    <3>1. t \in Token /\ t.len = l.val /\ t.val = d.val /\ l.val # 0
      BY <2>2, <2>4 DEF Token
    <3>2. tokens' = Append(tokens, t)
      BY <2>1, <2>6
    <3>. HIDE DEF t
    <3>3. Encode(tokens') = e \o CodeOf(t, Len(tokens) + 1)
      BY <1>0, <3>1, <3>2, CoderAppend
    <3>4. CodeOf(t, Len(tokens) + 1) = <<1>> \o x \o y
      BY <3>1 DEF CodeOf
    <3>5. e \in Seq(Int) /\ Reads(0, e) /\ pos = Len(e)
      BY <2>1 DEF ArzlInv, CodeInv
    <3>. HIDE DEF x, y, e
    <3>. DEFINE z == <<1>> \o x
                c == z \o y
    <3>6. Reads(pos, <<1>>) /\ <<1>> \in Seq(Int) /\ Len(<<1>>) = 1
      BY <1>0, <2>1, ReadsOne
    <3>7. Reads(pos, z)
      BY <1>0, <2>2, <3>6, ReadsCat
    <3>8. z \in Seq(Int) /\ Len(z) = 1 + Len(x) /\ Len(x) \in Nat
      BY <2>2
    <3>. HIDE DEF z
    <3>9. pos + Len(z) = l.next
      BY <1>0, <2>2, <3>8
    <3>10. Reads(pos, c)
      BY <1>0, <2>4, <3>7, <3>8, <3>9, ReadsCat
    <3>11. c \in Seq(Int) /\ Len(c) = Len(z) + Len(y) /\ Len(y) \in Nat /\ Len(z) \in Nat
      <4>1. y \in Seq(Int) /\ z \in Seq(Int)
        BY <2>4, <3>8
      <4>. QED  BY <4>1
    <3>. HIDE DEF c
    <3>12. e \o c \in Seq(Int) /\ Len(e \o c) = Len(e) + Len(c) /\ Reads(0, e \o c)
      BY <3>5, <3>10, <3>11, ReadsPast
    <3>13. Encode(tokens') = e \o c
      BY <3>3, <3>4 DEF c, z
    <3>14. Len(e \o c) = pos'
      BY <1>0, <2>1, <2>4, <3>5, <3>9, <3>11, <3>12
    <3>15. Reads(0, Encode(tokens))'
      BY <2>1, <3>12, <3>13, ReadsNext
    <3>16. Len(tokens') > 0
      BY <1>0, <3>1, <3>2
    <3>. QED  BY <2>6, <3>12, <3>13, <3>14, <3>15, <3>16 DEF CodeInv
  <2>. QED  BY <2>5, <2>6
<1>8. ASSUME CopyByte \/ LastByte PROVE CodeInv'
  <2>1. apc = "copy" /\ apc' \in {"copy", "flag"} /\ UNCHANGED <<pos, tokens, stream>>
    BY <1>8 DEF CopyByte, LastByte, DecoderOnly
  <2>2. /\ Encode(tokens) \in Seq(Int) /\ Reads(0, Encode(tokens))
        /\ Len(tokens) > 0 /\ pos = Len(Encode(tokens))
    BY <2>1 DEF ArzlInv, CodeInv
  <2>3. Reads(0, Encode(tokens))'
    BY <2>1, <2>2, ReadsNext
  <2>. QED  BY <2>1, <2>2, <2>3 DEF CodeInv
<1>. QED  BY <1>1, <1>2, <1>3, <1>4, <1>5, <1>6, <1>7, <1>8 DEF ArzlNext

(* Whatever the stream, and however often the buffer was too small before: *)
(* between two tokens unarzl's buffer holds what the tokens read so far    *)
(* stand for, overlapping matches included, the bits used are their code,  *)
(* and nothing is written behind the buffer.                               *)
THEOREM DecoderCorrect == ArzlSpec => []DecodedInPlace
<1>1. ASSUME ArzlInv, [ArzlNext]_arzlVars PROVE ArzlInv'
  <2>1. CASE ArzlNext
    BY <1>1, <2>1, TypeStep, OutputStep, CodeStep DEF ArzlInv
  <2>2. CASE UNCHANGED arzlVars
    <3>1. UNCHANGED <<stored, stream, pos, apc, max_len, buffer, v8, v9, v95, v96, v97, tokens, size>>
      BY <2>2 DEF arzlVars
    <3>2. ArzlTypeOK'
      BY <1>1, <3>1 DEF ArzlInv, ArzlTypeOK, StreamType
    <3>3. OutputInv'
      BY <1>1, <3>1 DEF ArzlInv, OutputInv, Repeats, Output
    <3>4. CodeInv'
      BY <1>1, <3>1 DEF ArzlInv, CodeInv, Reads, Bit
    <3>. QED  BY <3>2, <3>3, <3>4 DEF ArzlInv
  <2>. QED  BY <1>1, <2>1, <2>2
<1>2. ArzlInv => DecodedInPlace
  <2>. SUFFICES ASSUME ArzlInv PROVE DecodedInPlace
    OBVIOUS
  <2>1. v8 <= max_len
    BY DEF ArzlInv, ArzlTypeOK
  <2>2. ASSUME apc = "flag"
        PROVE  /\ Output = Expand(tokens) /\ Len(Encode(tokens)) = pos
               /\ \A k \in 1 .. pos : Bit(k - 1) = Encode(tokens)[k]
    <3>1. Output = Expand(tokens) /\ pos = Len(Encode(tokens)) /\ Reads(0, Encode(tokens))
      BY <2>2 DEF ArzlInv, OutputInv, CodeInv
    <3>2. ASSUME NEW k \in 1 .. pos PROVE Bit(k - 1) = Encode(tokens)[k]
      <4>1. 0 + k - 1 = k - 1
        BY DEF ArzlInv, ArzlTypeOK
      <4>. QED  BY <3>1, <4>1 DEF Reads
    <3>. QED  BY <3>1, <3>2
  <2>. QED  BY <2>1, <2>2 DEF DecodedInPlace, ArzlInv, OutputInv
<1>. QED  BY <1>1, <1>2, ArzlStart, PTL DEF ArzlSpec

------------------------------------------------------------------------------
(* YamlTree: sequences of anything.                                        *)

IsSeq(s) == \E S : s \in Seq(S)

(* Two sequences are sequences over one set.                               *)
LEMMA TwoSeqs ==
  ASSUME NEW s, NEW t, IsSeq(s), IsSeq(t)
  PROVE  \E S : s \in Seq(S) /\ t \in Seq(S)
<1>1. PICK A : s \in Seq(A)
  BY DEF IsSeq
<1>2. PICK B : t \in Seq(B)
  BY DEF IsSeq
<1>. DEFINE S == A \cup B
<1>3. A \subseteq S /\ B \subseteq S
  OBVIOUS
<1>. HIDE DEF S
<1>4. s \in Seq(S) /\ t \in Seq(S)
  BY <1>1, <1>2, <1>3, SeqMonotonic
<1>. QED  BY <1>4

LEMMA OneSeq == ASSUME NEW x PROVE IsSeq(<<x>>) /\ IsSeq(<<>>)
<1>1. <<x>> \in Seq({x}) /\ <<>> \in Seq({x})
  OBVIOUS
<1>. QED  BY <1>1 DEF IsSeq

(* The empty sequence changes nothing.                                     *)
LEMMA CatSeq ==
  ASSUME NEW s, NEW t, IsSeq(s), IsSeq(t)
  PROVE  IsSeq(s \o t) /\ <<>> \o s = s /\ s \o <<>> = s
<1>1. PICK S : s \in Seq(S) /\ t \in Seq(S)
  BY TwoSeqs
<1>2. s \o t \in Seq(S) /\ <<>> \o s = s /\ s \o <<>> = s
  BY <1>1
<1>. QED  BY <1>2 DEF IsSeq

(* An element in front of a sequence, ...                                  *)
LEMMA ConsSeq ==
  ASSUME NEW x, NEW s, IsSeq(s)
  PROVE  /\ IsSeq(<<x>> \o s) /\ <<x>> \o s # <<>>
         /\ Head(<<x>> \o s) = x /\ Tail(<<x>> \o s) = s
<1>1. PICK S : <<x>> \in Seq(S) /\ s \in Seq(S)
  BY OneSeq, TwoSeqs
<1>2. IsSeq(<<x>> \o s)
  BY OneSeq, CatSeq
<1>3. <<x>> \o s \in Seq(S) /\ Len(<<x>> \o s) = Len(s) + 1 /\ Len(s) \in Nat
  BY <1>1
<1>4. <<x>> \o s # <<>> /\ Head(<<x>> \o s) = x
  BY <1>1, <1>3
<1>5. Tail(<<x>> \o s) = s
  <2>. DEFINE u == Tail(<<x>> \o s)
  <2>1. u \in Seq(S) /\ Len(u) = Len(s)
    BY <1>3, <1>4
  <2>2. \A i \in 1 .. Len(s) : u[i] = s[i]
    BY <1>1, <1>3, <1>4
  <2>. HIDE DEF u
  <2>3. u = s
    BY <1>1, <2>1, <2>2, SeqEqual
  <2>. QED  BY <2>3 DEF u
<1>. QED  BY <1>2, <1>4, <1>5

(* ... and one behind it.                                                  *)
LEMMA SnocSeq ==
  ASSUME NEW x, NEW s, NEW t, IsSeq(s), IsSeq(t)
  PROVE  /\ IsSeq(Append(s, x)) /\ Len(Append(s, x)) = Len(s) + 1
         /\ Append(s, x) \o t = s \o (<<x>> \o t)
<1>1. PICK R : s \in Seq(R) /\ t \in Seq(R)
  BY TwoSeqs
<1>. DEFINE S == R \cup {x}
<1>2. R \subseteq S /\ x \in S
  OBVIOUS
<1>. HIDE DEF S
<1>3. s \in Seq(S) /\ t \in Seq(S) /\ <<x>> \in Seq(S)
  BY <1>1, <1>2, SeqMonotonic
<1>4. Append(s, x) \in Seq(S) /\ Len(Append(s, x)) = Len(s) + 1
  BY <1>2, <1>3
<1>5. Append(s, x) = s \o <<x>>
  BY <1>2, <1>3, AppendIsConcat
<1>6. (s \o <<x>>) \o t = s \o (<<x>> \o t)
  BY <1>3, ConcatAssociative
<1>. QED  BY <1>4, <1>5, <1>6 DEF IsSeq

------------------------------------------------------------------------------
(* The walk over a tree, from what is to be visited before the i-th event  *)
(* to what is left before the j-th.                                        *)

Walk(es, a, i, b, j) ==
  \E f : /\ f[i] = a /\ f[j] = b
         /\ \A k \in i .. (j - 1) :
              f[k] # <<>> /\ es[k] = Name(Head(f[k])) /\ f[k + 1] = Visit(f[k])

(* A walk of no event.                                                     *)
LEMMA WalkNone == ASSUME NEW es, NEW a, NEW i \in Nat PROVE Walk(es, a, i, a, i)
<1>. DEFINE f == [k \in {i} |-> a]
<1>1. f[i] = a /\ i .. (i - 1) = {}
  OBVIOUS
<1>. HIDE DEF f
<1>. QED  BY <1>1 DEF Walk

(* A walk of one event: a node is named, and what is below it comes next.  *)
LEMMA WalkOne ==
  ASSUME NEW es, NEW x, NEW rest, IsSeq(rest), NEW i \in Nat, es[i] = Name(x)
  PROVE  Walk(es, <<x>> \o rest, i, Below(x) \o rest, i + 1)
<1>. DEFINE a == <<x>> \o rest
            b == Below(x) \o rest
            f == [k \in {i, i + 1} |-> IF k = i THEN a ELSE b]
<1>1. a # <<>> /\ Head(a) = x /\ Tail(a) = rest
  BY ConsSeq
<1>2. Visit(a) = b
  BY <1>1, Zenon DEF Visit
<1>. HIDE DEF a, b
<1>3. f[i] = a /\ f[i + 1] = b
  OBVIOUS
<1>. HIDE DEF f
<1>4. ASSUME NEW k \in i .. ((i + 1) - 1)
      PROVE  f[k] # <<>> /\ es[k] = Name(Head(f[k])) /\ f[k + 1] = Visit(f[k])
  <2>1. k = i
    OBVIOUS
  <2>. QED  BY <1>1, <1>2, <1>3, <2>1
<1>5. Walk(es, a, i, b, i + 1)
  BY <1>3, <1>4 DEF Walk
<1>. QED  BY <1>5 DEF a, b

(* Two walks, one after the other.                                         *)
LEMMA WalkCat ==
  ASSUME NEW es, NEW a, NEW b, NEW c, NEW i \in Nat, NEW j \in Nat, NEW n \in Nat,
         i <= j, j <= n, Walk(es, a, i, b, j), Walk(es, b, j, c, n)
  PROVE  Walk(es, a, i, c, n)
<1>. DEFINE Goes(f, k) == f[k] # <<>> /\ es[k] = Name(Head(f[k])) /\ f[k + 1] = Visit(f[k])
<1>1. PICK f : f[i] = a /\ f[j] = b /\ \A k \in i .. (j - 1) : Goes(f, k)
  BY DEF Walk
<1>2. PICK g : g[j] = b /\ g[n] = c /\ \A k \in j .. (n - 1) : Goes(g, k)
  BY DEF Walk
<1>. DEFINE h == [k \in i .. n |-> IF k < j THEN f[k] ELSE g[k]]
<1>3. \A k \in i .. n : h[k] = IF k < j THEN f[k] ELSE g[k]
  OBVIOUS
<1>. HIDE DEF h
<1>4. h[i] = a /\ h[n] = c
  <2>1. i \in i .. n /\ n \in i .. n /\ ~(n < j)
    OBVIOUS
  <2>2. h[n] = c
    BY <1>2, <1>3, <2>1
  <2>3. CASE i < j
    BY <1>1, <1>3, <2>1, <2>2, <2>3
  <2>4. CASE i = j
    BY <1>1, <1>2, <1>3, <2>1, <2>2, <2>4
  <2>. QED  BY <2>3, <2>4
<1>5. ASSUME NEW k \in i .. (n - 1) PROVE Goes(h, k)
  <2>0. k \in i .. n /\ k + 1 \in i .. n
    OBVIOUS
  <2>1. CASE k + 1 < j
    <3>1. h[k] = f[k] /\ h[k + 1] = f[k + 1] /\ k \in i .. (j - 1)
      BY <1>3, <2>0, <2>1
    <3>. QED  BY <1>1, <3>1
  <2>2. CASE k + 1 = j
    <3>1. h[k] = f[k] /\ h[k + 1] = g[j] /\ k \in i .. (j - 1) /\ g[j] = f[k + 1]
      BY <1>1, <1>2, <1>3, <2>0, <2>2
    <3>. QED  BY <1>1, <3>1
  <2>3. CASE k >= j
    <3>1. h[k] = g[k] /\ h[k + 1] = g[k + 1] /\ k \in j .. (n - 1)
      BY <1>3, <2>0, <2>3
    <3>. QED  BY <1>2, <3>1
  <2>4. k + 1 < j \/ k + 1 = j \/ k >= j
    OBVIOUS
  <2>. QED  BY <2>1, <2>2, <2>3, <2>4, Zenon
<1>. QED  BY <1>4, <1>5 DEF Walk

(* A walk only looks at the events it takes.                               *)
LEMMA WalkSame ==
  ASSUME NEW es, NEW fs, NEW a, NEW b, NEW i \in Nat, NEW j \in Nat,
         \A k \in i .. (j - 1) : es[k] = fs[k], Walk(es, a, i, b, j)
  PROVE  Walk(fs, a, i, b, j)
  BY DEF Walk

(* Some nodes are described by the events from the i-th to before the j-th.*)
Items(es, ns, i, j) == \A rest : IsSeq(rest) => Walk(es, ns \o rest, i, rest, j)

(* The same of items.                                                      *)
LEMMA ItemsSame ==
  ASSUME NEW es, NEW fs, NEW ns, NEW i \in Nat, NEW j \in Nat,
         \A k \in i .. (j - 1) : es[k] = fs[k], Items(es, ns, i, j)
  PROVE  Items(fs, ns, i, j)
  BY WalkSame DEF Items

(* No item takes no event.                                                 *)
LEMMA ItemsNone == ASSUME NEW es, NEW i \in Nat PROVE Items(es, <<>>, i, i)
<1>1. ASSUME NEW rest, IsSeq(rest) PROVE Walk(es, <<>> \o rest, i, rest, i)
  <2>1. <<>> \o rest = rest
    BY <1>1, CatSeq
  <2>. QED  BY <2>1, WalkNone
<1>. QED  BY <1>1 DEF Items

(* One more item takes the events that follow.                             *)
LEMMA ItemsAppend ==
  ASSUME NEW es, NEW ns, NEW x, IsSeq(ns), NEW i \in Nat, NEW j \in Nat, NEW n \in Nat,
         i <= j, j <= n, Items(es, ns, i, j), Items(es, <<x>>, j, n)
  PROVE  Items(es, Append(ns, x), i, n)
<1>1. ASSUME NEW rest, IsSeq(rest) PROVE Walk(es, Append(ns, x) \o rest, i, rest, n)
  <2>. DEFINE w == <<x>> \o rest
  <2>1. Append(ns, x) \o rest = ns \o w
    BY <1>1, SnocSeq
  <2>2. IsSeq(w) /\ Walk(es, w, j, rest, n)
    BY <1>1, ConsSeq DEF Items
  <2>. HIDE DEF w
  <2>3. Walk(es, ns \o w, i, w, j)
    BY <2>2 DEF Items
  <2>4. Walk(es, ns \o w, i, rest, n)
    BY <2>2, <2>3, WalkCat
  <2>. QED  BY <2>1, <2>4
<1>. QED  BY <1>1 DEF Items

(* A scalar takes one event.                                               *)
LEMMA ItemScalar ==
  ASSUME NEW es, NEW i \in Nat, es[i] = "SCALAR"
  PROVE  Items(es, <<Frame("scalar")>>, i, i + 1)
<1>. DEFINE x == Frame("scalar")
<1>1. Name(x) = "SCALAR" /\ Below(x) = <<>>
  BY DEF Frame, Name, Below
<1>. HIDE DEF x
<1>2. ASSUME NEW rest, IsSeq(rest) PROVE Walk(es, <<x>> \o rest, i, rest, i + 1)
  <2>1. Walk(es, <<x>> \o rest, i, Below(x) \o rest, i + 1)
    BY <1>1, <1>2, WalkOne
  <2>2. Below(x) \o rest = rest
    BY <1>1, <1>2, CatSeq
  <2>. QED  BY <2>1, <2>2
<1>. QED  BY <1>2 DEF Items, x

StartOf(kind) == IF kind = "seq" THEN "SEQ_START" ELSE "MAP_START"
EndOf(kind) == IF kind = "seq" THEN "SEQ_END" ELSE "MAP_END"

(* A sequence or a mapping: its start, its items and its end.              *)
LEMMA ItemClosed ==
  ASSUME NEW es, NEW kind \in {"seq", "map"}, NEW ns, IsSeq(ns), NEW i \in Nat, NEW j \in Nat,
         i < j, es[i] = StartOf(kind), Items(es, ns, i + 1, j), es[j] = EndOf(kind)
  PROVE  Items(es, <<[kind |-> kind, items |-> ns]>>, i, j + 1)
<1>. DEFINE x == [kind |-> kind, items |-> ns]
            e == Frame(IF kind = "seq" THEN "seq end" ELSE "map end")
<1>1. x.kind = kind /\ x.items = ns
  OBVIOUS
<1>2. Name(x) = StartOf(kind) /\ Below(x) = Append(ns, e)
  <2>. HIDE DEF x
  <2>1. CASE kind = "seq"
    BY <1>1, <2>1 DEF Name, Below, StartOf
  <2>2. CASE kind = "map"
    BY <1>1, <2>2 DEF Name, Below, StartOf
  <2>. QED  BY <2>1, <2>2
<1>3. Name(e) = EndOf(kind) /\ Below(e) = <<>>
  BY DEF Frame, Name, Below, EndOf
<1>. HIDE DEF x, e
<1>4. ASSUME NEW rest, IsSeq(rest) PROVE Walk(es, <<x>> \o rest, i, rest, j + 1)
  <2>. DEFINE w == <<e>> \o rest
  <2>1. Walk(es, <<x>> \o rest, i, Append(ns, e) \o rest, i + 1)
    BY <1>2, <1>4, WalkOne
  <2>2. Append(ns, e) \o rest = ns \o w
    BY <1>4, SnocSeq
  <2>3. IsSeq(w)
    BY <1>4, ConsSeq
  <2>4. Walk(es, w, j, rest, j + 1)
    <3>1. Walk(es, <<e>> \o rest, j, Below(e) \o rest, j + 1)
      BY <1>3, <1>4, WalkOne
    <3>2. Below(e) \o rest = rest
      BY <1>3, <1>4, CatSeq
    <3>. QED  BY <3>1, <3>2
  <2>. HIDE DEF w
  <2>5. Walk(es, ns \o w, i + 1, w, j)
    BY <2>3 DEF Items
  <2>6. Walk(es, <<x>> \o rest, i, ns \o w, i + 1)
    BY <2>1, <2>2
  <2>7. i + 1 \in Nat /\ j + 1 \in Nat /\ i <= i + 1 /\ i + 1 <= j /\ j <= j + 1 /\ i <= j
    OBVIOUS
  <2>8. Walk(es, <<x>> \o rest, i, w, j)
    BY <2>5, <2>6, <2>7, WalkCat
  <2>. QED  BY <2>4, <2>7, <2>8, WalkCat
<1>. QED  BY <1>4 DEF Items, x

(* A node that takes some events is described by them.                     *)
LEMMA DescribesIs ==
  ASSUME NEW node, NEW i \in Nat, NEW j \in Nat, i <= j, Items(events, <<node>>, i, j)
  PROVE  Describes(node, i, j)
<1>1. Walk(events, <<node>>, i, <<>>, j)
  <2>1. IsSeq(<<>>) /\ <<node>> \o <<>> = <<node>>
    BY OneSeq, CatSeq
  <2>. QED  BY <2>1 DEF Items
<1>2. PICK f : /\ f[i] = <<node>> /\ f[j] = <<>>
               /\ \A k \in i .. (j - 1) : /\ f[k] # <<>> /\ events[k] = Name(Head(f[k]))
                                          /\ f[k + 1] = Visit(f[k])
  BY <1>1 DEF Walk
<1>. DEFINE Is(g) == g = [k \in i .. j |-> IF k = i THEN <<node>> ELSE Visit(g[k - 1])]
            g == CHOOSE todo : Is(todo)
            h == [k \in i .. j |-> f[k]]
<1>3. Is(h)
  <2>1. ASSUME NEW k \in i .. j
        PROVE  h[k] = IF k = i THEN <<node>> ELSE Visit(h[k - 1])
    <3>1. CASE k = i
      BY <1>2, <3>1
    <3>2. CASE k # i
      <4>1. k - 1 \in i .. (j - 1) /\ (k - 1) + 1 = k /\ k - 1 \in i .. j
        BY <3>2
      <4>2. f[k] = Visit(f[k - 1])
        BY <1>2, <4>1
      <4>. QED  BY <3>2, <4>1, <4>2
    <3>. QED  BY <3>1, <3>2
  <2>. QED  BY <2>1
<1>4. Is(g)
  <2>. HIDE DEF Is
  <2>. QED  BY <1>3
<1>. HIDE DEF g
<1>5. g[i] = <<node>> /\ \A k \in (i + 1) .. j : g[k] = Visit(g[k - 1])
  BY <1>4
<1>6. \A k \in i .. j : f[k] = g[k]
  <2>. DEFINE n == j - i
              u == [k \in 0 .. n |-> f[i + k]]
              v == [k \in 0 .. n |-> g[i + k]]
  <2>1. n \in Nat /\ i + n = j
    OBVIOUS
  <2>2. u[0] = v[0]
    BY <1>2, <1>5
  <2>3. ASSUME NEW k \in 1 .. n, u[k - 1] = v[k - 1] PROVE u[k] = v[k]
    <3>1. /\ i + k \in (i + 1) .. j /\ i + (k - 1) = (i + k) - 1
          /\ (i + k) - 1 \in i .. (j - 1) /\ ((i + k) - 1) + 1 = i + k
      OBVIOUS
    <3>2. f[i + k] = Visit(f[(i + k) - 1]) /\ g[i + k] = Visit(g[(i + k) - 1])
      BY <1>2, <1>5, <3>1
    <3>3. f[(i + k) - 1] = g[(i + k) - 1]
      BY <2>3, <3>1
    <3>. QED  BY <3>2, <3>3
  <2>4. \A k \in 0 .. n : u[k] = v[k]
    <3>. HIDE DEF u, v, n
    <3>. QED  BY <2>1, <2>2, <2>3, Alike
  <2>5. ASSUME NEW k \in i .. j PROVE f[k] = g[k]
    <3>1. k - i \in 0 .. n /\ i + (k - i) = k
      OBVIOUS
    <3>2. u[k - i] = v[k - i]
      BY <2>4, <3>1
    <3>. QED  BY <3>1, <3>2
  <2>. QED  BY <2>5
<1>7. /\ \A k \in i .. (j - 1) : g[k] # <<>> /\ events[k] = Name(Head(g[k]))
      /\ g[j] = <<>>
  <2>1. ASSUME NEW k \in i .. (j - 1)
        PROVE  g[k] # <<>> /\ events[k] = Name(Head(g[k]))
    <3>1. k \in i .. j
      OBVIOUS
    <3>. QED  BY <1>2, <1>6, <3>1
  <2>. QED  BY <1>2, <1>6, <2>1
<1>. QED  BY <1>7 DEF Describes, g

------------------------------------------------------------------------------
(* What is open: the frames of the parser, and the places where their      *)
(* items begin and end among the events.                                   *)

IsFrame(fr) == \E kind \in {"seq", "map"} : \E ns : IsSeq(ns) /\ fr = [kind |-> kind, items |-> ns]

IsStack(s) == IsSeq(s) /\ \A i \in 1 .. Len(s) : IsFrame(s[i])

(* A frame with one more item, and the stack on top of which it is.        *)
WithItem(fr, node) == [fr EXCEPT !.items = Append(@, node)]
Added(s, node) == Append(Front(s), WithItem(Last(s), node))

OpenAt(es, s, last) ==
  \E began \in [1 .. (Len(s) + 1) -> Nat] :
     /\ began[1] = 3 /\ began[Len(s) + 1] = last
     /\ \A i \in 1 .. Len(s) :
          /\ began[i] < began[i + 1]
          /\ es[began[i]] = StartOf(s[i].kind)
          /\ Items(es, s[i].items, began[i] + 1, began[i + 1])

(* The innermost frame and the others.                                     *)
LEMMA StackTop ==
  ASSUME NEW s, IsStack(s), s # <<>>
  PROVE  /\ Len(s) \in Nat /\ Len(s) >= 1
         /\ IsStack(Front(s)) /\ Len(Front(s)) = Len(s) - 1
         /\ \A i \in 1 .. (Len(s) - 1) : Front(s)[i] = s[i]
         /\ Last(s) = s[Len(s)] /\ IsFrame(Last(s))
<1>1. PICK S : s \in Seq(S)
  BY DEF IsStack, IsSeq
<1>2. Len(s) \in Nat /\ Len(s) >= 1
  BY <1>1
<1>3. /\ Front(s) \in Seq(S) /\ Len(Front(s)) = Len(s) - 1
      /\ \A i \in 1 .. (Len(s) - 1) : Front(s)[i] = s[i]
  <2>. DEFINE m == 1
              n == Len(s) - 1
  <2>1. m \in 1 .. (Len(s) + 1) /\ n \in (m - 1) .. Len(s) /\ n - m + 1 = n
    BY <1>2
  <2>2. /\ SubSeq(s, m, n) \in Seq(S) /\ Len(SubSeq(s, m, n)) = n - m + 1
        /\ \A i \in 1 .. (n - m + 1) : SubSeq(s, m, n)[i] = s[m + i - 1]
    BY <1>1, <2>1, SubSeqProperties
  <2>3. \A i \in 1 .. n : m + i - 1 = i
    BY <1>2
  <2>. QED  BY <2>1, <2>2, <2>3 DEF Front
<1>4. \A i \in 1 .. (Len(s) - 1) : Front(s)[i] = s[i]
  BY <1>3
<1>5. IsStack(Front(s))
  <2>1. \A i \in 1 .. Len(Front(s)) : IsFrame(Front(s)[i])
    BY <1>2, <1>3, <1>4 DEF IsStack
  <2>. QED  BY <1>3, <2>1 DEF IsStack, IsSeq
<1>6. Last(s) = s[Len(s)] /\ IsFrame(Last(s))
  BY <1>2 DEF Last, IsStack
<1>. QED  BY <1>2, <1>3, <1>4, <1>5, <1>6

(* A frame that is opened.                                                 *)
LEMMA StackPush ==
  ASSUME NEW s, IsStack(s), NEW fr, IsFrame(fr)
  PROVE  /\ IsStack(Append(s, fr)) /\ Append(s, fr) # <<>>
         /\ Len(s) \in Nat /\ Len(Append(s, fr)) = Len(s) + 1
         /\ \A i \in 1 .. Len(s) : Append(s, fr)[i] = s[i]
         /\ Append(s, fr)[Len(s) + 1] = fr
         /\ Front(Append(s, fr)) = s /\ Last(Append(s, fr)) = fr
<1>1. PICK R : s \in Seq(R)
  BY DEF IsStack, IsSeq
<1>. DEFINE S == R \cup {fr}
            u == Append(s, fr)
<1>2. R \subseteq S /\ fr \in S
  OBVIOUS
<1>. HIDE DEF S
<1>3. s \in Seq(S) /\ Len(s) \in Nat
  BY <1>1, <1>2, SeqMonotonic
<1>4. /\ u \in Seq(S) /\ Len(u) = Len(s) + 1
      /\ \A i \in 1 .. Len(s) : u[i] = s[i]
      /\ u[Len(s) + 1] = fr
  BY <1>2, <1>3
<1>. HIDE DEF u
<1>5. u # <<>> /\ Last(u) = fr
  BY <1>3, <1>4 DEF Last
<1>6. Front(u) = s
  <2>1. Front(u) \in Seq(S) /\ Len(Front(u)) = Len(s)
    BY <1>3, <1>4 DEF Front
  <2>2. \A i \in 1 .. Len(s) : Front(u)[i] = s[i]
    BY <1>3, <1>4 DEF Front
  <2>. QED  BY <1>3, <2>1, <2>2, SeqEqual
<1>7. \A i \in 1 .. Len(u) : IsFrame(u[i])
  <2>1. ASSUME NEW i \in 1 .. Len(u) PROVE IsFrame(u[i])
    <3>1. CASE i <= Len(s)
      <4>1. i \in 1 .. Len(s)
        BY <1>3, <3>1
      <4>. QED  BY <1>4, <4>1 DEF IsStack
    <3>2. CASE i = Len(s) + 1
      BY <1>4, <3>2
    <3>. QED  BY <1>3, <1>4, <3>1, <3>2
  <2>. QED  BY <2>1
<1>8. IsStack(u)
  BY <1>4, <1>7 DEF IsStack, IsSeq
<1>. QED  BY <1>3, <1>4, <1>5, <1>6, <1>8 DEF u

(* The parts of a frame, and of one with one more item.                    *)
LEMMA FrameParts ==
  ASSUME NEW fr, IsFrame(fr), NEW node
  PROVE  /\ fr.kind \in {"seq", "map"} /\ IsSeq(fr.items)
         /\ fr = [kind |-> fr.kind, items |-> fr.items]
         /\ IsFrame(WithItem(fr, node))
         /\ WithItem(fr, node).kind = fr.kind
         /\ WithItem(fr, node).items = Append(fr.items, node)
<1>1. PICK kind, ns : kind \in {"seq", "map"} /\ IsSeq(ns) /\ fr = [kind |-> kind, items |-> ns]
  BY DEF IsFrame
<1>2. fr.kind = kind /\ fr.items = ns
  BY <1>1
<1>3. WithItem(fr, node) = [kind |-> kind, items |-> Append(ns, node)]
  BY <1>1 DEF WithItem
<1>4. IsSeq(Append(ns, node))
  BY <1>1, SnocSeq
<1>5. IsFrame(WithItem(fr, node))
  BY <1>1, <1>3, <1>4 DEF IsFrame
<1>6. WithItem(fr, node).kind = kind /\ WithItem(fr, node).items = Append(ns, node)
  BY <1>3
<1>. QED  BY <1>1, <1>2, <1>5, <1>6

(* Items begin with the third event.                                       *)
LEMMA OpenBound ==
  ASSUME NEW es, NEW s, IsStack(s), NEW last, OpenAt(es, s, last)
  PROVE  last \in Nat /\ last >= 3 /\ (s = <<>> => last = 3)
<1>0. Len(s) \in Nat
  <2>1. PICK S : s \in Seq(S)
    BY DEF IsStack, IsSeq
  <2>. QED  BY <2>1
<1>1. PICK began \in [1 .. (Len(s) + 1) -> Nat] :
        /\ began[1] = 3 /\ began[Len(s) + 1] = last
        /\ \A i \in 1 .. Len(s) : began[i] < began[i + 1]
  BY DEF OpenAt
<1>. DEFINE T == {k \in Nat : k <= Len(s) => began[k + 1] \in Nat /\ began[k + 1] >= 3}
<1>2. 0 \in T
  BY <1>1
<1>3. ASSUME NEW k \in Nat, k \in T PROVE k + 1 \in T
  <2>. SUFFICES ASSUME k + 1 <= Len(s)
                PROVE  began[(k + 1) + 1] \in Nat /\ began[(k + 1) + 1] >= 3
    OBVIOUS
  <2>1. began[k + 1] \in Nat /\ began[k + 1] >= 3
    BY <1>0, <1>3
  <2>2. k + 1 \in 1 .. Len(s) /\ (k + 1) + 1 \in 1 .. (Len(s) + 1)
    BY <1>0
  <2>3. began[(k + 1) + 1] \in Nat /\ began[k + 1] < began[(k + 1) + 1]
    BY <1>1, <2>2
  <2>. QED  BY <2>1, <2>3
<1>. HIDE DEF T
<1>4. Len(s) \in T
  BY <1>0, <1>2, <1>3, Induction
<1>5. last \in Nat /\ last >= 3
  BY <1>0, <1>1, <1>4 DEF T
<1>6. s = <<>> => last = 3
  BY <1>1
<1>. QED  BY <1>5, <1>6

(* What is open depends on the events so far.                              *)
LEMMA OpenSame ==
  ASSUME NEW es, NEW fs, NEW s, IsStack(s), NEW last \in Nat, OpenAt(es, s, last),
         \A k \in 1 .. (last - 1) : es[k] = fs[k]
  PROVE  OpenAt(fs, s, last)
<1>0. Len(s) \in Nat
  <2>1. PICK S : s \in Seq(S)
    BY DEF IsStack, IsSeq
  <2>. QED  BY <2>1
<1>1. PICK began \in [1 .. (Len(s) + 1) -> Nat] :
        /\ began[1] = 3 /\ began[Len(s) + 1] = last
        /\ \A i \in 1 .. Len(s) :
             /\ began[i] < began[i + 1]
             /\ es[began[i]] = StartOf(s[i].kind)
             /\ Items(es, s[i].items, began[i] + 1, began[i + 1])
  BY DEF OpenAt
<1>2. ASSUME NEW i \in 1 .. (Len(s) + 1) PROVE began[i] >= 3 /\ began[i] <= last
  <2>. DEFINE T == {k \in Nat : k <= Len(s) => began[k + 1] >= 3}
              U == {k \in Nat : k <= Len(s) => began[Len(s) + 1 - k] <= last}
  <2>1. 0 \in T /\ 0 \in U
    BY <1>0, <1>1
  <2>2. ASSUME NEW k \in Nat, k \in T PROVE k + 1 \in T
    <3>. SUFFICES ASSUME k + 1 <= Len(s) PROVE began[(k + 1) + 1] >= 3
      OBVIOUS
    <3>1. k + 1 \in 1 .. Len(s) /\ (k + 1) + 1 \in 1 .. (Len(s) + 1)
          /\ k + 1 \in 1 .. (Len(s) + 1)
      BY <1>0
    <3>2. began[(k + 1) + 1] \in Nat /\ began[k + 1] \in Nat /\ began[k + 1] < began[(k + 1) + 1]
      BY <1>1, <3>1
    <3>3. began[k + 1] >= 3
      BY <1>0, <2>2
    <3>. QED  BY <3>2, <3>3
  <2>3. ASSUME NEW k \in Nat, k \in U PROVE k + 1 \in U
    <3>. SUFFICES ASSUME k + 1 <= Len(s) PROVE began[Len(s) + 1 - (k + 1)] <= last
      OBVIOUS
    <3>1. PICK m \in Nat : m = Len(s) + 1 - (k + 1) /\ m \in 1 .. Len(s) /\ m + 1 = Len(s) + 1 - k
      BY <1>0
    <3>2. m \in 1 .. (Len(s) + 1) /\ m + 1 \in 1 .. (Len(s) + 1)
      BY <1>0, <3>1
    <3>3. began[m] \in Nat /\ began[m + 1] \in Nat /\ began[m] < began[m + 1]
      BY <1>1, <3>1, <3>2
    <3>4. began[m + 1] <= last
      BY <1>0, <2>3, <3>1
    <3>. QED  BY <3>1, <3>3, <3>4
  <2>4. i - 1 \in Nat /\ i - 1 <= Len(s) /\ (i - 1) + 1 = i
    BY <1>0
  <2>5. Len(s) + 1 - i \in Nat /\ Len(s) + 1 - i <= Len(s) /\ Len(s) + 1 - (Len(s) + 1 - i) = i
    BY <1>0
  <2>. HIDE DEF T, U
  <2>6. i - 1 \in T
    BY <2>1, <2>2, <2>4, Induction
  <2>7. Len(s) + 1 - i \in U
    BY <2>1, <2>3, <2>5, Induction
  <2>. QED  BY <2>4, <2>5, <2>6, <2>7 DEF T, U
<1>3. ASSUME NEW i \in 1 .. Len(s)
      PROVE  fs[began[i]] = StartOf(s[i].kind) /\ Items(fs, s[i].items, began[i] + 1, began[i + 1])
  <2>1. i \in 1 .. (Len(s) + 1) /\ i + 1 \in 1 .. (Len(s) + 1)
    BY <1>0
  <2>2. /\ began[i] \in Nat /\ began[i + 1] \in Nat /\ began[i] < began[i + 1]
        /\ began[i] >= 3 /\ began[i + 1] <= last
    BY <1>1, <1>2, <2>1
  <2>3. began[i] \in 1 .. (last - 1) /\ began[i] + 1 \in Nat
    BY <2>2
  <2>4. \A k \in (began[i] + 1) .. (began[i + 1] - 1) : es[k] = fs[k]
    BY <2>2
  <2>5. Items(fs, s[i].items, began[i] + 1, began[i + 1])
    BY <1>1, <2>2, <2>3, <2>4, ItemsSame
  <2>. QED  BY <1>1, <2>3, <2>5
<1>. QED  BY <1>1, <1>3 DEF OpenAt

(* A start opens a frame, ...                                              *)
LEMMA OpenPush ==
  ASSUME NEW es, NEW s, IsStack(s), NEW last \in Nat, OpenAt(es, s, last),
         NEW kind \in {"seq", "map"}, es[last] = StartOf(kind)
  PROVE  OpenAt(es, Append(s, Frame(kind)), last + 1) /\ IsStack(Append(s, Frame(kind)))
<1>1. PICK began \in [1 .. (Len(s) + 1) -> Nat] :
        /\ began[1] = 3 /\ began[Len(s) + 1] = last
        /\ \A i \in 1 .. Len(s) :
             /\ began[i] < began[i + 1]
             /\ es[began[i]] = StartOf(s[i].kind)
             /\ Items(es, s[i].items, began[i] + 1, began[i + 1])
  BY DEF OpenAt
<1>. DEFINE fr == Frame(kind)
            u  == Append(s, fr)
            n  == Len(s)
            to == [i \in 1 .. (n + 2) |-> IF i <= n + 1 THEN began[i] ELSE last + 1]
<1>2. IsFrame(fr) /\ fr.kind = kind /\ fr.items = <<>>
  <2>1. IsSeq(<<>>)
    BY OneSeq
  <2>. QED  BY <2>1 DEF Frame, IsFrame
<1>. HIDE DEF fr
<1>3. /\ IsStack(u) /\ n \in Nat /\ Len(u) = n + 1
      /\ \A i \in 1 .. n : u[i] = s[i]
      /\ u[n + 1] = fr
  BY <1>2, StackPush
<1>. HIDE DEF u, n
<1>4. to \in [1 .. (n + 2) -> Nat] /\ \A i \in 1 .. (n + 1) : to[i] = began[i]
  BY <1>1, <1>3 DEF n
<1>5. to[n + 2] = last + 1 /\ to[n + 1] = last /\ to[1] = 3
  BY <1>1, <1>3 DEF n
<1>. HIDE DEF to
<1>6. ASSUME NEW i \in 1 .. (n + 1)
      PROVE  /\ to[i] < to[i + 1] /\ es[to[i]] = StartOf(u[i].kind)
             /\ Items(es, u[i].items, to[i] + 1, to[i + 1])
  <2>1. CASE i <= n
    <3>1. i \in 1 .. n /\ i + 1 \in 1 .. (n + 1)
      BY <1>3, <2>1
    <3>2. to[i] = began[i] /\ to[i + 1] = began[i + 1] /\ u[i] = s[i]
      BY <1>3, <1>4, <3>1
    <3>. QED  BY <1>1, <3>1, <3>2 DEF n
  <2>2. CASE i = n + 1
    <3>1. to[i] = last /\ to[i + 1] = last + 1 /\ u[i] = fr
      <4>1. i + 1 = n + 2
        BY <1>3, <2>2
      <4>. QED  BY <1>3, <1>5, <2>2, <4>1
    <3>2. Items(es, <<>>, last + 1, last + 1)
      BY ItemsNone
    <3>. QED  BY <1>2, <3>1, <3>2
  <2>. QED  BY <1>3, <2>1, <2>2
<1>7. Len(u) + 1 = n + 2
  BY <1>3
<1>8. OpenAt(es, u, last + 1)
  BY <1>3, <1>4, <1>5, <1>6, <1>7 DEF OpenAt
<1>. QED  BY <1>3, <1>8 DEF u, fr

(* ... an item goes to the innermost frame, ...                            *)
LEMMA OpenAdd ==
  ASSUME NEW es, NEW s, IsStack(s), s # <<>>, NEW last \in Nat, OpenAt(es, s, last),
         NEW node, NEW j \in Nat, last < j, Items(es, <<node>>, last, j)
  PROVE  OpenAt(es, Added(s, node), j) /\ IsStack(Added(s, node))
<1>1. PICK began \in [1 .. (Len(s) + 1) -> Nat] :
        /\ began[1] = 3 /\ began[Len(s) + 1] = last
        /\ \A i \in 1 .. Len(s) :
             /\ began[i] < began[i + 1]
             /\ es[began[i]] = StartOf(s[i].kind)
             /\ Items(es, s[i].items, began[i] + 1, began[i + 1])
  BY DEF OpenAt
<1>. DEFINE n  == Len(s)
            fr == WithItem(Last(s), node)
            u  == Append(Front(s), fr)
            to == [i \in 1 .. (n + 1) |-> IF i <= n THEN began[i] ELSE j]
<1>2. /\ n \in Nat /\ n >= 1 /\ IsStack(Front(s)) /\ Len(Front(s)) = n - 1
      /\ \A i \in 1 .. (n - 1) : Front(s)[i] = s[i]
      /\ Last(s) = s[n] /\ IsFrame(Last(s))
  BY StackTop
<1>3. /\ IsSeq(s[n].items) /\ IsFrame(fr) /\ fr.kind = s[n].kind
      /\ fr.items = Append(s[n].items, node)
  BY <1>2, FrameParts
<1>. HIDE DEF fr
<1>4. /\ IsStack(u) /\ Len(u) = n
      /\ \A i \in 1 .. (n - 1) : u[i] = s[i]
      /\ u[n] = fr
  <2>1. /\ IsStack(u) /\ Len(u) = Len(Front(s)) + 1
        /\ \A i \in 1 .. Len(Front(s)) : u[i] = Front(s)[i]
        /\ u[Len(Front(s)) + 1] = fr
    BY <1>2, <1>3, StackPush
  <2>. HIDE DEF u
  <2>. QED  BY <1>2, <2>1
<1>. HIDE DEF u, n
<1>5. /\ to \in [1 .. (n + 1) -> Nat] /\ \A i \in 1 .. n : to[i] = began[i]
      /\ to[n + 1] = j /\ to[1] = 3
  BY <1>1, <1>2 DEF n
<1>. HIDE DEF to
<1>6. ASSUME NEW i \in 1 .. n
      PROVE  /\ to[i] < to[i + 1] /\ es[to[i]] = StartOf(u[i].kind)
             /\ Items(es, u[i].items, to[i] + 1, to[i + 1])
  <2>1. CASE i < n
    <3>1. i + 1 \in 1 .. n /\ i \in 1 .. (n - 1)
      BY <1>2, <2>1
    <3>2. to[i] = began[i] /\ to[i + 1] = began[i + 1] /\ u[i] = s[i]
      BY <1>4, <1>5, <3>1
    <3>. QED  BY <1>1, <3>2 DEF n
  <2>2. CASE i = n
    <3>1. /\ began[n] \in Nat /\ began[n] < last /\ es[began[n]] = StartOf(s[n].kind)
          /\ Items(es, s[n].items, began[n] + 1, last)
      BY <1>1, <1>2 DEF n
    <3>2. to[n] = began[n] /\ to[n + 1] = j /\ u[n] = fr
      BY <1>2, <1>4, <1>5
    <3>3. began[n] + 1 \in Nat /\ began[n] + 1 <= last /\ last <= j
      BY <3>1
    <3>4. Items(es, Append(s[n].items, node), began[n] + 1, j)
      BY <1>3, <3>1, <3>3, ItemsAppend
    <3>5. to[n] < to[n + 1]
      BY <3>1, <3>2
    <3>6. es[to[n]] = StartOf(u[n].kind)
      BY <1>3, <3>1, <3>2
    <3>7. Items(es, u[n].items, to[n] + 1, to[n + 1])
      BY <1>3, <3>2, <3>4
    <3>. QED  BY <2>2, <3>5, <3>6, <3>7
  <2>. QED  BY <1>2, <2>1, <2>2
<1>7. OpenAt(es, u, j)
  BY <1>4, <1>5, <1>6 DEF OpenAt
<1>. QED  BY <1>4, <1>7 DEF u, fr, Added

(* ... and an end makes an item of it.                                     *)
LEMMA OpenPop ==
  ASSUME NEW es, NEW s, IsStack(s), s # <<>>, NEW last \in Nat, OpenAt(es, s, last),
         es[last] = EndOf(Last(s).kind)
  PROVE  \E i \in Nat : /\ i < last /\ OpenAt(es, Front(s), i)
                        /\ Items(es, <<Last(s)>>, i, last + 1)
<1>1. PICK began \in [1 .. (Len(s) + 1) -> Nat] :
        /\ began[1] = 3 /\ began[Len(s) + 1] = last
        /\ \A i \in 1 .. Len(s) :
             /\ began[i] < began[i + 1]
             /\ es[began[i]] = StartOf(s[i].kind)
             /\ Items(es, s[i].items, began[i] + 1, began[i + 1])
  BY DEF OpenAt
<1>. DEFINE n  == Len(s)
            fr == Last(s)
            u  == Front(s)
            to == [i \in 1 .. n |-> began[i]]
<1>2. /\ n \in Nat /\ n >= 1 /\ IsStack(u) /\ Len(u) = n - 1
      /\ \A i \in 1 .. (n - 1) : u[i] = s[i]
      /\ fr = s[n] /\ IsFrame(fr)
  BY StackTop
<1>. HIDE DEF fr, u, n
<1>3. to \in [1 .. n -> Nat] /\ \A i \in 1 .. n : to[i] = began[i]
  BY <1>1, <1>2 DEF n
<1>. HIDE DEF to
<1>4. OpenAt(es, u, began[n])
  <2>1. Len(u) + 1 = n
    BY <1>2
  <2>2. to[1] = 3 /\ to[n] = began[n]
    BY <1>1, <1>2, <1>3
  <2>3. ASSUME NEW i \in 1 .. Len(u)
        PROVE  /\ to[i] < to[i + 1] /\ es[to[i]] = StartOf(u[i].kind)
               /\ Items(es, u[i].items, to[i] + 1, to[i + 1])
    <3>1. i \in 1 .. (n - 1) /\ i \in 1 .. n /\ i + 1 \in 1 .. n
      BY <1>2
    <3>2. to[i] = began[i] /\ to[i + 1] = began[i + 1] /\ u[i] = s[i]
      BY <1>2, <1>3, <3>1
    <3>. QED  BY <1>1, <3>1, <3>2 DEF n
  <2>. QED  BY <1>3, <2>1, <2>2, <2>3 DEF OpenAt
<1>5. /\ began[n] \in Nat /\ began[n] < last /\ es[began[n]] = StartOf(fr.kind)
      /\ Items(es, fr.items, began[n] + 1, last)
  BY <1>1, <1>2 DEF n
<1>6. fr.kind \in {"seq", "map"} /\ IsSeq(fr.items) /\ fr = [kind |-> fr.kind, items |-> fr.items]
  BY <1>2, FrameParts
<1>7. es[last] = EndOf(fr.kind)
  BY DEF fr
<1>8. Items(es, <<[kind |-> fr.kind, items |-> fr.items]>>, began[n], last + 1)
  BY <1>5, <1>6, <1>7, ItemClosed
<1>9. Items(es, <<fr>>, began[n], last + 1)
  BY <1>6, <1>8
<1>. QED  BY <1>4, <1>5, <1>9 DEF fr, u

------------------------------------------------------------------------------
(* libyaml's grammar, while a document is open.                            *)

Modes == {"stream", "doc", "docend", "seq", "key", "value"}

(* What libyaml keeps for a frame, and for all of them.                    *)
Mode(fr) == IF fr.kind = "seq" THEN "seq"
            ELSE IF Len(fr.items) % 2 = 0 THEN "key" ELSE "value"

Levels(s) == [i \in 1 .. (Len(s) + 2) |->
                IF i = 1 THEN "stream" ELSE IF i = 2 THEN "doc" ELSE Mode(s[i - 2])]

(* MayFollow where something is open.                                      *)
Follow(g) == CASE Last(g) = "stream" -> {"DOC_START", "STREAM_END"}
               [] Last(g) = "doc"    -> Nodes
               [] Last(g) = "docend" -> {"DOC_END"}
               [] Last(g) = "seq"    -> Nodes \cup {"SEQ_END"}
               [] Last(g) = "key"    -> Nodes \cup {"MAP_END"}
               [] Last(g) = "value"  -> Nodes

(* Follow is MayFollow there.                                              *)
LEMMA FollowIs == ASSUME NEW g, g # <<>> PROVE MayFollow(g) = Follow(g)
  BY DEF MayFollow, Follow

(* What is open after a start, ...                                         *)
LEMMA AfterStart == ASSUME NEW g, NEW e, Opens(e) # <<>>,
         e \notin {"SCALAR", "ALIAS", "SEQ_END", "MAP_END", "DOC_END", "STREAM_END", "NO_EVENT"}
  PROVE  After(g, e) = g \o Opens(e)
  BY DEF After

(* ... and after every event.                                              *)
LEMMA AfterIs ==
  ASSUME NEW g
  PROVE  /\ After(g, "STREAM_START") = g \o <<"stream">>
         /\ After(g, "DOC_START") = g \o <<"doc">>
         /\ After(g, "SEQ_START") = g \o <<"seq">>
         /\ After(g, "MAP_START") = g \o <<"key">>
         /\ After(g, "SCALAR") = Completed(g)
         /\ After(g, "SEQ_END") = Completed(Front(g))
         /\ After(g, "MAP_END") = Completed(Front(g))
         /\ After(g, "DOC_END") = Front(g)
         /\ After(g, "STREAM_END") = Front(g)
<1>1. /\ Opens("STREAM_START") = <<"stream">> /\ Opens("DOC_START") = <<"doc">>
      /\ Opens("SEQ_START") = <<"seq">> /\ Opens("MAP_START") = <<"key">>
  BY DEF Opens
<1>2. \A e \in {"SCALAR", "SEQ_END", "MAP_END", "DOC_END", "STREAM_END"} : Opens(e) = <<>>
  BY DEF Opens
<1>3. <<"stream">> # <<>> /\ <<"doc">> # <<>> /\ <<"seq">> # <<>> /\ <<"key">> # <<>>
  OBVIOUS
<1>4. /\ After(g, "STREAM_START") = g \o <<"stream">> /\ After(g, "DOC_START") = g \o <<"doc">>
  BY <1>1, <1>3, AfterStart
<1>5. /\ After(g, "SEQ_START") = g \o <<"seq">> /\ After(g, "MAP_START") = g \o <<"key">>
  BY <1>1, <1>3, AfterStart
<1>7. After(g, "SCALAR") = Completed(g)
  BY <1>2 DEF After
<1>8. After(g, "SEQ_END") = Completed(Front(g)) /\ After(g, "MAP_END") = Completed(Front(g))
  BY <1>2 DEF After
<1>9. After(g, "DOC_END") = Front(g) /\ After(g, "STREAM_END") = Front(g)
  BY <1>2 DEF After
<1>. QED  BY <1>4, <1>5, <1>7, <1>8, <1>9

(* Levels is a sequence with one entry for each frame, ...                 *)
LEMMA LevelsType ==
  ASSUME NEW s, IsStack(s)
  PROVE  /\ Levels(s) \in Seq(Modes) /\ Len(s) \in Nat /\ Len(Levels(s)) = Len(s) + 2
         /\ Levels(s) # <<>>
         /\ Levels(s)[1] = "stream" /\ Levels(s)[2] = "doc"
         /\ \A i \in 1 .. Len(s) : Levels(s)[i + 2] = Mode(s[i])
         /\ Last(Levels(s)) = IF s = <<>> THEN "doc" ELSE Mode(Last(s))
<1>1. PICK S : s \in Seq(S)
  BY DEF IsStack, IsSeq
<1>2. Len(s) \in Nat /\ (s = <<>> <=> Len(s) = 0)
  BY <1>1
<1>. DEFINE g == Levels(s)
            n == Len(s) + 2
<1>3. \A fr : Mode(fr) \in Modes
  BY DEF Mode, Modes
<1>4. n \in Nat /\ g \in [1 .. n -> Modes]
  BY <1>2, <1>3 DEF Levels, Modes
<1>5. \A i \in 1 .. n : g[i] = IF i = 1 THEN "stream" ELSE IF i = 2 THEN "doc" ELSE Mode(s[i - 2])
  BY DEF Levels
<1>. HIDE DEF g
<1>6. g \in Seq(Modes) /\ Len(g) = n
  <2>. HIDE DEF n
  <2>. QED  BY <1>4
<1>7. g[1] = "stream" /\ g[2] = "doc"
  BY <1>2, <1>5
<1>8. ASSUME NEW i \in 1 .. Len(s) PROVE g[i + 2] = Mode(s[i])
  <2>1. i + 2 \in 1 .. n /\ i + 2 # 1 /\ i + 2 # 2 /\ (i + 2) - 2 = i
    BY <1>2
  <2>. QED  BY <1>5, <2>1
<1>9. Last(g) = IF s = <<>> THEN "doc" ELSE Mode(Last(s))
  <2>1. CASE s = <<>>
    BY <1>2, <1>6, <1>7, <2>1 DEF Last
  <2>2. CASE s # <<>>
    <3>1. Len(s) \in 1 .. Len(s) /\ Len(g) = Len(s) + 2
      BY <1>2, <1>6, <2>2
    <3>2. g[Len(s) + 2] = Mode(s[Len(s)])
      BY <1>8, <3>1
    <3>. QED  BY <2>2, <3>1, <3>2 DEF Last
  <2>. QED  BY <2>1, <2>2
<1>10. g # <<>>
  BY <1>2, <1>6
<1>. QED  BY <1>2, <1>6, <1>7, <1>8, <1>9, <1>10 DEF g

(* ... and the only one with these entries.                                *)
LEMMA LevelsSame ==
  ASSUME NEW s, IsStack(s), NEW g \in Seq(Modes), Len(g) = Len(s) + 2,
         g[1] = "stream", g[2] = "doc", \A i \in 1 .. Len(s) : g[i + 2] = Mode(s[i])
  PROVE  g = Levels(s)
<1>. DEFINE h == Levels(s)
<1>1. /\ h \in Seq(Modes) /\ Len(s) \in Nat /\ Len(h) = Len(s) + 2
      /\ h[1] = "stream" /\ h[2] = "doc" /\ \A i \in 1 .. Len(s) : h[i + 2] = Mode(s[i])
  BY LevelsType
<1>. HIDE DEF h
<1>2. ASSUME NEW i \in 1 .. Len(g) PROVE g[i] = h[i]
  <2>1. CASE i = 1 \/ i = 2
    BY <1>1, <2>1
  <2>2. CASE i > 2
    <3>1. i - 2 \in 1 .. Len(s) /\ (i - 2) + 2 = i
      BY <1>1, <2>2
    <3>2. g[(i - 2) + 2] = Mode(s[i - 2]) /\ h[(i - 2) + 2] = Mode(s[i - 2])
      BY <1>1, <3>1
    <3>. QED  BY <3>1, <3>2
  <2>3. i = 1 \/ i = 2 \/ i > 2
    BY <1>1
  <2>. QED  BY <2>1, <2>2, <2>3
<1>3. g = h
  BY <1>1, <1>2, SeqEqual
<1>. QED  BY <1>3 DEF h

(* A frame that is opened, ...                                             *)
LEMMA LevelsPush ==
  ASSUME NEW s, IsStack(s), NEW kind \in {"seq", "map"}
  PROVE  Levels(s) \o <<IF kind = "seq" THEN "seq" ELSE "key">> = Levels(Append(s, Frame(kind)))
<1>. DEFINE fr == Frame(kind)
            m == IF kind = "seq" THEN "seq" ELSE "key"
            u == Append(s, fr)
            g == Levels(s)
            h == g \o <<m>>
<1>1. IsFrame(fr) /\ Mode(fr) = m /\ m \in Modes
  <2>1. fr = [kind |-> kind, items |-> <<>>] /\ IsSeq(<<>>)
    BY OneSeq DEF Frame
  <2>2. IsFrame(fr)
    BY <2>1 DEF IsFrame
  <2>3. fr.kind = kind /\ Len(fr.items) % 2 = 0
    <3>1. fr.kind = kind /\ fr.items = <<>>
      BY <2>1
    <3>. QED  BY <3>1
  <2>. HIDE DEF fr
  <2>. QED  BY <2>2, <2>3 DEF Mode, Modes
<1>. HIDE DEF fr, m
<1>2. /\ g \in Seq(Modes) /\ Len(s) \in Nat /\ Len(g) = Len(s) + 2
      /\ g[1] = "stream" /\ g[2] = "doc" /\ \A i \in 1 .. Len(s) : g[i + 2] = Mode(s[i])
  BY LevelsType
<1>. HIDE DEF g
<1>3. /\ IsStack(u) /\ Len(u) = Len(s) + 1
      /\ \A i \in 1 .. Len(s) : u[i] = s[i]
      /\ u[Len(s) + 1] = fr
  BY <1>1, StackPush
<1>. HIDE DEF u
<1>4. /\ h \in Seq(Modes) /\ Len(h) = Len(s) + 3
      /\ \A i \in 1 .. (Len(s) + 2) : h[i] = g[i]
      /\ h[Len(s) + 3] = m
  BY <1>1, <1>2
<1>. HIDE DEF h
<1>5. h[1] = "stream" /\ h[2] = "doc" /\ Len(h) = Len(u) + 2
  BY <1>2, <1>3, <1>4
<1>6. ASSUME NEW i \in 1 .. Len(u) PROVE h[i + 2] = Mode(u[i])
  <2>1. CASE i <= Len(s)
    <3>1. i \in 1 .. Len(s) /\ i + 2 \in 1 .. (Len(s) + 2)
      BY <1>2, <2>1
    <3>. QED  BY <1>2, <1>3, <1>4, <3>1
  <2>2. CASE i = Len(s) + 1
    <3>1. i + 2 = Len(s) + 3
      BY <1>2, <2>2
    <3>. QED  BY <1>1, <1>3, <1>4, <2>2, <3>1
  <2>. QED  BY <1>2, <1>3, <2>1, <2>2
<1>7. h = Levels(u)
  BY <1>3, <1>4, <1>5, <1>6, LevelsSame
<1>. QED  BY <1>7 DEF h, g, u, m, fr

(* All but the last entry.                                                 *)
LEMMA FrontString ==
  ASSUME NEW g \in Seq(Modes), g # <<>>
  PROVE  /\ Front(g) \in Seq(Modes) /\ Len(Front(g)) = Len(g) - 1 /\ Len(g) \in Nat
         /\ \A i \in 1 .. (Len(g) - 1) : Front(g)[i] = g[i]
<1>1. Len(g) \in Nat /\ Len(g) >= 1
  OBVIOUS
<1>. DEFINE n == Len(g) - 1
<1>2. \A i \in 1 .. n : g[i] \in Modes
  BY <1>1
<1>3. n \in Int /\ n >= 0 /\ n - 1 + 1 = n
  BY <1>1
<1>4. /\ SubSeq(g, 1, n) \in Seq(Modes)
      /\ Len(SubSeq(g, 1, n)) = IF 1 <= n THEN n - 1 + 1 ELSE 0
      /\ \A i \in 1 .. (n - 1 + 1) : SubSeq(g, 1, n)[i] = g[1 + i - 1]
  <2>. HIDE DEF n
  <2>1. 1 \in Int
    OBVIOUS
  <2>. QED  BY <1>2, <1>3, <2>1, SubSeqProperties
<1>5. Len(SubSeq(g, 1, n)) = n /\ \A i \in 1 .. n : SubSeq(g, 1, n)[i] = g[i]
  <2>1. \A i \in 1 .. n : 1 + i - 1 = i
    BY <1>3
  <2>. HIDE DEF n
  <2>2. Len(SubSeq(g, 1, n)) = n
    BY <1>3, <1>4
  <2>. QED  BY <1>3, <1>4, <2>1, <2>2
<1>. QED  BY <1>1, <1>4, <1>5 DEF Front

(* ... and one that is closed.                                             *)
LEMMA LevelsFront ==
  ASSUME NEW s, IsStack(s), s # <<>>
  PROVE  Front(Levels(s)) = Levels(Front(s))
<1>. DEFINE g == Levels(s)
            u == Front(s)
            h == Front(g)
<1>1. /\ g \in Seq(Modes) /\ Len(s) \in Nat /\ Len(g) = Len(s) + 2 /\ g # <<>>
      /\ g[1] = "stream" /\ g[2] = "doc" /\ \A i \in 1 .. Len(s) : g[i + 2] = Mode(s[i])
  BY LevelsType
<1>2. /\ Len(s) >= 1 /\ IsStack(u) /\ Len(u) = Len(s) - 1
      /\ \A i \in 1 .. (Len(s) - 1) : u[i] = s[i]
  BY StackTop
<1>. HIDE DEF g, u
<1>3. /\ h \in Seq(Modes) /\ Len(h) = Len(g) - 1
      /\ \A i \in 1 .. (Len(g) - 1) : h[i] = g[i]
  BY <1>1, FrontString
<1>. HIDE DEF h
<1>4. Len(h) = Len(u) + 2 /\ h[1] = "stream" /\ h[2] = "doc"
  BY <1>1, <1>2, <1>3
<1>5. ASSUME NEW i \in 1 .. Len(u) PROVE h[i + 2] = Mode(u[i])
  <2>1. i \in 1 .. Len(s) /\ i \in 1 .. (Len(s) - 1) /\ i + 2 \in 1 .. (Len(g) - 1)
    BY <1>1, <1>2
  <2>. QED  BY <1>1, <1>2, <1>3, <2>1
<1>6. h = Levels(u)
  BY <1>2, <1>3, <1>4, <1>5, LevelsSame
<1>. QED  BY <1>6 DEF h, g, u

(* The node that was completed is an item of the innermost frame.          *)
LEMMA LevelsAdded ==
  ASSUME NEW s, IsStack(s), s # <<>>, NEW node
  PROVE  Completed(Levels(s)) = Levels(Added(s, node))
<1>. DEFINE g  == Levels(s)
            n  == Len(s)
            fr == WithItem(Last(s), node)
            u  == Append(Front(s), fr)
            m  == Mode(Last(s))
            h  == Append(Front(g), Mode(fr))
<1>1. /\ g \in Seq(Modes) /\ n \in Nat /\ Len(g) = n + 2 /\ g # <<>>
      /\ g[1] = "stream" /\ g[2] = "doc" /\ \A i \in 1 .. n : g[i + 2] = Mode(s[i])
      /\ Last(g) = m
  BY LevelsType
<1>2. /\ n >= 1 /\ IsStack(Front(s)) /\ Len(Front(s)) = n - 1
      /\ \A i \in 1 .. (n - 1) : Front(s)[i] = s[i]
      /\ IsFrame(Last(s))
  BY StackTop
<1>3. /\ Last(s).kind \in {"seq", "map"} /\ IsSeq(Last(s).items) /\ IsFrame(fr)
      /\ fr.kind = Last(s).kind /\ fr.items = Append(Last(s).items, node)
  BY <1>2, FrameParts
<1>. HIDE DEF fr
<1>4. /\ IsStack(u) /\ Len(u) = n /\ u[n] = fr
      /\ \A i \in 1 .. (n - 1) : u[i] = s[i]
  <2>1. /\ IsStack(u) /\ Len(u) = Len(Front(s)) + 1
        /\ \A i \in 1 .. Len(Front(s)) : u[i] = Front(s)[i]
        /\ u[Len(Front(s)) + 1] = fr
    BY <1>2, <1>3, StackPush
  <2>. HIDE DEF u, n
  <2>. QED  BY <1>1, <1>2, <2>1
<1>. HIDE DEF u
<1>5. Mode(fr) = CASE m = "key" -> "value" [] m = "value" -> "key" [] OTHER -> m
  <2>. DEFINE k == Len(Last(s).items)
  <2>1. Len(fr.items) = k + 1
    BY <1>3, SnocSeq
  <2>2. k \in Nat
    <3>1. PICK S : Last(s).items \in Seq(S)
      BY <1>3 DEF IsSeq
    <3>. QED  BY <3>1
  <2>3. ((k + 1) % 2 = 0) <=> ~(k % 2 = 0)
    <3>. HIDE DEF k
    <3>. QED  BY <2>2
  <2>4. m = IF Last(s).kind = "seq" THEN "seq" ELSE IF k % 2 = 0 THEN "key" ELSE "value"
    BY DEF Mode
  <2>5. Mode(fr) = IF Last(s).kind = "seq" THEN "seq"
                   ELSE IF (k + 1) % 2 = 0 THEN "key" ELSE "value"
    BY <1>3, <2>1 DEF Mode
  <2>. HIDE DEF k, m
  <2>. QED  BY <2>3, <2>4, <2>5
<1>6. m \in {"seq", "key", "value"}
  BY DEF Mode
<1>. HIDE DEF g, n, m
<1>7. /\ Front(g) \in Seq(Modes) /\ Len(Front(g)) = n + 1
      /\ \A i \in 1 .. (n + 1) : Front(g)[i] = g[i]
  <2>1. Len(g) - 1 = n + 1
    BY <1>1
  <2>. QED  BY <1>1, <2>1, FrontString
<1>8. Mode(fr) \in Modes
  BY DEF Mode, Modes
<1>9. /\ h \in Seq(Modes) /\ Len(h) = n + 2 /\ h[n + 2] = Mode(fr)
      /\ \A i \in 1 .. (n + 1) : h[i] = g[i]
  BY <1>1, <1>7, <1>8
<1>. HIDE DEF h
<1>10. h[1] = "stream" /\ h[2] = "doc"
  <2>1. 1 \in 1 .. (n + 1) /\ 2 \in 1 .. (n + 1)
    BY <1>1, <1>2
  <2>. QED  BY <1>1, <1>9, <2>1
<1>11. ASSUME NEW i \in 1 .. n PROVE h[i + 2] = Mode(u[i])
  <2>1. CASE i < n
    <3>1. i \in 1 .. (n - 1) /\ i + 2 \in 1 .. (n + 1)
      BY <1>1, <2>1
    <3>. QED  BY <1>1, <1>4, <1>9, <3>1
  <2>2. CASE i = n
    BY <1>4, <1>9, <2>2
  <2>. QED  BY <1>1, <2>1, <2>2
<1>12. h = Levels(u)
  BY <1>4, <1>9, <1>10, <1>11, LevelsSame
<1>13. Completed(g) = h
  <2>1. CASE m = "key"
    <3>1. Completed(g) = Append(Front(g), "value") /\ Mode(fr) = "value"
      BY <1>1, <1>5, <2>1 DEF Completed
    <3>. QED  BY <3>1 DEF h
  <2>2. CASE m = "value"
    <3>1. Completed(g) = Append(Front(g), "key") /\ Mode(fr) = "key"
      BY <1>1, <1>5, <2>2 DEF Completed
    <3>. QED  BY <3>1 DEF h
  <2>3. CASE m = "seq"
    <3>1. Completed(g) = g /\ Mode(fr) = "seq"
      BY <1>1, <1>5, <2>3 DEF Completed
    <3>2. g[n + 2] = "seq"
      BY <1>1, <2>3 DEF Last
    <3>3. \A i \in 1 .. (n + 2) : g[i] = h[i]
      BY <1>1, <1>9, <3>1, <3>2
    <3>4. g = h
      BY <1>1, <1>9, <3>3, SeqEqual
    <3>. QED  BY <3>1, <3>4
  <2>. QED  BY <1>6, <2>1, <2>2, <2>3
<1>. QED  BY <1>12, <1>13 DEF g, u, fr, Added

(* No frame: the document itself.                                          *)
LEMMA LevelsEmpty ==
  /\ IsStack(<<>>) /\ Levels(<<>>) = <<"stream", "doc">>
  /\ Completed(Levels(<<>>)) = <<"stream", "docend">>
  /\ Front(<<"stream", "docend">>) = <<"stream">>
  /\ Front(<<"stream">>) = <<>>
<1>. DEFINE e == <<>>
            a == <<"stream">>
            b == <<"stream", "doc">>
            c == <<"stream", "docend">>
<1>0. Len(e) = 0 /\ 1 .. 0 = {} /\ IsSeq(e)
  <2>1. Len(e) = 0 /\ 1 .. 0 = {}
    OBVIOUS
  <2>. QED  BY <2>1, OneSeq
<1>1. IsStack(e)
  <2>. HIDE DEF e
  <2>. QED  BY <1>0 DEF IsStack
<1>2. /\ a \in Seq(Modes) /\ Len(a) = 1 /\ a[1] = "stream" /\ a # <<>>
      /\ b \in Seq(Modes) /\ Len(b) = 2 /\ b[1] = "stream" /\ b[2] = "doc" /\ b # <<>>
      /\ c \in Seq(Modes) /\ Len(c) = 2 /\ c[1] = "stream" /\ c[2] = "docend" /\ c # <<>>
      /\ e \in Seq(Modes)
  BY DEF Modes
<1>3. c = Append(a, "docend")
  OBVIOUS
<1>. HIDE DEF e, a, b, c
<1>4. b = Levels(e)
  <2>1. Len(b) = Len(e) + 2
    BY <1>0, <1>2
  <2>. QED  BY <1>0, <1>1, <1>2, <2>1, LevelsSame
<1>5. Completed(b) = Append(Front(b), "docend")
  BY <1>2 DEF Completed, Last
<1>6. ASSUME NEW d \in Seq(Modes), d # <<>>, Len(d) = 2, d[1] = "stream" PROVE Front(d) = a
  <2>1. Front(d) \in Seq(Modes) /\ Len(Front(d)) = Len(d) - 1
        /\ \A i \in 1 .. (Len(d) - 1) : Front(d)[i] = d[i]
    BY <1>6, FrontString
  <2>2. Len(Front(d)) = Len(a) /\ \A i \in 1 .. Len(a) : Front(d)[i] = a[i]
    BY <1>2, <1>6, <2>1
  <2>. QED  BY <1>2, <2>1, <2>2, SeqEqual
<1>7. Front(a) = e
  <2>1. Front(a) \in Seq(Modes) /\ Len(Front(a)) = 0
    <3>1. Front(a) \in Seq(Modes) /\ Len(Front(a)) = Len(a) - 1
      BY <1>2, FrontString
    <3>. QED  BY <1>2, <3>1
  <2>. QED  BY <2>1 DEF e
<1>8. Front(b) = a /\ Front(c) = a
  BY <1>2, <1>6
<1>. QED  BY <1>1, <1>3, <1>4, <1>5, <1>7, <1>8 DEF a, b, c, e

------------------------------------------------------------------------------
(* Where the parser is, as a predicate of the events es that were yielded, *)
(* the event e ahead, what is open in libyaml (h), the function pc that    *)
(* reads next, the frames s and the documents ds.                          *)

Ahead(g, e, h) == e \in Follow(g) /\ h = After(g, e)

Begun(es, e) == /\ IsSeq(es) /\ Len(es) \in Nat /\ Len(es) >= 1
                /\ es[1] = "STREAM_START" /\ es[Len(es)] = e

InFirst(es, e, h, pc, s, ds) ==
  /\ pc = "stream" /\ ds = <<>> /\ s = <<>> /\ Len(es) = 1
  /\ e = "STREAM_START" /\ h = <<"stream">>

InDocument(es, e, h, pc, s, ds) ==
  /\ pc = "document"
  /\ e = "DOC_START" =>
       ds = <<>> /\ s = <<>> /\ Len(es) = 2 /\ Ahead(<<"stream">>, e, h)

InNode(es, e, h, pc, s, ds) ==
  /\ pc = IF s # <<>> /\ AtEnd(Last(s), e) THEN "close" ELSE "node"
  /\ ds = <<>> /\ es[2] = "DOC_START"
  /\ IsStack(s) /\ OpenAt(es, s, Len(es)) /\ Ahead(Levels(s), e, h)

WasRead(es, node, j) == es[2] = "DOC_START" /\ j > 3 /\ Items(es, <<node>>, 3, j)

InDocEnd(es, e, h, pc, s, ds) ==
  /\ pc = "docend" /\ s = <<>> /\ Ahead(<<"stream", "docend">>, e, h)
  /\ \E node : ds = <<node>> /\ WasRead(es, node, Len(es))

InAfter(es, e, h, pc, s, ds) ==
  /\ pc = "stream" /\ s = <<>> /\ Ahead(<<"stream">>, e, h)
  /\ es[Len(es) - 1] = "DOC_END"
  /\ \E node : ds = <<node>> /\ WasRead(es, node, Len(es) - 1)

InInit(es, h, pc, s, ds) == pc = "init" /\ es = <<>> /\ h = <<>> /\ s = <<>> /\ ds = <<>>

Where(es, e, h, pc, s, ds) ==
  \/ InInit(es, h, pc, s, ds)
  \/ /\ Begun(es, e)
     /\ \/ InFirst(es, e, h, pc, s, ds)    \/ InDocument(es, e, h, pc, s, ds)
        \/ InNode(es, e, h, pc, s, ds)     \/ InDocEnd(es, e, h, pc, s, ds)
        \/ InAfter(es, e, h, pc, s, ds)

(* process_event, once something was read.                                 *)
Yields(es, h, fs, f, k) ==
  fs = Append(es, f) /\ k = After(h, f) /\ f \in IF h = <<>> THEN {"NO_EVENT"} ELSE Follow(h)

(* One event more: those before it stay where they are.                    *)
LEMMA OneMore ==
  ASSUME NEW es, NEW e, NEW h, Begun(es, e), NEW fs, NEW f, NEW k, Yields(es, h, fs, f, k)
  PROVE  /\ Begun(fs, f) /\ Len(es) \in Nat /\ Len(es) >= 1 /\ Len(fs) = Len(es) + 1
         /\ \A i \in 1 .. Len(es) : fs[i] = es[i]
         /\ fs[Len(es) + 1] = f /\ es[Len(es)] = e /\ fs[Len(es)] = e
<1>0. fs = Append(es, f)
  BY DEF Yields
<1>1. PICK R : es \in Seq(R)
  BY DEF Begun, IsSeq
<1>. DEFINE S == R \cup {f}
<1>2. es \in Seq(S) /\ f \in S
  <2>1. R \subseteq S /\ f \in S
    OBVIOUS
  <2>. HIDE DEF S
  <2>. QED  BY <1>1, <2>1
<1>. HIDE DEF S
<1>3. /\ fs \in Seq(S) /\ Len(fs) = Len(es) + 1 /\ fs[Len(es) + 1] = f
      /\ \A i \in 1 .. Len(es) : fs[i] = es[i]
  BY <1>0, <1>2
<1>4. Len(es) \in Nat /\ Len(es) >= 1 /\ es[1] = "STREAM_START" /\ es[Len(es)] = e
  BY DEF Begun
<1>5. 1 \in 1 .. Len(es) /\ Len(es) \in 1 .. Len(es)
  BY <1>4
<1>6. fs[1] = "STREAM_START" /\ fs[Len(es)] = e
  BY <1>3, <1>4, <1>5
<1>7. Begun(fs, f)
  BY <1>3, <1>4, <1>6 DEF Begun, IsSeq
<1>. QED  BY <1>3, <1>4, <1>6, <1>7

(* What may follow outside of every node.                                  *)
LEMMA FollowAre ==
  /\ Follow(<<"stream">>) = {"DOC_START", "STREAM_END"}
  /\ Follow(<<"stream", "doc">>) = Nodes
  /\ Follow(<<"stream", "docend">>) = {"DOC_END"}
<1>1. /\ Last(<<"stream">>) = "stream" /\ Last(<<"stream", "doc">>) = "doc"
      /\ Last(<<"stream", "docend">>) = "docend"
  BY DEF Last
<1>2. Follow(<<"stream">>) = {"DOC_START", "STREAM_END"}
  BY <1>1 DEF Follow
<1>3. Follow(<<"stream", "doc">>) = Nodes
  BY <1>1 DEF Follow
<1>4. Follow(<<"stream", "docend">>) = {"DOC_END"}
  BY <1>1 DEF Follow
<1>. QED  BY <1>2, <1>3, <1>4

(* What is ahead where no loop ends is a node.                             *)
LEMMA NodeAhead ==
  ASSUME NEW s, IsStack(s), NEW e, e \in Follow(Levels(s)), ~(s # <<>> /\ AtEnd(Last(s), e))
  PROVE  e \in Nodes
<1>. DEFINE g == Levels(s)
<1>1. Last(g) = IF s = <<>> THEN "doc" ELSE Mode(Last(s))
  BY LevelsType
<1>. HIDE DEF g
<1>2. CASE s = <<>>
  <2>1. Last(g) = "doc"
    BY <1>1, <1>2
  <2>2. Follow(g) = Nodes
    BY <2>1 DEF Follow
  <2>. QED  BY <2>2 DEF g
<1>3. CASE s # <<>>
  <2>1. IsFrame(Last(s))
    BY <1>3, StackTop
  <2>2. Last(s).kind = "seq" \/ Last(s).kind = "map"
    BY <2>1, FrameParts
  <2>3. Last(g) = Mode(Last(s)) /\ ~AtEnd(Last(s), e)
    BY <1>1, <1>3
  <2>4. CASE Last(s).kind = "seq"
    <3>1. Last(g) = "seq" /\ e # "SEQ_END"
      BY <2>3, <2>4 DEF Mode, AtEnd
    <3>2. Follow(g) = Nodes \cup {"SEQ_END"}
      BY <3>1 DEF Follow
    <3>. QED  BY <3>1, <3>2 DEF g
  <2>5. CASE Last(s).kind = "map" /\ Len(Last(s).items) % 2 = 0
    <3>1. Last(g) = "key" /\ e # "MAP_END"
      BY <2>3, <2>5 DEF Mode, AtEnd
    <3>2. Follow(g) = Nodes \cup {"MAP_END"}
      BY <3>1 DEF Follow
    <3>. QED  BY <3>1, <3>2 DEF g
  <2>6. CASE Last(s).kind = "map" /\ Len(Last(s).items) % 2 # 0
    <3>1. Last(g) = "value"
      BY <2>3, <2>6 DEF Mode
    <3>2. Follow(g) = Nodes
      BY <3>1 DEF Follow
    <3>. QED  BY <3>2 DEF g
  <2>. QED  BY <2>2, <2>4, <2>5, <2>6
<1>. QED  BY <1>2, <1>3

(* A node is complete: it goes to the frame it belongs to.                 *)
LEMMA DeliverKeeps ==
  ASSUME NEW es, NEW e, NEW h, Begun(es, e), es[2] = "DOC_START",
         NEW s, IsStack(s), NEW node, NEW i \in Nat, i < Len(es),
         OpenAt(es, s, i), Items(es, <<node>>, i, Len(es)), Ahead(Completed(Levels(s)), e, h)
  PROVE  /\ s = <<>> => InDocEnd(es, e, h, "docend", s, <<node>>)
         /\ s # <<>> =>
              InNode(es, e, h, IF AtEnd(Last(Added(s, node)), e) THEN "close" ELSE "node",
                     Added(s, node), <<>>)
<1>1. Len(es) \in Nat
  BY DEF Begun
<1>2. CASE s = <<>>
  <2>1. i = 3
    BY <1>2, OpenBound
  <2>2. WasRead(es, node, Len(es))
    BY <1>1, <2>1 DEF WasRead
  <2>3. Ahead(<<"stream", "docend">>, e, h)
    BY <1>2, LevelsEmpty
  <2>. QED  BY <1>2, <2>2, <2>3 DEF InDocEnd
<1>3. CASE s # <<>>
  <2>. DEFINE u == Added(s, node)
  <2>1. OpenAt(es, u, Len(es)) /\ IsStack(u)
    BY <1>1, <1>3, OpenAdd
  <2>2. Ahead(Levels(u), e, h)
    BY <1>3, LevelsAdded
  <2>3. u # <<>>
    <3>1. IsStack(Front(s)) /\ IsFrame(Last(s))
      BY <1>3, StackTop
    <3>2. IsFrame(WithItem(Last(s), node))
      BY <3>1, FrameParts
    <3>. QED  BY <3>1, <3>2, StackPush DEF Added
  <2>. HIDE DEF u
  <2>4. InNode(es, e, h, IF AtEnd(Last(u), e) THEN "close" ELSE "node", u, <<>>)
    <3>1. CASE AtEnd(Last(u), e)
      BY <2>1, <2>2, <2>3, <3>1 DEF InNode
    <3>2. CASE ~AtEnd(Last(u), e)
      BY <2>1, <2>2, <2>3, <3>2 DEF InNode
    <3>. QED  BY <3>1, <3>2
  <2>. QED  BY <1>3, <2>4 DEF u
<1>. QED  BY <1>2, <1>3

(* Something is open as long as the document is.                           *)
LEMMA CompletedSome ==
  ASSUME NEW s, IsStack(s)
  PROVE  Levels(s) # <<>> /\ Completed(Levels(s)) # <<>>
<1>1. CASE s = <<>>
  <2>1. Completed(Levels(s)) = <<"stream", "docend">> /\ Levels(s) = <<"stream", "doc">>
    BY <1>1, LevelsEmpty
  <2>2. <<"stream", "docend">> # <<>> /\ <<"stream", "doc">> # <<>>
    OBVIOUS
  <2>. QED  BY <2>1, <2>2
<1>2. CASE s # <<>>
  <2>. DEFINE u == Append(Front(s), WithItem(Last(s), s))
  <2>1. IsStack(Front(s)) /\ IsFrame(Last(s))
    BY <1>2, StackTop
  <2>2. IsFrame(WithItem(Last(s), s))
    BY <2>1, FrameParts
  <2>3. IsStack(u) /\ Completed(Levels(s)) = Levels(u)
    BY <1>2, <2>1, <2>2, StackPush, LevelsAdded DEF Added
  <2>. HIDE DEF u
  <2>. QED  BY <2>3, LevelsType
<1>. QED  BY <1>1, <1>2

(* The start of a document.                                                *)
LEMMA DocOpen == <<"stream">> \o <<"doc">> = <<"stream", "doc">>
<1>. DEFINE a == <<"stream">>
            b == <<"doc">>
            c == <<"stream", "doc">>
<1>1. /\ a \in Seq(Modes) /\ Len(a) = 1 /\ a[1] = "stream"
      /\ b \in Seq(Modes) /\ Len(b) = 1 /\ b[1] = "doc"
      /\ c \in Seq(Modes) /\ Len(c) = 2 /\ c[1] = "stream" /\ c[2] = "doc"
  BY DEF Modes
<1>. HIDE DEF a, b, c
<1>2. a \o b \in Seq(Modes) /\ Len(a \o b) = 2 /\ (a \o b)[1] = a[1] /\ (a \o b)[2] = b[1]
  <2>1. /\ a \o b \in Seq(Modes) /\ Len(a \o b) = Len(a) + Len(b)
        /\ \A i \in 1 .. (Len(a) + Len(b)) :
             (a \o b)[i] = IF i <= Len(a) THEN a[i] ELSE b[i - Len(a)]
    BY <1>1, ConcatProperties
  <2>2. 1 \in 1 .. (1 + 1) /\ 2 \in 1 .. (1 + 1) /\ 2 - 1 = 1
    OBVIOUS
  <2>. QED  BY <1>1, <2>1, <2>2
<1>3. a \o b = c
  <2>1. \A i \in 1 .. Len(c) : (a \o b)[i] = c[i]
    <3>1. \A i \in 1 .. 2 : i = 1 \/ i = 2
      OBVIOUS
    <3>. QED  BY <1>1, <1>2, <3>1
  <2>. QED  BY <1>1, <1>2, <2>1, SeqEqual
<1>. QED  BY <1>3 DEF a, b, c

(* process_node reads a scalar, ...                                        *)
LEMMA ScalarKeeps ==
  ASSUME NEW es, NEW e, NEW h, NEW s, NEW ds, Begun(es, e), InNode(es, e, h, "node", s, ds),
         e = "SCALAR", NEW fs, NEW f, NEW k, Yields(es, h, fs, f, k)
  PROVE  /\ s = <<>> => InDocEnd(fs, f, k, "docend", s, Append(ds, Frame("scalar")))
         /\ s # <<>> =>
              InNode(fs, f, k, IF AtEnd(Last(Added(s, Frame("scalar"))), f) THEN "close" ELSE "node",
                     Added(s, Frame("scalar")), ds)
<1>. DEFINE n == Len(es)
            node == Frame("scalar")
<1>1. /\ ds = <<>> /\ es[2] = "DOC_START" /\ IsStack(s) /\ OpenAt(es, s, n)
      /\ h = Completed(Levels(s))
  BY AfterIs DEF InNode, Ahead
<1>2. /\ Begun(fs, f) /\ n \in Nat /\ Len(fs) = n + 1 /\ fs[n] = e
      /\ \A i \in 1 .. n : fs[i] = es[i]
  BY OneMore
<1>. HIDE DEF n, node
<1>3. n >= 3
  BY <1>1, <1>2, OpenBound
<1>4. fs[2] = "DOC_START" /\ OpenAt(fs, s, n)
  <2>1. 2 \in 1 .. n /\ \A i \in 1 .. (n - 1) : i \in 1 .. n
    BY <1>2, <1>3
  <2>2. fs[2] = "DOC_START" /\ \A i \in 1 .. (n - 1) : es[i] = fs[i]
    BY <1>1, <1>2, <2>1
  <2>. QED  BY <1>1, <1>2, <2>2, OpenSame
<1>5. Items(fs, <<node>>, n, Len(fs)) /\ n < Len(fs)
  BY <1>2, ItemScalar DEF node
<1>6. Ahead(Completed(Levels(s)), f, k)
  BY <1>1, CompletedSome DEF Yields, Ahead
<1>7. Append(ds, node) = <<node>>
  BY <1>1
<1>8. /\ s = <<>> => InDocEnd(fs, f, k, "docend", s, <<node>>)
      /\ s # <<>> => InNode(fs, f, k, IF AtEnd(Last(Added(s, node)), f) THEN "close" ELSE "node",
                            Added(s, node), <<>>)
  BY <1>1, <1>2, <1>4, <1>5, <1>6, DeliverKeeps
<1>. QED  BY <1>1, <1>7, <1>8 DEF node

(* ... a loop ends, ...                                                    *)
LEMMA CloseKeeps ==
  ASSUME NEW es, NEW e, NEW h, NEW s, NEW ds, Begun(es, e), InNode(es, e, h, "close", s, ds),
         NEW fs, NEW f, NEW k, Yields(es, h, fs, f, k)
  PROVE  /\ s # <<>>
         /\ Front(s) = <<>> => InDocEnd(fs, f, k, "docend", Front(s), Append(ds, Last(s)))
         /\ Front(s) # <<>> =>
              InNode(fs, f, k,
                     IF AtEnd(Last(Added(Front(s), Last(s))), f) THEN "close" ELSE "node",
                     Added(Front(s), Last(s)), ds)
<1>. DEFINE n == Len(es)
            node == Last(s)
            u == Front(s)
<1>1. /\ ds = <<>> /\ es[2] = "DOC_START" /\ IsStack(s) /\ OpenAt(es, s, n)
      /\ Ahead(Levels(s), e, h) /\ s # <<>> /\ AtEnd(node, e)
  BY DEF InNode
<1>2. /\ Begun(fs, f) /\ n \in Nat /\ Len(fs) = n + 1 /\ fs[n] = e
      /\ \A i \in 1 .. n : fs[i] = es[i]
  BY OneMore
<1>. HIDE DEF n
<1>3. n >= 3
  BY <1>1, <1>2, OpenBound
<1>4. fs[2] = "DOC_START" /\ OpenAt(fs, s, n)
  <2>1. 2 \in 1 .. n /\ \A i \in 1 .. (n - 1) : i \in 1 .. n
    BY <1>2, <1>3
  <2>2. fs[2] = "DOC_START" /\ \A i \in 1 .. (n - 1) : es[i] = fs[i]
    BY <1>1, <1>2, <2>1
  <2>. QED  BY <1>1, <1>2, <2>2, OpenSame
<1>5. IsStack(u) /\ IsFrame(node)
  BY <1>1, StackTop
<1>6. e = EndOf(node.kind) /\ e \in {"SEQ_END", "MAP_END"}
  <2>1. node.kind = "seq" \/ node.kind = "map"
    BY <1>5, FrameParts
  <2>. HIDE DEF node
  <2>. QED  BY <1>1, <2>1 DEF AtEnd, EndOf
<1>7. PICK i \in Nat : i < n /\ OpenAt(fs, u, i) /\ Items(fs, <<node>>, i, n + 1)
  BY <1>1, <1>2, <1>4, <1>6, OpenPop
<1>8. h = Completed(Levels(u))
  <2>1. h = After(Levels(s), e)
    BY <1>1 DEF Ahead
  <2>2. After(Levels(s), e) = Completed(Front(Levels(s)))
    BY <1>6, AfterIs
  <2>. QED  BY <1>1, <2>1, <2>2, LevelsFront
<1>9. Ahead(Completed(Levels(u)), f, k)
  BY <1>5, <1>8, CompletedSome DEF Yields, Ahead
<1>. HIDE DEF u, node
<1>10. Append(ds, node) = <<node>>
  BY <1>1
<1>11. i < Len(fs) /\ Items(fs, <<node>>, i, Len(fs))
  BY <1>2, <1>7
<1>12. /\ u = <<>> => InDocEnd(fs, f, k, "docend", u, <<node>>)
       /\ u # <<>> => InNode(fs, f, k, IF AtEnd(Last(Added(u, node)), f) THEN "close" ELSE "node",
                             Added(u, node), <<>>)
  BY <1>2, <1>4, <1>5, <1>7, <1>9, <1>11, DeliverKeeps
<1>. QED  BY <1>1, <1>10, <1>12 DEF u, node

(* ... process_node opens a sequence or a mapping.                         *)
LEMMA OpenKeeps ==
  ASSUME NEW es, NEW e, NEW h, NEW s, NEW ds, Begun(es, e), InNode(es, e, h, "node", s, ds),
         NEW kind \in {"seq", "map"}, e = StartOf(kind), NEW fs, NEW f, NEW k,
         Yields(es, h, fs, f, k)
  PROVE  InNode(fs, f, k,
                IF AtEnd(Last(Append(s, Frame(kind))), f) THEN "close" ELSE "node",
                Append(s, Frame(kind)), ds)
<1>. DEFINE n == Len(es)
            u == Append(s, Frame(kind))
<1>1. /\ ds = <<>> /\ es[2] = "DOC_START" /\ IsStack(s) /\ OpenAt(es, s, n)
      /\ Ahead(Levels(s), e, h)
  BY DEF InNode
<1>2. /\ Begun(fs, f) /\ n \in Nat /\ Len(fs) = n + 1 /\ fs[n] = e
      /\ \A i \in 1 .. n : fs[i] = es[i]
  BY OneMore
<1>. HIDE DEF n
<1>3. n >= 3
  BY <1>1, <1>2, OpenBound
<1>4. fs[2] = "DOC_START" /\ OpenAt(fs, s, n)
  <2>1. 2 \in 1 .. n /\ \A i \in 1 .. (n - 1) : i \in 1 .. n
    BY <1>2, <1>3
  <2>2. fs[2] = "DOC_START" /\ \A i \in 1 .. (n - 1) : es[i] = fs[i]
    BY <1>1, <1>2, <2>1
  <2>. QED  BY <1>1, <1>2, <2>2, OpenSame
<1>5. OpenAt(fs, u, Len(fs)) /\ IsStack(u)
  BY <1>1, <1>2, <1>4, OpenPush
<1>6. h = Levels(u)
  <2>1. h = After(Levels(s), e)
    BY <1>1 DEF Ahead
  <2>2. After(Levels(s), e) = Levels(s) \o <<IF kind = "seq" THEN "seq" ELSE "key">>
    <3>1. CASE kind = "seq"
      BY <3>1, AfterIs DEF StartOf
    <3>2. CASE kind = "map"
      BY <3>2, AfterIs DEF StartOf
    <3>. QED  BY <3>1, <3>2
  <2>. QED  BY <1>1, <2>1, <2>2, LevelsPush
<1>7. u # <<>>
  <2>1. IsFrame(Frame(kind))
    BY OneSeq DEF IsFrame, Frame
  <2>. QED  BY <1>1, <2>1, StackPush
<1>. HIDE DEF u
<1>8. Ahead(Levels(u), f, k)
  BY <1>5, <1>6, CompletedSome DEF Yields, Ahead
<1>9. InNode(fs, f, k, IF AtEnd(Last(u), f) THEN "close" ELSE "node", u, ds)
  <2>1. CASE AtEnd(Last(u), f)
    BY <1>1, <1>4, <1>5, <1>7, <1>8, <2>1 DEF InNode
  <2>2. CASE ~AtEnd(Last(u), f)
    BY <1>1, <1>4, <1>5, <1>7, <1>8, <2>2 DEF InNode
  <2>. QED  BY <2>1, <2>2
<1>. QED  BY <1>9 DEF u

(* process_document reads the start of a document, ...                     *)
LEMMA RootKeeps ==
  ASSUME NEW es, NEW e, NEW h, NEW s, NEW ds, Begun(es, e),
         InDocument(es, e, h, "document", s, ds), e = "DOC_START",
         NEW fs, NEW f, NEW k, Yields(es, h, fs, f, k)
  PROVE  InNode(fs, f, k, "node", s, ds)
<1>1. ds = <<>> /\ s = <<>> /\ Len(es) = 2 /\ h = After(<<"stream">>, e)
  BY DEF InDocument, Ahead
<1>2. /\ Begun(fs, f) /\ Len(fs) = Len(es) + 1 /\ fs[Len(es)] = e
  BY OneMore
<1>3. Len(fs) = 3 /\ fs[2] = "DOC_START"
  BY <1>1, <1>2
<1>4. h = <<"stream", "doc">>
  <2>1. h = <<"stream">> \o <<"doc">>
    BY <1>1, AfterIs
  <2>. QED  BY <2>1, DocOpen
<1>5. h # <<>> /\ h = Levels(s) /\ IsStack(s)
  <2>1. <<"stream", "doc">> # <<>>
    OBVIOUS
  <2>. QED  BY <1>1, <1>4, <2>1, LevelsEmpty
<1>6. Ahead(Levels(s), f, k)
  BY <1>5 DEF Yields, Ahead
<1>7. OpenAt(fs, s, 3)
  <2>. DEFINE began == [i \in {1} |-> 3]
  <2>1. Len(s) = 0
    BY <1>1
  <2>2. 1 .. 0 = {} /\ 1 .. (0 + 1) = {1} /\ 0 + 1 = 1
    OBVIOUS
  <2>3. began \in [{1} -> Nat] /\ began[1] = 3
    OBVIOUS
  <2>. HIDE DEF began
  <2>. QED  BY <2>1, <2>2, <2>3 DEF OpenAt
<1>. QED  BY <1>1, <1>3, <1>5, <1>6, <1>7 DEF InNode

(* ... and its end.                                                        *)
LEMMA DocEndKeeps ==
  ASSUME NEW es, NEW e, NEW h, NEW s, NEW ds, Begun(es, e),
         InDocEnd(es, e, h, "docend", s, ds), e = "DOC_END",
         NEW fs, NEW f, NEW k, Yields(es, h, fs, f, k)
  PROVE  InAfter(fs, f, k, "stream", s, ds)
<1>. DEFINE n == Len(es)
<1>1. s = <<>> /\ h = After(<<"stream", "docend">>, e)
  BY DEF InDocEnd, Ahead
<1>2. PICK node : ds = <<node>> /\ WasRead(es, node, n)
  BY DEF InDocEnd
<1>3. /\ Begun(fs, f) /\ n \in Nat /\ Len(fs) = n + 1 /\ fs[n] = e
      /\ \A i \in 1 .. n : fs[i] = es[i]
  BY OneMore
<1>4. h = <<"stream">> /\ h # <<>>
  BY <1>1, AfterIs, LevelsEmpty
<1>5. Ahead(<<"stream">>, f, k)
  BY <1>4 DEF Yields, Ahead
<1>. HIDE DEF n
<1>6. n > 3 /\ es[2] = "DOC_START" /\ Items(es, <<node>>, 3, n)
  BY <1>2 DEF WasRead
<1>7. 2 \in 1 .. n /\ \A i \in 3 .. (n - 1) : i \in 1 .. n
  BY <1>3, <1>6
<1>8. fs[2] = "DOC_START" /\ \A i \in 3 .. (n - 1) : es[i] = fs[i]
  BY <1>3, <1>6, <1>7
<1>9. Items(fs, <<node>>, 3, n)
  BY <1>3, <1>6, <1>8, ItemsSame
<1>10. Len(fs) - 1 = n
  BY <1>3
<1>11. WasRead(fs, node, Len(fs) - 1) /\ fs[Len(fs) - 1] = "DOC_END"
  BY <1>3, <1>6, <1>8, <1>9, <1>10 DEF WasRead
<1>. QED  BY <1>1, <1>2, <1>5, <1>11 DEF InAfter

(* The loop over the documents goes on.                                    *)
LEMMA StreamKeeps ==
  ASSUME NEW es, NEW e, NEW h, NEW s, NEW ds, Begun(es, e),
         InFirst(es, e, h, "stream", s, ds) \/ InAfter(es, e, h, "stream", s, ds),
         e # "STREAM_END", NEW fs, NEW f, NEW k, Yields(es, h, fs, f, k)
  PROVE  InDocument(fs, f, k, "document", s, ds)
<1>1. CASE InFirst(es, e, h, "stream", s, ds)
  <2>1. ds = <<>> /\ s = <<>> /\ Len(es) = 1 /\ h = <<"stream">> /\ h # <<>>
    BY <1>1 DEF InFirst
  <2>2. Len(fs) = Len(es) + 1
    BY OneMore
  <2>3. Len(fs) = 2
    BY <2>1, <2>2
  <2>4. Ahead(<<"stream">>, f, k)
    BY <2>1 DEF Yields, Ahead
  <2>. QED  BY <2>1, <2>3, <2>4 DEF InDocument
<1>2. CASE InAfter(es, e, h, "stream", s, ds)
  <2>1. e \in Follow(<<"stream">>) /\ h = After(<<"stream">>, e)
    BY <1>2 DEF InAfter, Ahead
  <2>2. e = "DOC_START"
    BY <2>1, FollowAre
  <2>3. h = <<"stream", "doc">>
    <3>1. h = <<"stream">> \o <<"doc">>
      BY <2>1, <2>2, AfterIs
    <3>. QED  BY <3>1, DocOpen
  <2>4. h # <<>>
    BY <2>3
  <2>5. f \in Nodes
    BY <2>3, <2>4, FollowAre DEF Yields
  <2>6. f # "DOC_START"
    BY <2>5 DEF Nodes
  <2>. QED  BY <2>6 DEF InDocument
<1>. QED  BY <1>1, <1>2

(* The end of the stream: what was read is the one document of it.         *)
LEMMA TreeKeeps ==
  ASSUME NEW es, NEW e, NEW h, NEW s, NEW ds, Begun(es, e),
         InFirst(es, e, h, "stream", s, ds) \/ InAfter(es, e, h, "stream", s, ds),
         e = "STREAM_END", NEW fs, NEW f, NEW k, Yields(es, h, fs, f, k)
  PROVE  /\ Len(ds) = 1 /\ Len(fs) \in Nat /\ Len(fs) > 5
         /\ fs[1] = "STREAM_START" /\ fs[2] = "DOC_START"
         /\ Items(fs, <<ds[1]>>, 3, Len(fs) - 2)
         /\ fs[Len(fs) - 2] = "DOC_END" /\ fs[Len(fs) - 1] = "STREAM_END"
         /\ fs[Len(fs)] = "NO_EVENT"
<1>. DEFINE n == Len(es)
<1>1. InAfter(es, e, h, "stream", s, ds)
  BY DEF InFirst
<1>2. h = After(<<"stream">>, e) /\ es[n - 1] = "DOC_END"
  BY <1>1 DEF InAfter, Ahead
<1>3. PICK node : ds = <<node>> /\ WasRead(es, node, n - 1)
  BY <1>1 DEF InAfter
<1>4. /\ Begun(fs, f) /\ n \in Nat /\ Len(fs) = n + 1 /\ fs[n] = e /\ fs[n + 1] = f
      /\ \A i \in 1 .. n : fs[i] = es[i]
  BY OneMore
<1>5. h = <<>>
  BY <1>2, AfterIs, LevelsEmpty
<1>6. f = "NO_EVENT"
  BY <1>5 DEF Yields
<1>7. Len(ds) = 1 /\ ds[1] = node
  BY <1>3
<1>. HIDE DEF n
<1>8. n - 1 > 3 /\ es[2] = "DOC_START" /\ Items(es, <<node>>, 3, n - 1)
  BY <1>3 DEF WasRead
<1>9. /\ n - 1 \in Nat /\ n - 1 \in 1 .. n /\ 2 \in 1 .. n
      /\ \A i \in 3 .. ((n - 1) - 1) : i \in 1 .. n
  BY <1>4, <1>8
<1>10. /\ fs[2] = "DOC_START" /\ fs[n - 1] = "DOC_END"
       /\ \A i \in 3 .. ((n - 1) - 1) : es[i] = fs[i]
  BY <1>2, <1>4, <1>8, <1>9
<1>11. Items(fs, <<node>>, 3, n - 1)
  BY <1>8, <1>9, <1>10, ItemsSame
<1>12. Len(fs) - 2 = n - 1 /\ Len(fs) - 1 = n /\ Len(fs) > 5 /\ Len(fs) \in Nat
  BY <1>4, <1>8
<1>13. fs[1] = "STREAM_START"
  BY <1>4 DEF Begun
<1>. QED  BY <1>4, <1>6, <1>7, <1>10, <1>11, <1>12, <1>13

(* The stream that a tree was returned for.                                *)
OneDocument(fs, ds) ==
  /\ Len(ds) = 1 /\ Len(fs) \in Nat /\ Len(fs) > 5
  /\ fs[1] = "STREAM_START" /\ fs[2] = "DOC_START"
  /\ Items(fs, <<ds[1]>>, 3, Len(fs) - 2)
  /\ fs[Len(fs) - 2] = "DOC_END" /\ fs[Len(fs) - 1] = "STREAM_END"
  /\ fs[Len(fs)] = "NO_EVENT"

(* The inductive invariant.                                                *)
YamlInv ==
  /\ result = "" => Where(events, next_event, grammar, ypc, stack, docs)
  /\ result = "tree" => OneDocument(events, docs)
  /\ result = "report" => problem

(* It implies the property, ...                                            *)
LEMMA YamlInvImplies == YamlInv => TreeOrProblem
<1>1. ASSUME result = "tree", OneDocument(events, docs)
      PROVE  LET n == Len(events)
             IN  /\ Len(docs) = 1 /\ n > 5
                 /\ events[1] = "STREAM_START" /\ events[2] = "DOC_START"
                 /\ Describes(docs[1], 3, n - 2)
                 /\ events[n - 2] = "DOC_END" /\ events[n - 1] = "STREAM_END"
                 /\ events[n] = "NO_EVENT"
  <2>1. Len(events) - 2 \in Nat /\ 3 <= Len(events) - 2
    BY <1>1 DEF OneDocument
  <2>2. Items(events, <<docs[1]>>, 3, Len(events) - 2)
    BY <1>1 DEF OneDocument
  <2>3. Describes(docs[1], 3, Len(events) - 2)
    BY <2>1, <2>2, DescribesIs
  <2>. QED  BY <1>1, <2>3 DEF OneDocument
<1>. QED  BY <1>1 DEF YamlInv, TreeOrProblem

(* ... it holds at first, ...                                              *)
LEMMA YamlInitInv == YamlInit => YamlInv
  BY DEF YamlInit, YamlInv, Where, InInit

(* process_event, as a relation between values.                            *)
LEMMA EventIs ==
  ASSUME Begun(events, next_event), process_event
  PROVE  event' = next_event /\ Yields(events, grammar, events', next_event', grammar')
<1>1. PICK f \in MayFollow(grammar) :
        next_event' = f /\ events' = Append(events, f) /\ grammar' = After(grammar, f)
  BY DEF process_event
<1>2. events # <<>>
  BY DEF Begun
<1>3. f \in IF grammar = <<>> THEN {"NO_EVENT"} ELSE Follow(grammar)
  <2>1. CASE grammar = <<>>
    BY <1>1, <1>2, <2>1 DEF MayFollow
  <2>2. CASE grammar # <<>>
    BY <1>1, <2>2, FollowIs
  <2>. QED  BY <2>1, <2>2
<1>. QED  BY <1>1, <1>3 DEF process_event, Yields

(* What is known where a function reads the next event.                    *)
LEMMA EventRead ==
  ASSUME NEW pc, YamlInv, Running(pc), process_event, pc # "init"
  PROVE  /\ result = "" /\ ypc = pc /\ Begun(events, next_event)
         /\ event' = next_event /\ Yields(events, grammar, events', next_event', grammar')
         /\ Begun(events', next_event')
         /\ \/ InFirst(events, next_event, grammar, pc, stack, docs)
            \/ InDocument(events, next_event, grammar, pc, stack, docs)
            \/ InNode(events, next_event, grammar, pc, stack, docs)
            \/ InDocEnd(events, next_event, grammar, pc, stack, docs)
            \/ InAfter(events, next_event, grammar, pc, stack, docs)
<1>1. result = "" /\ ypc = pc /\ Where(events, next_event, grammar, pc, stack, docs)
  BY DEF YamlInv, Running
<1>2. /\ Begun(events, next_event)
      /\ \/ InFirst(events, next_event, grammar, pc, stack, docs)
         \/ InDocument(events, next_event, grammar, pc, stack, docs)
         \/ InNode(events, next_event, grammar, pc, stack, docs)
         \/ InDocEnd(events, next_event, grammar, pc, stack, docs)
         \/ InAfter(events, next_event, grammar, pc, stack, docs)
  BY <1>1 DEF Where, InInit
<1>3. event' = next_event /\ Yields(events, grammar, events', next_event', grammar')
  BY <1>2, EventIs
<1>4. Begun(events', next_event')
  BY <1>2, <1>3, OneMore
<1>. QED  BY <1>1, <1>2, <1>3, <1>4

(* Every step keeps it: giving up, ...                                     *)
LEMMA GiveUpKeeps == ASSUME Give_up(TRUE) PROVE YamlInv'
  BY DEF Give_up, YamlInv

(* ... and one action after the other.                                     *)
LEMMA FirstEventKeeps == ASSUME YamlInv, FirstEvent PROVE YamlInv'
<1>1. result = "" /\ ypc = "init" /\ Where(events, next_event, grammar, "init", stack, docs)
  BY DEF FirstEvent, Running, YamlInv
<1>2. events = <<>> /\ grammar = <<>> /\ stack = <<>> /\ docs = <<>>
  BY <1>1 DEF Where, InInit, InFirst, InDocument, InNode, InDocEnd, InAfter
<1>3. MayFollow(grammar) = {"STREAM_START"}
  BY <1>2 DEF MayFollow
<1>4. /\ next_event' = "STREAM_START" /\ events' = Append(<<>>, "STREAM_START")
      /\ grammar' = After(<<>>, "STREAM_START")
  BY <1>2, <1>3 DEF FirstEvent, process_event
<1>5. grammar' = <<"stream">>
  <2>1. grammar' = <<>> \o <<"stream">>
    BY <1>4, AfterIs
  <2>2. <<>> \o <<"stream">> = <<"stream">>
    BY OneSeq, CatSeq
  <2>. QED  BY <2>1, <2>2
<1>6. events' = <<"STREAM_START">>
  BY <1>4
<1>7. Begun(events', next_event') /\ Len(events') = 1
  <2>1. Len(events') = 1 /\ events'[1] = "STREAM_START"
    BY <1>6
  <2>2. IsSeq(events')
    BY <1>6, OneSeq
  <2>. QED  BY <1>4, <2>1, <2>2 DEF Begun
<1>8. ypc' = "stream" /\ result' = "" /\ stack' = <<>> /\ docs' = <<>>
  BY <1>1, <1>2 DEF FirstEvent, Continue
<1>9. InFirst(events', next_event', grammar', ypc', stack', docs')
  BY <1>4, <1>5, <1>7, <1>8 DEF InFirst
<1>. QED  BY <1>7, <1>8, <1>9 DEF YamlInv, Where

LEMMA StreamLoopKeeps == ASSUME YamlInv, StreamLoop PROVE YamlInv'
<1>1. /\ Begun(events, next_event)
      /\ event' = next_event /\ Yields(events, grammar, events', next_event', grammar')
      /\ Begun(events', next_event')
      /\ \/ InFirst(events, next_event, grammar, "stream", stack, docs)
         \/ InAfter(events, next_event, grammar, "stream", stack, docs)
  <2>1. Running("stream") /\ process_event
    BY DEF StreamLoop
  <2>2. ~InDocument(events, next_event, grammar, "stream", stack, docs)
    BY DEF InDocument
  <2>3. ~InNode(events, next_event, grammar, "stream", stack, docs)
    BY DEF InNode
  <2>4. ~InDocEnd(events, next_event, grammar, "stream", stack, docs)
    BY DEF InDocEnd
  <2>. QED  BY <2>1, <2>2, <2>3, <2>4, EventRead
<1>2. stack' = stack /\ docs' = docs /\ result = ""
  BY DEF StreamLoop, Running
<1>3. CASE next_event = "STREAM_END"
  <2>1. OneDocument(events', docs)
    BY <1>1, <1>3, TreeKeeps DEF OneDocument
  <2>2. Len(docs) = 1
    BY <2>1 DEF OneDocument
  <2>3. result' = "tree"
    BY <1>1, <1>3, <2>2 DEF StreamLoop
  <2>. QED  BY <1>2, <2>1, <2>3 DEF YamlInv
<1>4. CASE next_event # "STREAM_END"
  <2>1. ypc' = "document" /\ result' = ""
    BY <1>1, <1>2, <1>4 DEF StreamLoop
  <2>2. InDocument(events', next_event', grammar', "document", stack, docs)
    BY <1>1, <1>4, StreamKeeps
  <2>. QED  BY <1>1, <1>2, <2>1, <2>2 DEF YamlInv, Where
<1>. QED  BY <1>3, <1>4

LEMMA DocumentStartKeeps == ASSUME YamlInv, DocumentStart PROVE YamlInv'
<1>1. /\ Begun(events, next_event)
      /\ event' = next_event /\ Yields(events, grammar, events', next_event', grammar')
      /\ Begun(events', next_event')
      /\ InDocument(events, next_event, grammar, "document", stack, docs)
  <2>1. Running("document") /\ process_event
    BY DEF DocumentStart
  <2>2. /\ ~InFirst(events, next_event, grammar, "document", stack, docs)
        /\ ~InAfter(events, next_event, grammar, "document", stack, docs)
    BY DEF InFirst, InAfter
  <2>3. ~InNode(events, next_event, grammar, "document", stack, docs)
    BY DEF InNode
  <2>4. ~InDocEnd(events, next_event, grammar, "document", stack, docs)
    BY DEF InDocEnd
  <2>. QED  BY <2>1, <2>2, <2>3, <2>4, EventRead
<1>2. CASE next_event = "DOC_START"
  <2>1. ypc' = "node" /\ stack' = stack /\ docs' = docs /\ result' = ""
    BY <1>1, <1>2 DEF DocumentStart, Running, Continue
  <2>2. InNode(events', next_event', grammar', "node", stack, docs)
    BY <1>1, <1>2, RootKeeps
  <2>. QED  BY <1>1, <2>1, <2>2 DEF YamlInv, Where
<1>3. CASE next_event # "DOC_START"
  <2>1. Give_up(TRUE)
    BY <1>1, <1>3 DEF DocumentStart
  <2>. QED  BY <2>1, GiveUpKeeps
<1>. QED  BY <1>2, <1>3

LEMMA DocumentEndKeeps == ASSUME YamlInv, DocumentEnd PROVE YamlInv'
<1>1. /\ Begun(events, next_event)
      /\ event' = next_event /\ Yields(events, grammar, events', next_event', grammar')
      /\ Begun(events', next_event')
      /\ InDocEnd(events, next_event, grammar, "docend", stack, docs)
  <2>1. Running("docend") /\ process_event
    BY DEF DocumentEnd
  <2>2. /\ ~InFirst(events, next_event, grammar, "docend", stack, docs)
        /\ ~InAfter(events, next_event, grammar, "docend", stack, docs)
    BY DEF InFirst, InAfter
  <2>3. ~InNode(events, next_event, grammar, "docend", stack, docs)
    BY DEF InNode
  <2>4. ~InDocument(events, next_event, grammar, "docend", stack, docs)
    BY DEF InDocument
  <2>. QED  BY <2>1, <2>2, <2>3, <2>4, EventRead
<1>2. CASE next_event = "DOC_END"
  <2>1. ypc' = "stream" /\ stack' = stack /\ docs' = docs /\ result' = ""
    BY <1>1, <1>2 DEF DocumentEnd, Running, Continue
  <2>2. InAfter(events', next_event', grammar', "stream", stack, docs)
    BY <1>1, <1>2, DocEndKeeps
  <2>. QED  BY <1>1, <2>1, <2>2 DEF YamlInv, Where
<1>3. CASE next_event # "DOC_END"
  <2>1. Give_up(TRUE)
    BY <1>1, <1>3 DEF DocumentEnd
  <2>. QED  BY <2>1, GiveUpKeeps
<1>. QED  BY <1>2, <1>3

LEMMA CloseStepKeeps == ASSUME YamlInv, Close PROVE YamlInv'
<1>1. /\ Begun(events, next_event)
      /\ event' = next_event /\ Yields(events, grammar, events', next_event', grammar')
      /\ Begun(events', next_event')
      /\ InNode(events, next_event, grammar, "close", stack, docs)
  <2>1. Running("close") /\ process_event
    BY DEF Close
  <2>2. /\ ~InFirst(events, next_event, grammar, "close", stack, docs)
        /\ ~InAfter(events, next_event, grammar, "close", stack, docs)
    BY DEF InFirst, InAfter
  <2>3. ~InDocEnd(events, next_event, grammar, "close", stack, docs)
    BY DEF InDocEnd
  <2>4. ~InDocument(events, next_event, grammar, "close", stack, docs)
    BY DEF InDocument
  <2>. QED  BY <2>1, <2>2, <2>3, <2>4, EventRead
<1>2. result' = "" /\ Deliver(Last(stack), Front(stack), next_event')
  BY DEF Close, Running, Continue
<1>3. PICK u, node : u = Front(stack) /\ node = Last(stack)
  OBVIOUS
<1>4. /\ u = <<>> => InDocEnd(events', next_event', grammar', "docend", u, Append(docs, node))
      /\ u # <<>> =>
           InNode(events', next_event', grammar',
                  IF AtEnd(Last(Added(u, node)), next_event') THEN "close" ELSE "node",
                  Added(u, node), docs)
  BY <1>1, <1>3, CloseKeeps
<1>5. CASE u = <<>>
  <2>1. docs' = Append(docs, node) /\ stack' = u /\ ypc' = "docend"
    BY <1>2, <1>3, <1>5 DEF Deliver
  <2>. QED  BY <1>1, <1>2, <1>4, <1>5, <2>1 DEF YamlInv, Where
<1>6. CASE u # <<>>
  <2>1. /\ stack' = Added(u, node) /\ docs' = docs
        /\ ypc' = IF AtEnd(Last(Added(u, node)), next_event') THEN "close" ELSE "node"
    BY <1>2, <1>3, <1>6 DEF Deliver, Loop, Added, WithItem
  <2>. QED  BY <1>1, <1>2, <1>4, <1>6, <2>1 DEF YamlInv, Where
<1>. QED  BY <1>5, <1>6

LEMMA NodeStepKeeps == ASSUME YamlInv, process_node PROVE YamlInv'
<1>1. /\ Begun(events, next_event)
      /\ event' = next_event /\ Yields(events, grammar, events', next_event', grammar')
      /\ Begun(events', next_event')
      /\ InNode(events, next_event, grammar, "node", stack, docs)
  <2>1. Running("node") /\ process_event
    BY DEF process_node
  <2>2. /\ ~InFirst(events, next_event, grammar, "node", stack, docs)
        /\ ~InAfter(events, next_event, grammar, "node", stack, docs)
    BY DEF InFirst, InAfter
  <2>3. ~InDocEnd(events, next_event, grammar, "node", stack, docs)
    BY DEF InDocEnd
  <2>4. ~InDocument(events, next_event, grammar, "node", stack, docs)
    BY DEF InDocument
  <2>. QED  BY <2>1, <2>2, <2>3, <2>4, EventRead
<1>2. next_event \in Nodes
  <2>1. IsStack(stack) /\ next_event \in Follow(Levels(stack))
    BY <1>1 DEF InNode, Ahead
  <2>2. ~(stack # <<>> /\ AtEnd(Last(stack), next_event))
    BY <1>1 DEF InNode
  <2>. QED  BY <2>1, <2>2, NodeAhead
<1>3. result = ""
  BY DEF process_node, Running
<1>4. CASE next_event = "SCALAR"
  <2>. DEFINE node == Frame("scalar")
  <2>1. result' = "" /\ Deliver(node, stack, next_event')
    BY <1>1, <1>3, <1>4 DEF process_node, Continue
  <2>2. /\ stack = <<>> =>
             InDocEnd(events', next_event', grammar', "docend", stack, Append(docs, node))
        /\ stack # <<>> =>
             InNode(events', next_event', grammar',
                    IF AtEnd(Last(Added(stack, node)), next_event') THEN "close" ELSE "node",
                    Added(stack, node), docs)
    BY <1>1, <1>4, ScalarKeeps
  <2>. HIDE DEF node
  <2>3. CASE stack = <<>>
    <3>1. docs' = Append(docs, node) /\ stack' = stack /\ ypc' = "docend"
      BY <2>1, <2>3 DEF Deliver
    <3>. QED  BY <1>1, <2>1, <2>2, <2>3, <3>1 DEF YamlInv, Where
  <2>4. CASE stack # <<>>
    <3>1. /\ stack' = Added(stack, node) /\ docs' = docs
          /\ ypc' = IF AtEnd(Last(Added(stack, node)), next_event') THEN "close" ELSE "node"
      BY <2>1, <2>4 DEF Deliver, Loop, Added, WithItem
    <3>. QED  BY <1>1, <2>1, <2>2, <2>4, <3>1 DEF YamlInv, Where
  <2>. QED  BY <2>3, <2>4
<1>5. ASSUME NEW kind \in {"seq", "map"}, next_event = StartOf(kind)
      PROVE  YamlInv'
  <2>. DEFINE u == Append(stack, Frame(kind))
  <2>1. result' = "" /\ Loop(u, next_event')
    <3>1. CASE kind = "seq"
      BY <1>1, <1>3, <1>5, <3>1 DEF process_node, Continue, StartOf
    <3>2. CASE kind = "map"
      BY <1>1, <1>3, <1>5, <3>2 DEF process_node, Continue, StartOf
    <3>. QED  BY <3>1, <3>2
  <2>2. InNode(events', next_event', grammar',
               IF AtEnd(Last(u), next_event') THEN "close" ELSE "node", u, docs)
    BY <1>1, <1>5, OpenKeeps
  <2>. HIDE DEF u
  <2>3. /\ stack' = u /\ docs' = docs
        /\ ypc' = IF AtEnd(Last(u), next_event') THEN "close" ELSE "node"
    BY <2>1 DEF Loop
  <2>. QED  BY <1>1, <2>1, <2>2, <2>3 DEF YamlInv, Where
<1>6. CASE next_event = "ALIAS"
  <2>1. Give_up(TRUE)
    BY <1>1, <1>6 DEF process_node
  <2>. QED  BY <2>1, GiveUpKeeps
<1>7. CASE next_event = "SEQ_START"
  BY <1>5, <1>7 DEF StartOf
<1>8. CASE next_event = "MAP_START"
  BY <1>5, <1>8 DEF StartOf
<1>. QED  BY <1>2, <1>4, <1>6, <1>7, <1>8 DEF Nodes

(* yamltree.c: a tree is returned for a stream of one document only, and   *)
(* it is the tree that the stream describes, whatever the stream and       *)
(* however deep it is; whenever there is no tree, there is a message.      *)
THEOREM TreeCorrect == YamlSpec => []TreeOrProblem
<1>1. YamlInit => YamlInv
  BY YamlInitInv
<1>2. YamlInv /\ [YamlNext]_yamlVars => YamlInv'
  <2>. SUFFICES ASSUME YamlInv, [YamlNext]_yamlVars
                PROVE  YamlInv'
    OBVIOUS
  <2>1. CASE FirstEvent
    BY <2>1, FirstEventKeeps
  <2>2. CASE StreamLoop
    BY <2>2, StreamLoopKeeps
  <2>3. CASE DocumentStart
    BY <2>3, DocumentStartKeeps
  <2>4. CASE DocumentEnd
    BY <2>4, DocumentEndKeeps
  <2>5. CASE process_node
    BY <2>5, NodeStepKeeps
  <2>6. CASE Close
    BY <2>6, CloseStepKeeps
  <2>7. CASE LibError
    BY <2>7, GiveUpKeeps DEF LibError
  <2>8. CASE UNCHANGED yamlVars
    BY <2>8 DEF yamlVars, YamlInv
  <2>. QED  BY <2>1, <2>2, <2>3, <2>4, <2>5, <2>6, <2>7, <2>8 DEF YamlNext
<1>. QED  BY <1>1, <1>2, YamlInvImplies, PTL DEF YamlSpec
=============================================================================

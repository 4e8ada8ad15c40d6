-------------------------------- MODULE Fself --------------------------------
(***************************************************************************)
(* Two tools for SELF files, one after the other: elf_injector compresses  *)
(* the segments of an ELF file into a SELF file, and vita-unmake-fself     *)
(* takes an ELF file out of it again.                                      *)
(*                                                                         *)
(* A file is a function from places to contents.  The content of a place   *)
(* is the part of a segment it holds, compressed ("z") or plain ("p"), or  *)
(* a header; the SCE header and the ELF header with the program headers    *)
(* take one place each.  zlib is external: how long the compressed segment *)
(* is, is a free choice.  The ELF file has the program headers that the    *)
(* SELF file had, as when it was taken out of it and edited in place.      *)
(***************************************************************************)
EXTENDS Integers

CONSTANTS NSegs,      \* e_phnum of the ELF and the SELF
          MaxSeg,     \* bound: the length of a segment in either file
          MaxPlace    \* bound: the place where a segment begins

ASSUME FselfAssumption == NSegs \in Nat \ {0} /\ MaxSeg \in Nat /\ MaxPlace \in Nat

VARIABLES
  p_filesz,    \* of each segment of the ELF file
  p_offset,    \* of each segment of the ELF file
  zsize,       \* the length compress makes of it; more than p_filesz fails
  sinfo,       \* the segment table of the SELF: offset, length, compression
  correction,  \* offset_correction
  seg,         \* the segment the loop is at
  fpc,         \* "inject", "headers", "unmake", "phdrs", "done"
  self_out,    \* the file the injector writes, over the SELF
  elf_out      \* the file vita-unmake-fself writes

fselfVars == <<p_filesz, p_offset, zsize, sinfo, correction, seg, fpc,
               self_out, elf_out>>

Segs == 1 .. NSegs
Part(kind, i, k) == [kind |-> kind, seg |-> i, at |-> k]
Header == Part("header", 0, 0)
Empty == Part("empty", 0, 0)
Garbage(i) == Part("garbage", i, 0)

NoFile == [p \in {} |-> Empty]

(* fseek, and fwrite of n places.                                          *)
WriteAt(file, offset, n, data) ==
  [p \in DOMAIN file \cup (offset .. (offset + n - 1)) |->
     IF p \in offset .. (offset + n - 1) THEN data[p - offset + 1] ELSE file[p]]

(* What was not written reads as zeros.                                    *)
ReadAt(file, offset, n) ==
  [k \in 1 .. n |-> IF offset + k - 1 \in DOMAIN file
                      THEN file[offset + k - 1] ELSE Empty]

(* compress and uncompress (external): a segment, and n places of a buffer *)
(* it was compressed into, of which the last ones may be unset.            *)
Compressed(i, n) ==
  [k \in 1 .. n |-> IF k <= zsize[i] THEN Part("z", i, k) ELSE Garbage(i)]
Plain(i) == [k \in 1 .. p_filesz[i] |-> Part("p", i, k)]
Uncompresses(data, n, i) ==
  zsize[i] <= n /\ \A k \in 1 .. zsize[i] : data[k] = Part("z", i, k)

------------------------------------------------------------------------------
(* elf_injector.                                                           *)

NextSegment(pc) ==
  /\ seg' = IF seg = NSegs THEN 1 ELSE seg + 1
  /\ fpc' = IF seg = NSegs THEN pc ELSE fpc

(* Faulty: the segments behind one that has grown stay where they were.    *)
GrowAlone(i) == 0

(* How much longer the segment has become.                                 *)
Grow(i) == IF sinfo[i].length < zsize[i] THEN zsize[i] - sinfo[i].length ELSE 0

InjectSegment ==
  /\ fpc = "inject" /\ zsize[seg] <= p_filesz[seg]
  /\ LET off == sinfo[seg].offset + correction
         len == IF sinfo[seg].length < zsize[seg] THEN zsize[seg] ELSE sinfo[seg].length
     IN  /\ sinfo' = [sinfo EXCEPT ![seg] = [offset |-> off, length |-> len,
                                             compression |-> @.compression]]
         /\ self_out' = WriteAt(self_out, off, len, Compressed(seg, len))
  /\ correction' = correction + Grow(seg)
  /\ NextSegment("headers")
  /\ UNCHANGED <<p_filesz, p_offset, zsize, elf_out>>

(* The buffer has the size of the segment: one that does not shrink cannot *)
(* be compressed into it.  It is left out, only its offset is moved.       *)
SkipSegment ==
  /\ fpc = "inject" /\ zsize[seg] > p_filesz[seg]
  /\ sinfo' = [sinfo EXCEPT ![seg].offset = @ + correction]
  /\ NextSegment("headers")
  /\ UNCHANGED <<p_filesz, p_offset, zsize, correction, self_out, elf_out>>

(* The SELF's header with the new table, then its ELF and program headers. *)
WriteHeaders ==
  /\ fpc = "headers"
  /\ self_out' = WriteAt(self_out, 0, 2, [k \in 1 .. 2 |-> Header])
  /\ fpc' = "unmake"
  /\ UNCHANGED <<p_filesz, p_offset, zsize, sinfo, correction, seg, elf_out>>

------------------------------------------------------------------------------
(* vita-unmake-fself.                                                      *)

ExtractSegment ==
  /\ fpc = "unmake"
  /\ LET raw == ReadAt(self_out, sinfo[seg].offset, p_filesz[seg])
         z   == ReadAt(self_out, sinfo[seg].offset, sinfo[seg].length)
         ok  == sinfo[seg].compression = 2 /\ Uncompresses(z, sinfo[seg].length, seg)
     IN  elf_out' = WriteAt(elf_out, p_offset[seg], p_filesz[seg],
                            IF ok THEN Plain(seg) ELSE raw)
  /\ NextSegment("phdrs")
  /\ UNCHANGED <<p_filesz, p_offset, zsize, sinfo, correction, self_out>>

WritePhdrs ==
  /\ fpc = "phdrs"
  /\ elf_out' = WriteAt(elf_out, 0, 1, [k \in 1 .. 1 |-> Header])
  /\ fpc' = "done"
  /\ UNCHANGED <<p_filesz, p_offset, zsize, sinfo, correction, seg, self_out>>

------------------------------------------------------------------------------
(* In either file the segments follow the headers in order.                *)
InOrder(offset, length) ==
  \A i, j \in Segs : i < j => offset[i] + length[i] <= offset[j]

FselfInit ==
  /\ p_filesz \in [Segs -> 0 .. MaxSeg]
  /\ p_offset \in [Segs -> 1 .. MaxPlace]
  /\ InOrder(p_offset, p_filesz)
  /\ zsize \in [Segs -> 1 .. MaxSeg]
  /\ \E offset \in [Segs -> 2 .. MaxPlace], length \in [Segs -> 1 .. MaxSeg],
        compression \in [Segs -> {1, 2}] :
       /\ InOrder(offset, length)
       /\ sinfo = [i \in Segs |-> [offset |-> offset[i], length |-> length[i],
                                   compression |-> compression[i]]]
  /\ correction = 0 /\ seg = 1 /\ fpc = "inject"
  /\ self_out = NoFile /\ elf_out = NoFile

FselfNext ==
  InjectSegment \/ SkipSegment \/ WriteHeaders \/ ExtractSegment \/ WritePhdrs

FselfSpec == FselfInit /\ [][FselfNext]_fselfVars

------------------------------------------------------------------------------
(* A segment that was compressed into the SELF, and is marked as such      *)
(* there, comes out of it at its place in the ELF: whichever segments grew *)
(* or shrank or could not be compressed, no segment is written over        *)
(* another or over the headers, and the table says where each one is.      *)
InjectedComesOut ==
  fpc = "done" =>
    \A i \in Segs :
      zsize[i] <= p_filesz[i] /\ sinfo[i].compression = 2 =>
        ReadAt(elf_out, p_offset[i], p_filesz[i]) = Plain(i)
=============================================================================

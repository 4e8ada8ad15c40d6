------------------------------- MODULE FAGDec -------------------------------
(***************************************************************************)
(* FAGDec's dump: three threads that work on the modules of a list.        *)
(*                                                                         *)
(*  - dumpThread (app/dump.c) asks the kernel plugin to decrypt a module,  *)
(*    polls the plugin's status, wakes decompressThread, writes the ELF    *)
(*    header and gives the result its name.                                *)
(*  - decrypt_thread (kplugin/kentente.c), one per request, decrypts the   *)
(*    segments one by one into files <elf>.temp.seg<i>.                    *)
(*  - decompressThread (app/dump.c) uncompresses the segment files it      *)
(*    finds into the ELF, and into the SELF if one is wanted.              *)
(*                                                                         *)
(* The plugin and dumpThread share one status word, which the plugin       *)
(* overwrites with each message and kuEntenteGetLogs resets; dumpThread    *)
(* and decompressThread share an event flag, a header buffer and the name  *)
(* of the file in work.  Nothing is locked.                                *)
(*                                                                         *)
(* The list is the modules 1 .. NModules of one title that is mounted; the *)
(* header of a module can be read.                                         *)
(***************************************************************************)
EXTENDS Integers

CONSTANTS NModules,   \* modules in the list
          NSegs,      \* segments of a module
          Encrypted,  \* the segments with encryption = 1, by module
          Faults      \* allocations, reads and writes may fail

ASSUME FAGDecAssumption ==
  /\ NModules \in Nat \ {0}
  /\ NSegs \in Nat
  /\ Encrypted \in [1 .. NModules -> SUBSET (1 .. NSegs)]
  /\ Faults \in BOOLEAN

Modules == 1 .. NModules
Status == {"NONE", "UPDATE", "DONE", "DONESEG"}
Flags == {"NEW", "DONE", "SEGOK"}

VARIABLES
  status,   \* the plugin's status word
  param,    \* the plugin's static request, 0 before the first
  kpc,      \* where the decrypt_thread of each request is
  kseg,     \* the segment it is at
  kbuf,     \* the path buffers it took from param
  bufs,     \* the path buffers that are allocated, by request
  closed,   \* the segments whose file the plugin has written and closed, by module
  seg,      \* the .seg files that exist, by module
  flag,     \* decompress_flag
  dpc,      \* where dumpThread is
  cur,      \* the module dumpThread is at
  self,     \* the module whose header current_self holds, 0 if it is freed
  name,     \* the module whose temporary ELF current_elf names, 0 if other
  zpc,      \* where decompressThread is
  zseg,     \* the segment it is at
  zmod,     \* the module whose segment file its current_path names
  elf,      \* where the segments in the temporary ELF of each module come from
  selfout,  \* where the segments in the SELF of each module come from
  lost,     \* the segments whose writing to the SELF failed, by module
  dump_type,\* "ELF" or "SELF", chosen by the user before the dump
  out       \* what became of each module

(* What a file holds: for each segment the module it came from, or 0.      *)
Content == [1 .. NSegs -> 0 .. NModules]
Nothing == [s \in 1 .. NSegs |-> 0]
Original(m) == [s \in 1 .. NSegs |-> IF s \in Encrypted[m] THEN m ELSE 0]

kernelVars == <<param, kpc, kseg, kbuf, bufs, closed>>
dumpVars == <<dpc, cur, self, name, dump_type, out>>
zVars == <<zpc, zseg, zmod, lost>>
vars == <<status, param, kpc, kseg, kbuf, bufs, closed, seg, flag, dpc, cur,
          self, name, zpc, zseg, zmod, elf, selfout, lost, dump_type, out>>

------------------------------------------------------------------------------
(* The plugin: kuEntenteDecryptSelf's thread for request m.                *)

_log(stat) == status' = stat

KGoto(m, where) == kpc' = [kpc EXCEPT ![m] = where]

KernelOnly == UNCHANGED <<flag, dumpVars, zVars, elf, selfout>>

(* The thread takes the buffers of the request.                            *)
decrypt_thread(m) ==
  /\ kpc[m] = "start"
  /\ kbuf' = [kbuf EXCEPT ![m] = param]
  /\ _log("UPDATE")
  /\ KGoto(m, "licence")
  /\ KernelOnly /\ UNCHANGED <<param, kseg, bufs, closed, seg>>

(* A module with a licence file gets a second message.                     *)
getlicensee_rif(m) ==
  /\ kpc[m] = "licence"
  /\ _log("UPDATE") \/ UNCHANGED status
  /\ KGoto(m, "setup")
  /\ KernelOnly /\ UNCHANGED <<param, kseg, kbuf, bufs, closed, seg>>

(* Contexts and buffers are set up and the header authorised.  The first   *)
(* failure returns without a message.                                      *)
decrypt_self(m) ==
  /\ kpc[m] = "setup"
  /\ \/ KGoto(m, "seg") /\ kseg' = [kseg EXCEPT ![m] = 1]
     \/ Faults /\ KGoto(m, "fail") /\ UNCHANGED kseg
     \/ Faults /\ KGoto(m, "free") /\ UNCHANGED kseg
  /\ KernelOnly /\ UNCHANGED <<status, param, kbuf, bufs, closed, seg>>

(* Each round starts with a message; only encrypted segments get a file.   *)
SegHead(m) ==
  /\ kpc[m] = "seg"
  /\ \/ /\ kseg[m] > NSegs
        /\ KGoto(m, "fail")
        /\ UNCHANGED <<status, kseg>>
     \/ /\ kseg[m] \in Encrypted[m]
        /\ _log("UPDATE")
        /\ KGoto(m, "open")
        /\ UNCHANGED kseg
     \/ /\ kseg[m] \in (1 .. NSegs) \ Encrypted[m]
        /\ _log("UPDATE")
        /\ kseg' = [kseg EXCEPT ![m] = @ + 1]
        /\ UNCHANGED kpc
  /\ KernelOnly /\ UNCHANGED <<param, kbuf, bufs, closed, seg>>

(* Faulty: the segment is written under its final name.                    *)
SegOpenFinal(m) ==
  /\ kpc[m] = "open"
  /\ KGoto(m, "fill")
  /\ seg' = [seg EXCEPT ![m] = @ \cup {kseg[m]}]
  /\ KernelOnly /\ UNCHANGED <<status, param, kseg, kbuf, bufs, closed>>

(* <elf>.temp<i> is created; whatever fails from here on leaves the loop.  *)
SegOpen(m) ==
  /\ kpc[m] = "open"
  /\ KGoto(m, "fill") \/ (Faults /\ KGoto(m, "fail"))
  /\ KernelOnly /\ UNCHANGED <<status, param, kseg, kbuf, bufs, closed, seg>>

(* The segment is decrypted into the file.  No failure leaves the loop: a  *)
(* block that cannot be decrypted is only reported, and the code of a      *)
(* failed write, added to the unsigned offset, ends the writing.           *)
SegFill(m) ==
  /\ kpc[m] = "fill"
  /\ closed' = [closed EXCEPT ![m] = @ \cup {kseg[m]}]
  /\ UNCHANGED status \/ (Faults /\ _log("UPDATE"))
  /\ KGoto(m, "rename")
  /\ KernelOnly /\ UNCHANGED <<param, kseg, kbuf, bufs, seg>>

SegRename(m) ==
  /\ kpc[m] = "rename"
  /\ seg' = [seg EXCEPT ![m] = @ \cup {kseg[m]}]
  /\ KGoto(m, "logseg")
  /\ KernelOnly /\ UNCHANGED <<status, param, kseg, kbuf, bufs, closed>>

SegDone(m) ==
  /\ kpc[m] = "logseg"
  /\ _log("DONESEG")
  /\ kseg' = [kseg EXCEPT ![m] = @ + 1]
  /\ KGoto(m, "seg")
  /\ KernelOnly /\ UNCHANGED <<param, kbuf, bufs, closed, seg>>

(* The label fail, which the good path reaches too: the message goes out   *)
(* before anything is released.                                            *)
Fail(m) ==
  /\ kpc[m] = "fail"
  /\ _log("DONE")
  /\ KGoto(m, "free")
  /\ KernelOnly /\ UNCHANGED <<param, kseg, kbuf, bufs, closed, seg>>

(* Faulty: the buffers are taken from param at the end.                    *)
FreeParam(m) ==
  /\ kpc[m] = "free"
  /\ bufs' = bufs \ {param}
  /\ KGoto(m, "ended")
  /\ KernelOnly /\ UNCHANGED <<status, param, kseg, kbuf, closed, seg>>

Free(m) ==
  /\ kpc[m] = "free"
  /\ bufs' = bufs \ {kbuf[m]}
  /\ KGoto(m, "ended")
  /\ KernelOnly /\ UNCHANGED <<status, param, kseg, kbuf, closed, seg>>

------------------------------------------------------------------------------
(* dumpThread.                                                             *)

DumpOnly == UNCHANGED <<kernelVars, seg, zVars, dump_type>>

Stay == UNCHANGED <<cur, self, name, out, elf, selfout>>

kuEntenteGetLogs == status' = "NONE"

DGoto(from, to) == dpc = from /\ dpc' = to

(* The next entry of the list: current_elf names the output for a moment.  *)
NextEntry ==
  /\ dpc = "next"
  /\ \/ /\ cur < NModules
        /\ cur' = cur + 1
        /\ name' = 0
        /\ dpc' = "named"
        /\ UNCHANGED <<flag, self, out>>
     \/ /\ cur = NModules
        /\ flag' = flag \cup {"DONE"}
        /\ dpc' = "lastok"
        /\ UNCHANGED <<cur, self, name, out>>
  /\ DumpOnly /\ UNCHANGED <<status, elf, selfout>>

(* Its header is read and current_elf set to the temporary ELF.  A module  *)
(* that needs no decryption is passed over.                                *)
ReadHeader ==
  /\ dpc = "named"
  /\ name' = cur
  /\ \/ dpc' = "request" /\ self' = cur /\ UNCHANGED out
     \/ dpc' = "next" /\ self' = 0 /\ out' = [out EXCEPT ![cur] = "skipped"]
  /\ DumpOnly /\ UNCHANGED <<status, flag, cur, elf, selfout>>

(* kuEntenteDecryptSelf copies the paths and starts a thread.              *)
kuEntenteDecryptSelf ==
  /\ DGoto("request", "spin")
  /\ param' = cur
  /\ bufs' = bufs \cup {cur}
  /\ KGoto(cur, "start")
  /\ Stay /\ UNCHANGED <<status, kseg, kbuf, closed, seg, flag, zVars, dump_type>>

WaitUpdate ==
  /\ DGoto("spin", "poll")
  /\ status = "UPDATE"
  /\ DumpOnly /\ Stay /\ UNCHANGED <<status, flag>>

(* One round of the polling loop reads the status up to three times.       *)
PollSeg ==
  /\ dpc = "poll"
  /\ \/ status = "DONESEG" /\ dpc' = "seglog" /\ flag' = flag \cup {"NEW"}
     \/ status # "DONESEG" /\ dpc' = "poll2" /\ UNCHANGED flag
  /\ DumpOnly /\ Stay /\ UNCHANGED status

SegLog ==
  /\ DGoto("seglog", "poll2")
  /\ kuEntenteGetLogs
  /\ DumpOnly /\ Stay /\ UNCHANGED flag

PollUpdate ==
  /\ dpc = "poll2"
  /\ dpc' = IF status = "UPDATE" THEN "updatelog" ELSE "poll3"
  /\ DumpOnly /\ Stay /\ UNCHANGED <<status, flag>>

UpdateLog ==
  /\ DGoto("updatelog", "poll")
  /\ kuEntenteGetLogs
  /\ DumpOnly /\ Stay /\ UNCHANGED flag

(* Faulty: anything but a progress message ends the loop.                  *)
PollDoneEager ==
  /\ dpc = "poll3"
  /\ dpc' = IF status \in {"DONE", "NONE"} THEN "donelog" ELSE "poll"
  /\ DumpOnly /\ Stay /\ UNCHANGED <<status, flag>>

PollDone ==
  /\ dpc = "poll3"
  /\ dpc' = IF status = "DONE" THEN "donelog" ELSE "poll"
  /\ DumpOnly /\ Stay /\ UNCHANGED <<status, flag>>

DoneLog ==
  /\ DGoto("donelog", "ok1")
  /\ kuEntenteGetLogs
  /\ DumpOnly /\ Stay /\ UNCHANGED flag

(* SEGOK is waited for, NEW is set for a last round, SEGOK is waited for.  *)
WaitSegOk ==
  /\ "SEGOK" \in flag
  /\ \/ DGoto("ok1", "again")
     \/ DGoto("ok2", "header")
     \/ DGoto("lastok", "join")
  /\ DumpOnly /\ Stay /\ UNCHANGED <<status, flag>>

SetNew ==
  /\ DGoto("again", "ok2")
  /\ flag' = flag \cup {"NEW"}
  /\ DumpOnly /\ Stay /\ UNCHANGED status

(* The headers are written, and the module is given up if that fails.      *)
WriteHeaders ==
  /\ dpc = "header"
  /\ \/ dpc' = "finish" /\ UNCHANGED <<self, out>>
     \/ /\ Faults
        /\ dpc' = "next"
        /\ self' = 0
        /\ out' = [out EXCEPT ![cur] = "failed"]
  /\ DumpOnly /\ UNCHANGED <<status, flag, cur, name, elf, selfout>>

(* DUMP_ELF: the temporary ELF gets its name, and current_elf's buffer is  *)
(* used for the name of the digest.                                        *)
FinishElf ==
  /\ dpc = "finish"
  /\ dump_type = "ELF"
  /\ dpc' = "next"
  /\ self' = 0
  /\ \/ /\ name' = 0
        /\ elf' = [elf EXCEPT ![cur] = Nothing]
        /\ out' = [out EXCEPT ![cur] = IF elf[cur] = Original(cur) THEN "whole" ELSE "partial"]
     \/ Faults /\ out' = [out EXCEPT ![cur] = "failed"] /\ UNCHANGED <<name, elf>>
  /\ DumpOnly /\ UNCHANGED <<status, flag, cur, selfout>>

(* DUMP_SELF: the temporary ELF is compared with the digest of the         *)
(* original, and removed if it is the same.                                *)
FinishSelf ==
  /\ dpc = "finish"
  /\ dump_type = "SELF"
  /\ dpc' = "next"
  /\ self' = 0
  /\ IF elf[cur] = Original(cur)
     THEN /\ elf' = [elf EXCEPT ![cur] = Nothing]
          /\ out' = [out EXCEPT ![cur] = "verified"]
     ELSE /\ out' = [out EXCEPT ![cur] = "corrupted"]
          /\ UNCHANGED elf
  /\ DumpOnly /\ UNCHANGED <<status, flag, cur, name, selfout>>

Join ==
  /\ DGoto("join", "done")
  /\ zpc = "ended"
  /\ DumpOnly /\ Stay /\ UNCHANGED <<status, flag>>

------------------------------------------------------------------------------
(* decompressThread.                                                       *)

ZOnly == UNCHANGED <<status, kernelVars, dumpVars>>

ZGoto(from, to) == zpc = from /\ zpc' = to

(* The wait takes NEW or DONE and clears every bit.                        *)
WaitNew ==
  /\ zpc = "wait"
  /\ flag \cap {"NEW", "DONE"} # {}
  /\ zpc' = IF "DONE" \in flag THEN "exit" ELSE "clear"
  /\ flag' = {}
  /\ ZOnly /\ UNCHANGED <<zseg, zmod, seg, elf, selfout, lost>>

(* The mask is DECOMPRESS_SEGOK itself: SEGOK is what stays.               *)
ClearSegOk ==
  /\ ZGoto("clear", "scan")
  /\ flag' = flag \cap {"SEGOK"}
  /\ zseg' = 1
  /\ ZOnly /\ UNCHANGED <<zmod, seg, elf, selfout, lost>>

(* The next segment with a file, according to current_self and             *)
(* current_elf.  A header that was freed may say anything.                 *)
Scan ==
  /\ zpc = "scan"
  /\ \/ /\ zseg <= NSegs
        /\ IF name # 0 /\ zseg \in seg[name]
           THEN zpc' = "write" /\ zmod' = name /\ UNCHANGED zseg
           ELSE zseg' = zseg + 1 /\ UNCHANGED <<zpc, zmod>>
     \/ /\ zseg > NSegs \/ self = 0
        /\ zpc' = "segok"
        /\ UNCHANGED <<zseg, zmod>>
  /\ ZOnly /\ UNCHANGED <<flag, seg, elf, selfout, lost>>

(* Faulty: the segment is not written to the SELF.                         *)
WriteSelfNot ==
  /\ ZGoto("write", "writeelf")
  /\ ZOnly /\ UNCHANGED <<flag, zseg, zmod, seg, elf, selfout, lost>>

(* The segment is read and uncompressed and, for a SELF, compressed and    *)
(* written to current_file, the SELF of the entry dumpThread is at.  A     *)
(* failed write is only reported; any other failure ends the round and     *)
(* leaves the segment's file.  An empty segment is one that is written     *)
(* with no more than padding.                                              *)
WriteSelf ==
  /\ zpc = "write"
  /\ \/ /\ zpc' = "writeelf"
        /\ \/ dump_type = "ELF" /\ UNCHANGED <<selfout, lost>>
           \/ /\ dump_type = "SELF"
              /\ selfout' = [selfout EXCEPT ![cur][zseg] = zmod]
              /\ UNCHANGED lost
           \/ /\ dump_type = "SELF" /\ Faults
              /\ lost' = [lost EXCEPT ![cur] = @ \cup {zseg}]
              /\ UNCHANGED selfout
     \/ Faults /\ zpc' = "segok" /\ UNCHANGED <<selfout, lost>>
  /\ ZOnly /\ UNCHANGED <<flag, zseg, zmod, seg, elf>>

(* Then it is written to current_elf.                                      *)
WriteElf ==
  /\ ZGoto("writeelf", "remove")
  /\ \/ elf' = [m \in Modules |-> IF m = name THEN [elf[m] EXCEPT ![zseg] = zmod] ELSE elf[m]]
     \/ Faults /\ UNCHANGED elf
  /\ ZOnly /\ UNCHANGED <<flag, zseg, zmod, seg, selfout, lost>>

RemoveSegment ==
  /\ ZGoto("remove", "scan")
  /\ seg' = [seg EXCEPT ![zmod] = @ \ {zseg}]
  /\ zseg' = zseg + 1
  /\ ZOnly /\ UNCHANGED <<flag, zmod, elf, selfout, lost>>

SetSegOk ==
  /\ ZGoto("segok", "wait") \/ ZGoto("exit", "ended")
  /\ flag' = flag \cup {"SEGOK"}
  /\ ZOnly /\ UNCHANGED <<zseg, zmod, seg, elf, selfout, lost>>

------------------------------------------------------------------------------
(* dumpThread has just created the flag and decompressThread; the status   *)
(* is the plugin's first, or what an earlier dump left.                    *)
Init ==
  /\ status \in {"DONE", "NONE"}
  /\ param = 0
  /\ kpc = [m \in Modules |-> "none"]
  /\ kseg = [m \in Modules |-> 0]
  /\ kbuf = [m \in Modules |-> 0]
  /\ bufs = {}
  /\ closed = [m \in Modules |-> {}]
  /\ seg = [m \in Modules |-> {}]
  /\ flag = {}
  /\ dpc = "next"
  /\ cur = 0
  /\ self = 0
  /\ name = 0
  /\ zpc = "wait"
  /\ zseg = 0
  /\ zmod = 0
  /\ elf = [m \in Modules |-> Nothing]
  /\ selfout = [m \in Modules |-> Nothing]
  /\ lost = [m \in Modules |-> {}]
  /\ dump_type \in {"ELF", "SELF"}
  /\ out = [m \in Modules |-> "none"]

Plugin(m) ==
  \/ decrypt_thread(m) \/ getlicensee_rif(m) \/ decrypt_self(m)
  \/ SegHead(m) \/ SegOpen(m) \/ SegFill(m) \/ SegRename(m) \/ SegDone(m)
  \/ Fail(m) \/ Free(m)

dumpThread ==
  \/ NextEntry \/ ReadHeader \/ kuEntenteDecryptSelf
  \/ WaitUpdate \/ PollSeg \/ SegLog \/ PollUpdate \/ UpdateLog \/ PollDone \/ DoneLog
  \/ WaitSegOk \/ SetNew
  \/ WriteHeaders \/ FinishElf \/ FinishSelf
  \/ Join

decompressThread ==
  WaitNew \/ ClearSegOk \/ Scan \/ WriteSelf \/ WriteElf \/ RemoveSegment \/ SetSegOk

Next == dumpThread \/ decompressThread \/ \E m \in Modules : Plugin(m)

Spec == Init /\ [][Next]_vars

(* The kernel runs every thread.                                           *)
Fairness ==
  /\ WF_vars(dumpThread)
  /\ WF_vars(decompressThread)
  /\ \A m \in Modules : WF_vars(Plugin(m))

FairSpec == Spec /\ Fairness

------------------------------------------------------------------------------
(* Properties.                                                             *)

(* Every variable has its type.                                            *)
TypeOK ==
  /\ status \in Status
  /\ param \in 0 .. NModules
  /\ kpc \in [Modules -> {"none", "start", "licence", "setup", "seg", "open", "fill", "rename",
                          "logseg", "fail", "free", "ended"}]
  /\ kseg \in [Modules -> 0 .. NSegs + 1]
  /\ kbuf \in [Modules -> 0 .. NModules]
  /\ bufs \subseteq Modules
  /\ seg \in [Modules -> SUBSET (1 .. NSegs)]
  /\ flag \subseteq Flags
  /\ cur \in 0 .. NModules /\ self \in 0 .. NModules /\ name \in 0 .. NModules
  /\ zpc \in {"wait", "clear", "scan", "write", "writeelf", "remove", "segok", "exit", "ended"}
  /\ zseg \in 0 .. NSegs + 1
  /\ zmod \in 0 .. NModules
  /\ elf \in [Modules -> Content]
  /\ selfout \in [Modules -> Content]

(* decompressThread, which may look for segment files at any moment, never *)
(* finds one that the plugin is still writing: a file is closed before it  *)
(* gets the name of a .seg file.                                           *)
SegFilesClosed ==
  \A m \in Modules : seg[m] \subseteq closed[m]

(* One request at a time, through a status word that loses messages: the   *)
(* request in the plugin's static param is never replaced while a thread   *)
(* still reads it or decrypts for it.                                      *)
OneRequestAtATime ==
  \A m \in Modules :
    kpc[m] \in {"start", "licence", "setup", "seg", "open", "fill", "rename", "logseg", "fail"}
      => param = m

(* The path buffers of a request live exactly until its thread ends, even  *)
(* when the next request is already there while the thread cleans up.      *)
PathBuffersBalanced ==
  bufs = {m \in Modules : kpc[m] \notin {"none", "ended"}}

(* A SELF that was reported as verified holds the module's own segments,   *)
(* all but those whose writing to the SELF failed: although it is the      *)
(* temporary ELF that is verified, and decompressThread may still be at    *)
(* work then, no segment is missing or taken from another module.          *)
VerifiedSelfIsWhole ==
  \A m \in Modules : out[m] = "verified" =>
    \A s \in Encrypted[m] \ lost[m] : selfout[m][s] = m

(* The dump of the list comes to its end.                                  *)
DumpFinishes == <>(dpc = "done")
=============================================================================

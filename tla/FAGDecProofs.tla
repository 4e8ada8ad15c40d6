---------------------------- MODULE FAGDecProofs ----------------------------
(***************************************************************************)
(* Proofs about FAGDec, for a list of any length, modules with any number  *)
(* of segments, and every failure the model has.                           *)
(*                                                                         *)
(* What protects the plugin's static param is the status word: dumpThread  *)
(* issues no request until it has read DONE, which the thread of the       *)
(* request writes last.  The inductive invariant says so: a thread that    *)
(* still works belongs to the entry dumpThread is at, dumpThread is in its *)
(* waiting loops, and once it is past the first of them DONE cannot be     *)
(* read while the thread works.                                            *)
(***************************************************************************)
EXTENDS FAGDec, TLAPS

Working == {"start", "licence", "setup", "seg", "open", "fill", "rename", "logseg", "fail"}
Polling == {"poll", "seglog", "poll2", "updatelog", "poll3"}

Types ==
  /\ kpc \in [Modules -> Working \cup {"none", "free", "ended"}]
  /\ kbuf \in [Modules -> 0 .. NModules]
  /\ cur \in 0 .. NModules
  /\ dpc \in {"next", "named", "request", "spin", "donelog", "ok1", "again", "ok2", "header",
              "finish", "lastok", "join", "done"} \cup Polling

RequestInv ==
  /\ \A m \in Modules :
       kpc[m] \in Working => m = cur /\ param = m /\ dpc \in {"spin"} \cup Polling
  /\ dpc \in Polling /\ status = "DONE" => kpc[cur] \notin Working
  /\ dpc \in {"spin"} \cup Polling => cur # 0

EntryInv ==
  /\ \A m \in Modules : m > cur => kpc[m] = "none"
  /\ dpc \in {"named", "request"} => cur # 0 /\ kpc[cur] = "none"

BufferInv ==
  /\ bufs = {m \in Modules : kpc[m] \notin {"none", "ended"}}
  /\ \A m \in Modules : kpc[m] \in (Working \ {"start"}) \cup {"free"} => kbuf[m] = m

IInv == Types /\ RequestInv /\ EntryInv /\ BufferInv

------------------------------------------------------------------------------
(* A step of decompressThread touches nothing IInv speaks about.         *)
LEMMA DecompressKeeps ==
  ASSUME IInv, decompressThread PROVE IInv'
<1>1. UNCHANGED <<status, kernelVars, dumpVars>>
  BY DEF decompressThread, WaitNew, ClearSegOk, Scan, WriteSelf, WriteElf, RemoveSegment,
         SetSegOk, ZOnly
<1>2. QED
  BY <1>1 DEF IInv, Types, RequestInv, EntryInv, BufferInv, kernelVars, dumpVars

------------------------------------------------------------------------------
(* A step of a thread of the plugin: its program counter moves, param,     *)
(* dumpThread and the threads of other requests stay as they are.          *)
LEMMA PluginKeeps ==
  ASSUME NEW m \in Modules, IInv, Plugin(m) PROVE IInv'
<1>0. Types /\ RequestInv /\ EntryInv /\ BufferInv
  BY DEF IInv
<1>1. UNCHANGED <<param, cur, dpc>>
  BY DEF Plugin, decrypt_thread, getlicensee_rif, decrypt_self, SegHead, SegOpen, SegFill, SegRename,
         SegDone, Fail, Free, KernelOnly, dumpVars
<1>2. CASE decrypt_thread(m)
  <2>1. /\ kpc[m] = "start" /\ kpc' = [kpc EXCEPT ![m] = "licence"]
        /\ kbuf' = [kbuf EXCEPT ![m] = param]
        /\ status' = "UPDATE" /\ UNCHANGED bufs
    BY <1>2 DEF decrypt_thread, KGoto, _log
  <2>2. param = m
    BY <1>0, <2>1 DEF RequestInv, Working
  <2>3. QED
    BY <1>0, <1>1, <2>1, <2>2, FAGDecAssumption
    DEF IInv, Types, RequestInv, EntryInv, BufferInv, Working, Polling, Modules
<1>3. ASSUME kpc[m] \in Working, UNCHANGED <<kbuf, bufs>>,
             \E w \in Working \cup {"free"} : kpc' = [kpc EXCEPT ![m] = w],
             kpc[m] # "start" /\ kpc'[m] # "start",
             status' = "DONE" => status = "DONE" \/ kpc'[m] = "free"
      PROVE  IInv'
  <2>1. PICK w \in Working \cup {"free"} : kpc' = [kpc EXCEPT ![m] = w]
    BY <1>3
  <2>2. m = cur /\ param = m /\ dpc \in {"spin"} \cup Polling
    BY <1>0, <1>3 DEF RequestInv
  <2>3. Types'
    BY <1>0, <1>1, <1>3, <2>1 DEF Types, Working, Polling
  <2>4. kpc'[m] = w /\ \A x \in Modules : x # m => kpc'[x] = kpc[x]
    BY <1>0, <2>1 DEF Types
  <2>5. RequestInv'
    BY <1>0, <1>1, <1>3, <2>2, <2>4 DEF RequestInv, Working, Polling
  <2>6. EntryInv'
    BY <1>0, <1>1, <2>2, <2>4 DEF EntryInv, Modules, Types, Polling
  <2>7. BufferInv'
    BY <1>0, <1>3, <2>4 DEF BufferInv, Working
  <2>8. QED
    BY <2>3, <2>5, <2>6, <2>7 DEF IInv
<1>4. CASE decrypt_self(m)
  BY <1>0, <1>3, <1>4 DEF decrypt_self, KGoto, Working, Types
<1>5. CASE SegHead(m)
  <2>1. /\ kpc[m] = "seg" /\ UNCHANGED <<kbuf, bufs>>
        /\ kpc' = kpc \/ kpc' = [kpc EXCEPT ![m] = "open"] \/ kpc' = [kpc EXCEPT ![m] = "fail"]
        /\ status' = status \/ status' = "UPDATE"
    BY <1>5 DEF SegHead, KGoto, _log
  <2>2. kpc = [kpc EXCEPT ![m] = "seg"]
    BY <1>0, <2>1 DEF Types
  <2>3. QED
    BY <1>0, <1>3, <2>1, <2>2 DEF Working, Types
<1>6. CASE SegOpen(m)
  BY <1>0, <1>3, <1>6 DEF SegOpen, KGoto, Working, Types
<1>7. CASE SegFill(m)
  BY <1>0, <1>3, <1>7 DEF SegFill, KGoto, Working, Types, _log
<1>8. CASE SegRename(m)
  BY <1>0, <1>3, <1>8 DEF SegRename, KGoto, Working, Types
<1>9. CASE SegDone(m)
  BY <1>0, <1>3, <1>9 DEF SegDone, KGoto, Working, Types, _log
<1>10. CASE Fail(m)
  BY <1>0, <1>3, <1>10 DEF Fail, KGoto, Working, Types, _log
<1>11. CASE Free(m)
  <2>1. /\ kpc[m] = "free" /\ kpc' = [kpc EXCEPT ![m] = "ended"]
        /\ bufs' = bufs \ {kbuf[m]}
        /\ UNCHANGED <<kbuf, status>>
    BY <1>11 DEF Free, KGoto
  <2>2. kbuf[m] = m
    BY <1>0, <2>1 DEF BufferInv
  <2>3. kpc'[m] = "ended" /\ \A x \in Modules : x # m => kpc'[x] = kpc[x]
    BY <1>0, <2>1 DEF Types
  <2>4. Types'
    BY <1>0, <1>1, <2>1 DEF Types, Working, Polling
  <2>5. RequestInv'
    BY <1>0, <1>1, <2>1, <2>3 DEF RequestInv, Working, Types, Modules, Polling
  <2>6. EntryInv'
    BY <1>0, <1>1, <2>1, <2>3 DEF EntryInv
  <2>7. BufferInv'
    BY <1>0, <2>1, <2>2, <2>3 DEF BufferInv, Working
  <2>8. QED
    BY <2>4, <2>5, <2>6, <2>7 DEF IInv
<1>12. CASE getlicensee_rif(m)
  BY <1>0, <1>3, <1>12 DEF getlicensee_rif, KGoto, Working, Types, _log
<1>13. QED
  BY <1>2, <1>4, <1>5, <1>6, <1>7, <1>8, <1>9, <1>10, <1>11, <1>12 DEF Plugin

------------------------------------------------------------------------------
(* A step of dumpThread other than a request leaves the plugin alone.      *)
LEMMA DumpKeeps ==
  ASSUME IInv, dumpThread PROVE IInv'
<1>0. Types /\ RequestInv /\ EntryInv /\ BufferInv
  BY DEF IInv
<1>1. CASE NextEntry
  <2>1. dpc = "next" /\ dpc' \in {"named", "lastok"} /\ UNCHANGED <<kpc, kbuf, bufs, param>>
    BY <1>1 DEF NextEntry, DumpOnly, kernelVars
  <2>2. \A m \in Modules : kpc[m] \notin Working
    BY <1>0, <2>1 DEF RequestInv, Polling
  <2>3. CASE cur' = cur + 1 /\ cur < NModules
    <3>1. cur + 1 \in Modules /\ kpc[cur + 1] = "none"
      BY <1>0, <2>3, FAGDecAssumption DEF Types, EntryInv, Modules
    <3>2. Types'
      BY <1>0, <2>1, <2>3, <3>1 DEF Types, Polling, Modules
    <3>3. RequestInv'
      BY <2>1, <2>2 DEF RequestInv, Polling
    <3>4. EntryInv'
      BY <1>0, <2>1, <2>3, <3>1, FAGDecAssumption DEF EntryInv, Types, Modules
    <3>5. QED
      BY <1>0, <2>1, <3>2, <3>3, <3>4 DEF IInv, BufferInv
  <2>4. CASE cur' = cur /\ dpc' = "lastok"
    BY <1>0, <2>1, <2>2, <2>4 DEF IInv, Types, RequestInv, EntryInv, BufferInv, Polling
  <2>5. QED
    BY <1>1, <2>3, <2>4 DEF NextEntry, Stay
<1>2. CASE kuEntenteDecryptSelf
  <2>1. /\ dpc = "request" /\ dpc' = "spin" /\ param' = cur
        /\ bufs' = bufs \cup {cur} /\ kpc' = [kpc EXCEPT ![cur] = "start"]
        /\ UNCHANGED <<cur, status, kbuf>>
    BY <1>2 DEF kuEntenteDecryptSelf, DGoto, KGoto, Stay
  <2>2. cur \in Modules /\ kpc[cur] = "none" /\ \A m \in Modules : kpc[m] \notin Working
    BY <1>0, <2>1, FAGDecAssumption DEF EntryInv, RequestInv, Types, Modules, Polling
  <2>3. kpc'[cur] = "start" /\ \A x \in Modules : x # cur => kpc'[x] = kpc[x]
    BY <1>0, <2>1, <2>2 DEF Types
  <2>4. Types'
    BY <1>0, <2>1, <2>2 DEF Types, Working, Polling
  <2>5. RequestInv'
    BY <2>1, <2>2, <2>3, FAGDecAssumption DEF RequestInv, Polling, Modules
  <2>6. EntryInv'
    BY <1>0, <2>1, <2>2, <2>3, FAGDecAssumption DEF EntryInv, Modules
  <2>7. BufferInv'
    BY <1>0, <2>1, <2>2, <2>3 DEF BufferInv, Working
  <2>8. QED
    BY <2>4, <2>5, <2>6, <2>7 DEF IInv
<1>3. ASSUME UNCHANGED <<kernelVars, cur>>,
             dpc \in {"spin"} \cup Polling,
             dpc = "spin" => status = "UPDATE" /\ dpc' \in Polling,
             dpc \in Polling => dpc' \in Polling \/ (dpc' = "donelog" /\ status = "DONE"),
             status' \in {status, "NONE"}
      PROVE  IInv'
  <2>1. UNCHANGED <<kpc, kbuf, bufs, param, cur>>
    BY <1>3 DEF kernelVars
  <2>2. Types'
    BY <1>0, <1>3, <2>1 DEF Types, Polling
  <2>3. cur # 0 /\ cur \in Modules
    BY <1>0, <1>3, FAGDecAssumption DEF RequestInv, Types, Modules
  <2>4. RequestInv'
    BY <1>0, <1>3, <2>1, <2>3 DEF RequestInv, Polling
  <2>5. QED
    BY <1>0, <1>3, <2>1, <2>2, <2>4 DEF IInv, EntryInv, BufferInv, Polling
<1>4. CASE WaitUpdate
  BY <1>3, <1>4 DEF WaitUpdate, DGoto, DumpOnly, Stay, Polling
<1>5. CASE PollSeg
  BY <1>3, <1>5 DEF PollSeg, DumpOnly, Stay, Polling
<1>6. CASE SegLog
  BY <1>3, <1>6 DEF SegLog, DGoto, kuEntenteGetLogs, DumpOnly, Stay, Polling
<1>7. CASE PollUpdate
  BY <1>3, <1>7 DEF PollUpdate, DumpOnly, Stay, Polling
<1>8. CASE UpdateLog
  BY <1>3, <1>8 DEF UpdateLog, DGoto, kuEntenteGetLogs, DumpOnly, Stay, Polling
<1>9. CASE PollDone
  BY <1>3, <1>9 DEF PollDone, DumpOnly, Stay, Polling
<1>10. ASSUME UNCHANGED <<kernelVars, cur>>,
              dpc \notin {"spin"} \cup Polling,
              dpc' \in {"next", "ok1", "again", "ok2", "header", "finish", "join", "done"}
       PROVE  IInv'
  <2>1. UNCHANGED <<kpc, kbuf, bufs, param, cur>>
    BY <1>10 DEF kernelVars
  <2>2. Types'
    BY <1>0, <1>10, <2>1 DEF Types, Polling
  <2>3. \A m \in Modules : kpc[m] \notin Working
    BY <1>0, <1>10 DEF RequestInv
  <2>4. RequestInv'
    BY <1>10, <2>1, <2>3 DEF RequestInv, Polling
  <2>5. QED
    BY <1>0, <1>10, <2>1, <2>2, <2>4 DEF IInv, EntryInv, BufferInv, Polling
<1>11. CASE DoneLog
  BY <1>10, <1>11 DEF DoneLog, DGoto, DumpOnly, Stay, Polling
<1>12. CASE WaitSegOk
  BY <1>10, <1>12 DEF WaitSegOk, DGoto, DumpOnly, Stay, Polling
<1>13. CASE SetNew
  BY <1>10, <1>13 DEF SetNew, DGoto, DumpOnly, Stay, Polling
<1>14. CASE WriteHeaders
  BY <1>10, <1>14 DEF WriteHeaders, DumpOnly, Polling
<1>15. CASE FinishElf
  BY <1>10, <1>15 DEF FinishElf, DumpOnly, Polling
<1>16. CASE FinishSelf
  BY <1>10, <1>16 DEF FinishSelf, DumpOnly, Polling
<1>17. CASE Join
  BY <1>10, <1>17 DEF Join, DGoto, DumpOnly, Stay, Polling
<1>18. CASE ReadHeader
  <2>1. /\ dpc = "named" /\ dpc' \in {"next", "request"}
        /\ UNCHANGED <<kpc, kbuf, bufs, param, cur>>
    BY <1>18 DEF ReadHeader, DumpOnly, kernelVars
  <2>2. \A m \in Modules : kpc[m] \notin Working
    BY <1>0, <2>1 DEF RequestInv, Polling
  <2>3. Types' /\ EntryInv'
    BY <1>0, <2>1 DEF Types, EntryInv, Polling
  <2>4. QED
    BY <1>0, <2>1, <2>2, <2>3 DEF IInv, RequestInv, BufferInv, Polling
<1>19. QED
  BY <1>1, <1>2, <1>4, <1>5, <1>6, <1>7, <1>8, <1>9, <1>11, <1>12, <1>13, <1>14,
     <1>15, <1>16, <1>17, <1>18 DEF dumpThread

------------------------------------------------------------------------------
LEMMA InitEstablishes ==
  ASSUME Init PROVE IInv
<1>1. \A m \in Modules : kpc[m] = "none" /\ kbuf[m] = 0
  BY DEF Init
<1>2. Types
  BY FAGDecAssumption DEF Init, Types, Modules
<1>3. RequestInv
  BY <1>1 DEF Init, RequestInv, Working, Polling
<1>4. EntryInv
  BY <1>1 DEF Init, EntryInv
<1>5. BufferInv
  BY <1>1 DEF Init, BufferInv, Working
<1>6. QED
  BY <1>2, <1>3, <1>4, <1>5 DEF IInv

LEMMA Inductive == Spec => []IInv
<1>1. Init => IInv
  BY InitEstablishes
<1>2. IInv /\ [Next]_vars => IInv'
  <2>1. SUFFICES ASSUME IInv, [Next]_vars PROVE IInv'
    OBVIOUS
  <2>2. CASE UNCHANGED vars
    BY <2>1, <2>2 DEF vars, IInv, Types, RequestInv, EntryInv, BufferInv
  <2>3. CASE Next
    BY <2>1, <2>3, DecompressKeeps, PluginKeeps, DumpKeeps DEF Next
  <2>4. QED
    BY <2>1, <2>2, <2>3
<1>3. QED
  BY <1>1, <1>2, PTL DEF Spec

(* The plugin's static request is never replaced while a decrypt_thread    *)
(* still needs it, although the only hand-shake is a status word in which  *)
(* messages get lost.                                                      *)
THEOREM Requests == Spec => []OneRequestAtATime
<1>1. IInv => OneRequestAtATime
  BY DEF IInv, RequestInv, OneRequestAtATime, Working
<1>2. QED
  BY <1>1, Inductive, PTL

(* The path buffers of a request are freed once, by its own thread, and    *)
(* not before the thread's end, on every path through decrypt_self.        *)
THEOREM PathBuffers == Spec => []PathBuffersBalanced
<1>1. IInv => PathBuffersBalanced
  BY DEF IInv, BufferInv, PathBuffersBalanced
<1>2. QED
  BY <1>1, Inductive, PTL
------------------------------------------------------------------------------
(* The .seg files.  A file is closed before it can be renamed, and nothing *)
(* but the renaming makes a .seg file.                                     *)

SegTypes ==
  /\ seg \in [Modules -> SUBSET Nat]
  /\ closed \in [Modules -> SUBSET Nat]
  /\ kseg \in [Modules -> Nat]

RenameInv == \A m \in Modules : kpc[m] = "rename" => kseg[m] \in closed[m]

ClosedInv == SegTypes /\ RenameInv /\ SegFilesClosed

LEMMA ClosedInit ==
  ASSUME Init PROVE ClosedInv
<1>1. \A m \in Modules : kpc[m] = "none" /\ seg[m] = {}
  BY DEF Init
<1>2. SegTypes
  BY DEF Init, SegTypes
<1>. QED
  BY <1>1, <1>2 DEF ClosedInv, RenameInv, SegFilesClosed

(* The plugin.                                                             *)
LEMMA PluginCloses ==
  ASSUME NEW m \in Modules, IInv, ClosedInv, Plugin(m)
  PROVE  ClosedInv'
<1>1. /\ kpc \in [Modules -> Working \cup {"none", "free", "ended"}]
      /\ SegTypes /\ RenameInv /\ SegFilesClosed
  BY DEF IInv, Types, ClosedInv
<1>2. ASSUME NEW w, w # "rename", kpc' = [kpc EXCEPT ![m] = w] \/ (kpc' = kpc /\ kpc[m] # "rename"),
             seg' = seg \/ (kpc[m] = "rename" /\ seg' = [seg EXCEPT ![m] = @ \cup {kseg[m]}]),
             closed' = closed,
             kseg' \in {kseg, [kseg EXCEPT ![m] = 1], [kseg EXCEPT ![m] = @ + 1]}
      PROVE  ClosedInv'
  <2>1. SegTypes'
    BY <1>1, <1>2 DEF SegTypes
  <2>2. \A x \in Modules : kpc'[x] = "rename" => x # m /\ kpc[x] = "rename"
    BY <1>1, <1>2
  <2>3. \A x \in Modules : x # m => kseg'[x] = kseg[x]
    BY <1>1, <1>2 DEF SegTypes
  <2>4. RenameInv'
    BY <1>1, <1>2, <2>2, <2>3 DEF RenameInv
  <2>5. SegFilesClosed'
    <3>1. ASSUME NEW x \in Modules PROVE seg'[x] \subseteq closed'[x]
      <4>1. seg[x] \subseteq closed[x] /\ (kpc[x] = "rename" => kseg[x] \in closed[x])
        BY <1>1 DEF SegFilesClosed, RenameInv
      <4>2. seg'[x] = seg[x] \/ (x = m /\ kpc[x] = "rename" /\ seg'[x] = seg[x] \cup {kseg[x]})
        BY <1>1, <1>2 DEF SegTypes
      <4>. QED
        BY <1>2, <4>1, <4>2
    <3>. QED
      BY <3>1 DEF SegFilesClosed
  <2>. QED
    BY <2>1, <2>4, <2>5 DEF ClosedInv
<1>3. CASE decrypt_thread(m)
  BY <1>2, <1>3 DEF decrypt_thread, KGoto
<1>4. CASE getlicensee_rif(m)
  BY <1>2, <1>4 DEF getlicensee_rif, KGoto
<1>5. CASE decrypt_self(m)
  BY <1>2, <1>5 DEF decrypt_self, KGoto
<1>6. CASE SegHead(m)
  BY <1>2, <1>6 DEF SegHead, KGoto
<1>7. CASE SegOpen(m)
  BY <1>2, <1>7 DEF SegOpen, KGoto
<1>8. CASE SegFill(m)
  <2>1. /\ kpc' = [kpc EXCEPT ![m] = "rename"] /\ seg' = seg /\ kseg' = kseg
        /\ closed' = [closed EXCEPT ![m] = @ \cup {kseg[m]}]
    BY <1>8 DEF SegFill, KGoto
  <2>2. SegTypes'
    BY <1>1, <2>1 DEF SegTypes
  <2>3. /\ kseg[m] \in closed'[m] /\ closed[m] \subseteq closed'[m]
        /\ \A x \in Modules : x # m => closed'[x] = closed[x] /\ kpc'[x] = kpc[x]
    BY <1>1, <2>1 DEF SegTypes
  <2>4. RenameInv'
    BY <1>1, <2>1, <2>3 DEF RenameInv
  <2>5. SegFilesClosed'
    BY <1>1, <2>1, <2>3 DEF SegFilesClosed
  <2>. QED
    BY <2>2, <2>4, <2>5 DEF ClosedInv
<1>9. CASE SegRename(m)
  BY <1>2, <1>9 DEF SegRename, KGoto
<1>10. CASE SegDone(m)
  BY <1>2, <1>10 DEF SegDone, KGoto
<1>11. CASE Fail(m)
  BY <1>2, <1>11 DEF Fail, KGoto
<1>12. CASE Free(m)
  BY <1>2, <1>12 DEF Free, KGoto
<1>. QED
  BY <1>3, <1>4, <1>5, <1>6, <1>7, <1>8, <1>9, <1>10, <1>11, <1>12 DEF Plugin

(* dumpThread makes no .seg file, and decompressThread removes some.       *)
LEMMA OthersClose ==
  ASSUME IInv, ClosedInv, dumpThread \/ decompressThread
  PROVE  ClosedInv'
<1>1. /\ kpc \in [Modules -> Working \cup {"none", "free", "ended"}]
      /\ SegTypes /\ RenameInv /\ SegFilesClosed
  BY DEF IInv, Types, ClosedInv
<1>2. closed' = closed /\ kseg' = kseg
  BY DEF dumpThread, NextEntry, ReadHeader, kuEntenteDecryptSelf, WaitUpdate, PollSeg, SegLog,
         PollUpdate, UpdateLog, PollDone, DoneLog, WaitSegOk, SetNew, WriteHeaders, FinishElf,
         FinishSelf, Join, DumpOnly, kernelVars,
         decompressThread, WaitNew, ClearSegOk, Scan, WriteSelf, WriteElf, RemoveSegment,
         SetSegOk, ZOnly
<1>3. seg' = seg \/ seg' = [seg EXCEPT ![zmod] = @ \ {zseg}]
  BY DEF dumpThread, NextEntry, ReadHeader, kuEntenteDecryptSelf, WaitUpdate, PollSeg, SegLog,
         PollUpdate, UpdateLog, PollDone, DoneLog, WaitSegOk, SetNew, WriteHeaders, FinishElf,
         FinishSelf, Join, DumpOnly,
         decompressThread, WaitNew, ClearSegOk, Scan, WriteSelf, WriteElf, RemoveSegment,
         SetSegOk
<1>4. kpc' = kpc \/ kpc' = [kpc EXCEPT ![cur] = "start"]
  BY DEF dumpThread, NextEntry, ReadHeader, kuEntenteDecryptSelf, WaitUpdate, PollSeg, SegLog,
         PollUpdate, UpdateLog, PollDone, DoneLog, WaitSegOk, SetNew, WriteHeaders, FinishElf,
         FinishSelf, Join, DumpOnly, kernelVars, KGoto,
         decompressThread, WaitNew, ClearSegOk, Scan, WriteSelf, WriteElf, RemoveSegment,
         SetSegOk, ZOnly
<1>5. SegTypes'
  BY <1>1, <1>2, <1>3 DEF SegTypes
<1>6. RenameInv'
  BY <1>1, <1>2, <1>4 DEF RenameInv
<1>7. \A m \in Modules : seg'[m] \subseteq seg[m]
  BY <1>1, <1>3 DEF SegTypes
<1>8. SegFilesClosed'
  BY <1>1, <1>2, <1>7 DEF SegFilesClosed
<1>. QED
  BY <1>5, <1>6, <1>8 DEF ClosedInv

(* At whatever moment decompressThread looks for segment files, it finds   *)
(* none that the plugin has not written to its end and closed.             *)
THEOREM SegFilesCorrect == Spec => []SegFilesClosed
<1>1. Init => ClosedInv
  BY ClosedInit
<1>2. IInv /\ ClosedInv /\ [Next]_vars => ClosedInv'
  <2>. SUFFICES ASSUME IInv, ClosedInv, [Next]_vars PROVE ClosedInv'
    OBVIOUS
  <2>1. CASE UNCHANGED vars
    BY <2>1 DEF vars, ClosedInv, SegTypes, RenameInv, SegFilesClosed
  <2>. QED
    BY <2>1, PluginCloses, OthersClose DEF Next
<1>3. ClosedInv => SegFilesClosed
  BY DEF ClosedInv
<1>. QED
  BY <1>1, <1>2, <1>3, Inductive, PTL DEF Spec
------------------------------------------------------------------------------
(* The SELF.  decompressThread writes a segment to the SELF of the entry   *)
(* dumpThread is at and then to the ELF that current_elf names, while      *)
(* dumpThread may have gone on to the next entry.  What the SELF may lack  *)
(* when the ELF is good is bounded by two facts: a segment of an entry     *)
(* reaches that entry's ELF only after it went to the entry's SELF, and as *)
(* long as decompressThread holds a segment of an earlier entry nothing of *)
(* the present one has been written.                                       *)

Outcomes == {"none", "skipped", "failed", "whole", "partial", "verified", "corrupted"}

SelfTypes ==
  /\ cur \in 0 .. NModules
  /\ zseg \in Nat
  /\ elf \in [Modules -> [1 .. NSegs -> Nat]]
  /\ selfout \in [Modules -> [1 .. NSegs -> Nat]]
  /\ lost \in [Modules -> SUBSET Nat]
  /\ out \in [Modules -> Outcomes]

NameInv == name \in {0, cur}

(* The segment decompressThread is at.                                     *)
HeldInv ==
  /\ zpc = "scan" => zseg >= 1
  /\ zpc \in {"write", "writeelf", "remove"} => zmod \in 1 .. cur /\ zseg \in 1 .. NSegs

(* Segment s of m is in the SELF of m, or is known not to be.              *)
InSelf(m, s) == selfout[m][s] = m \/ s \in lost[m]

(* The ELF of an entry has no segment that its SELF has not.               *)
BehindSelf ==
  dump_type = "SELF" =>
    /\ \A m \in Modules : \A s \in 1 .. NSegs : elf[m][s] = m => InSelf(m, s)
    /\ zpc = "writeelf" /\ zmod = cur => InSelf(cur, zseg)

(* Nothing of an entry is written before it is its turn, nor as long as a  *)
(* segment of an earlier entry is still to be written.                     *)
NotBefore ==
  /\ \A m \in Modules : m > cur => out[m] # "verified" /\ \A s \in 1 .. NSegs : elf[m][s] # m
  /\ zpc = "write" /\ zmod # cur =>
       /\ \A s \in 1 .. NSegs : elf[cur][s] # cur
       /\ out[cur] = "verified" => Encrypted[cur] = {}

SelfInv ==
  SelfTypes /\ NameInv /\ HeldInv /\ BehindSelf /\ NotBefore /\ VerifiedSelfIsWhole

LEMMA NothingType ==
  /\ Nothing \in [1 .. NSegs -> Nat]
  /\ \A s \in 1 .. NSegs : Nothing[s] = 0
BY DEF Nothing

(* Writing one segment of the file of one module.                          *)
LEMMA OneSegment ==
  ASSUME NEW f \in [Modules -> [1 .. NSegs -> Nat]], NEW c \in Modules,
         NEW s \in 1 .. NSegs, NEW v \in Nat,
         NEW g, g = [f EXCEPT ![c] = [f[c] EXCEPT ![s] = v]]
  PROVE  /\ g \in [Modules -> [1 .. NSegs -> Nat]]
         /\ g[c][s] = v
         /\ \A m \in Modules : \A x \in 1 .. NSegs : m # c \/ x # s => g[m][x] = f[m][x]
<1> DEFINE h == [f[c] EXCEPT ![s] = v]
<1>1. f[c] \in [1 .. NSegs -> Nat]
  OBVIOUS
<1>2. h \in [1 .. NSegs -> Nat] /\ h[s] = v /\ \A x \in 1 .. NSegs : x # s => h[x] = f[c][x]
  BY <1>1
<1>3. g = [f EXCEPT ![c] = h]
  OBVIOUS
<1> HIDE DEF h
<1>4. g \in [Modules -> [1 .. NSegs -> Nat]] /\ g[c] = h /\ \A m \in Modules : m # c => g[m] = f[m]
  BY <1>2, <1>3
<1>. QED
  BY <1>2, <1>4

LEMMA SelfInit ==
  ASSUME Init PROVE SelfInv
<1>1. cur = 0 /\ name = 0 /\ zpc = "wait" /\ zseg = 0
  BY DEF Init
<1>2. \A m \in Modules : elf[m] = Nothing /\ out[m] = "none"
  BY DEF Init
<1>3. SelfTypes
  BY NothingType, FAGDecAssumption DEF Init, SelfTypes, Outcomes
<1>4. \A m \in Modules : m # 0
  BY DEF Modules
<1>5. \A m \in Modules : \A s \in 1 .. NSegs : elf[m][s] # m
  BY <1>2, <1>4, NothingType
<1>. QED
  BY <1>1, <1>2, <1>3, <1>5
  DEF SelfInv, NameInv, HeldInv, BehindSelf, NotBefore, VerifiedSelfIsWhole

(* The plugin writes neither.                                              *)
LEMMA PluginKeepsSelf ==
  ASSUME NEW m \in Modules, SelfInv, Plugin(m)
  PROVE  SelfInv'
<1>1. UNCHANGED <<cur, name, zpc, zseg, zmod, elf, selfout, lost, dump_type, out>>
  BY DEF Plugin, decrypt_thread, getlicensee_rif, decrypt_self, SegHead, SegOpen, SegFill, SegRename,
         SegDone, Fail, Free, KernelOnly, dumpVars, zVars
<1>. QED
  BY <1>1 DEF SelfInv, SelfTypes, NameInv, HeldInv, BehindSelf, InSelf, NotBefore, VerifiedSelfIsWhole

(* decompressThread.                                                       *)
LEMMA DecompressKeepsSelf ==
  ASSUME SelfInv, decompressThread
  PROVE  SelfInv'
<1>1. SelfTypes /\ NameInv /\ HeldInv /\ BehindSelf /\ NotBefore /\ VerifiedSelfIsWhole
  BY DEF SelfInv
<1>2. UNCHANGED <<cur, name, dump_type, out>>
  BY DEF decompressThread, WaitNew, ClearSegOk, Scan, WriteSelf, WriteElf, RemoveSegment,
         SetSegOk, ZOnly, dumpVars
<1>3. NameInv'
  BY <1>1, <1>2 DEF NameInv
<1>4. ASSUME UNCHANGED <<elf, selfout, lost>>, zseg' \in Nat,
             zpc' # "writeelf", zpc' = "write" => zmod' = cur, HeldInv'
      PROVE  SelfInv'
  <2>1. SelfTypes'
    BY <1>1, <1>2, <1>4 DEF SelfTypes
  <2>2. BehindSelf'
    BY <1>1, <1>2, <1>4 DEF BehindSelf, InSelf
  <2>3. NotBefore'
    BY <1>1, <1>2, <1>4 DEF NotBefore
  <2>4. VerifiedSelfIsWhole'
    BY <1>1, <1>2, <1>4 DEF VerifiedSelfIsWhole
  <2>. QED
    BY <1>3, <1>4, <2>1, <2>2, <2>3, <2>4 DEF SelfInv
<1>5. CASE WaitNew
  BY <1>1, <1>4, <1>5 DEF WaitNew, HeldInv, SelfTypes
<1>6. CASE ClearSegOk
  BY <1>1, <1>4, <1>6 DEF ClearSegOk, ZGoto, HeldInv
<1>7. CASE Scan
  <2>1. /\ zpc = "scan" /\ UNCHANGED <<elf, selfout, lost>>
        /\ \/ /\ zpc' = "write" /\ zmod' = name /\ name # 0 /\ zseg' = zseg /\ zseg <= NSegs
           \/ zpc' = "scan" /\ zseg' = zseg + 1
           \/ zpc' = "segok" /\ zseg' = zseg
    BY <1>7 DEF Scan
  <2>2. zseg \in Nat /\ zseg >= 1
    BY <1>1, <2>1 DEF SelfTypes, HeldInv
  <2>3. zpc' = "write" => zmod' = cur /\ cur # 0
    BY <1>1, <2>1 DEF NameInv
  <2>4. HeldInv'
    BY <1>1, <1>2, <2>1, <2>2, <2>3, FAGDecAssumption DEF HeldInv, SelfTypes
  <2>. QED
    BY <1>4, <2>1, <2>2, <2>3, <2>4
<1>8. CASE WriteSelf
  <2>1. zpc = "write" /\ elf' = elf /\ zseg' = zseg /\ zmod' = zmod /\ zpc' \in {"writeelf", "segok"}
    BY <1>8 DEF WriteSelf
  <2>2. zmod \in 1 .. cur /\ zseg \in 1 .. NSegs /\ cur \in Modules /\ zmod \in Nat
    BY <1>1, <2>1, FAGDecAssumption DEF HeldInv, SelfTypes, Modules
  <2>3. HeldInv'
    BY <1>1, <1>2, <2>1, <2>2 DEF HeldInv
  <2>4. \/ /\ UNCHANGED <<selfout, lost>>
           /\ dump_type = "ELF" \/ zpc' = "segok"
        \/ selfout' = [selfout EXCEPT ![cur][zseg] = zmod] /\ lost' = lost
        \/ lost' = [lost EXCEPT ![cur] = @ \cup {zseg}] /\ selfout' = selfout
    BY <1>8 DEF WriteSelf
  <2>. DEFINE W == [selfout EXCEPT ![cur] = [selfout[cur] EXCEPT ![zseg] = zmod]]
              L == [lost EXCEPT ![cur] = lost[cur] \cup {zseg}]
  <2>5. /\ selfout \in [Modules -> [1 .. NSegs -> Nat]] /\ lost \in [Modules -> SUBSET Nat]
        /\ zseg \in Nat
    BY <1>1 DEF SelfTypes
  <2>6. /\ W \in [Modules -> [1 .. NSegs -> Nat]] /\ W[cur][zseg] = zmod
        /\ \A m \in Modules : \A x \in 1 .. NSegs :
             m # cur \/ x # zseg => W[m][x] = selfout[m][x]
    BY <2>2, <2>5, OneSegment
  <2>7. /\ L \in [Modules -> SUBSET Nat] /\ zseg \in L[cur]
        /\ \A m \in Modules : lost[m] \subseteq L[m]
    BY <2>2, <2>5
  <2>8. \/ /\ UNCHANGED <<selfout, lost>>
           /\ dump_type = "ELF" \/ zpc' = "segok"
        \/ selfout' = W /\ lost' = lost
        \/ lost' = L /\ selfout' = selfout
    <3>1. [selfout EXCEPT ![cur][zseg] = zmod] = W
      BY <2>2, <2>5, Zenon
    <3>2. [lost EXCEPT ![cur] = @ \cup {zseg}] = L
      BY Zenon
    <3>. HIDE DEF W, L
    <3>. QED
      BY <2>4, <3>1, <3>2, Zenon
  <2>. HIDE DEF W, L
  <2>9. SelfTypes'
    BY <1>1, <1>2, <2>1, <2>6, <2>7, <2>8 DEF SelfTypes
  <2>10. \A m \in Modules : \A s \in 1 .. NSegs :
           InSelf(m, s) => InSelf(m, s)' \/ (m = cur /\ s = zseg /\ zmod # cur)
    BY <2>6, <2>7, <2>8 DEF InSelf
  <2>11. dump_type = "SELF" /\ zpc' = "writeelf" /\ zmod = cur => InSelf(cur, zseg)'
    <3>. SUFFICES ASSUME dump_type = "SELF", zpc' = "writeelf", zmod = cur
                  PROVE  selfout'[cur][zseg] = cur \/ zseg \in lost'[cur]
      BY <1>2, <2>1 DEF InSelf
    <3>. QED
      BY <2>6, <2>7, <2>8
  <2>12. BehindSelf'
    BY <1>1, <1>2, <2>1, <2>10, <2>11 DEF BehindSelf, NotBefore
  <2>13. NotBefore'
    BY <1>1, <1>2, <2>1 DEF NotBefore
  <2>14. VerifiedSelfIsWhole'
    <3>1. ASSUME NEW m \in Modules, out[m] = "verified", NEW s \in Encrypted[m] PROVE InSelf(m, s)'
      <4>1. s \in 1 .. NSegs
        BY FAGDecAssumption DEF Modules
      <4>2. InSelf(m, s)
        BY <1>1, <3>1 DEF VerifiedSelfIsWhole, InSelf
      <4>3. ~(m = cur /\ zmod # cur)
        BY <1>1, <2>1, <3>1 DEF NotBefore
      <4>. QED
        BY <2>10, <4>1, <4>2, <4>3
    <3>. QED
      BY <1>2, <3>1 DEF VerifiedSelfIsWhole, InSelf
  <2>. QED
    BY <1>3, <2>3, <2>9, <2>12, <2>13, <2>14 DEF SelfInv
<1>9. CASE WriteElf
  <2>1. /\ zpc = "writeelf" /\ zpc' = "remove" /\ UNCHANGED <<zseg, zmod, selfout, lost>>
        /\ \/ elf' = [m \in Modules |-> IF m = name THEN [elf[m] EXCEPT ![zseg] = zmod] ELSE elf[m]]
           \/ elf' = elf
    BY <1>9 DEF WriteElf, ZGoto
  <2>2. zmod \in 1 .. cur /\ zseg \in 1 .. NSegs /\ cur \in Modules /\ zmod \in Nat
    BY <1>1, <2>1, FAGDecAssumption DEF HeldInv, SelfTypes, Modules
  <2>. DEFINE W == [elf EXCEPT ![cur] = [elf[cur] EXCEPT ![zseg] = zmod]]
  <2>3. elf \in [Modules -> [1 .. NSegs -> Nat]]
    BY <1>1 DEF SelfTypes
  <2>4. /\ W \in [Modules -> [1 .. NSegs -> Nat]] /\ W[cur][zseg] = zmod
        /\ \A m \in Modules : \A x \in 1 .. NSegs :
             m # cur \/ x # zseg => W[m][x] = elf[m][x]
    BY <2>2, <2>3, OneSegment
  <2>5. elf' = W \/ elf' = elf
    <3>1. CASE name = cur
      BY <2>1, <2>2, <2>3, <3>1
    <3>2. CASE name # cur
      <4>1. \A m \in Modules : m # name
        BY <1>1, <3>2 DEF NameInv, Modules
      <4>. QED
        BY <2>1, <2>3, <4>1
    <3>. QED
      BY <3>1, <3>2
  <2>. HIDE DEF W
  <2>6. \A m \in Modules : \A s \in 1 .. NSegs :
          elf'[m][s] = elf[m][s] \/ (m = cur /\ s = zseg /\ elf'[m][s] = zmod)
    BY <2>4, <2>5
  <2>7. elf' \in [Modules -> [1 .. NSegs -> Nat]]
    BY <2>3, <2>4, <2>5
  <2>8. SelfTypes'
    BY <1>1, <1>2, <2>1, <2>7 DEF SelfTypes
  <2>9. HeldInv'
    BY <1>1, <1>2, <2>1 DEF HeldInv
  <2>10. BehindSelf'
    BY <1>1, <1>2, <2>1, <2>2, <2>6 DEF BehindSelf, InSelf
  <2>11. NotBefore'
    <3>1. \A m \in Modules : m > cur => m # cur
      BY <1>1 DEF SelfTypes, Modules
    <3>. QED
      BY <1>1, <1>2, <2>1, <2>6, <3>1 DEF NotBefore
  <2>12. VerifiedSelfIsWhole'
    BY <1>1, <1>2, <2>1 DEF VerifiedSelfIsWhole
  <2>. QED
    BY <1>3, <2>8, <2>9, <2>10, <2>11, <2>12 DEF SelfInv
<1>10. CASE RemoveSegment
  <2>1. /\ zpc = "remove" /\ zpc' = "scan" /\ zseg' = zseg + 1 /\ UNCHANGED <<elf, selfout, lost>>
    BY <1>10 DEF RemoveSegment, ZGoto
  <2>2. zseg + 1 \in Nat /\ HeldInv'
    BY <1>1, <2>1 DEF SelfTypes, HeldInv
  <2>. QED
    BY <1>4, <2>1, <2>2
<1>11. CASE SetSegOk
  BY <1>1, <1>4, <1>11 DEF SetSegOk, ZGoto, HeldInv, SelfTypes
<1>. QED
  BY <1>5, <1>6, <1>7, <1>8, <1>9, <1>10, <1>11 DEF decompressThread

(* dumpThread.                                                             *)
LEMMA DumpKeepsSelf ==
  ASSUME SelfInv, dumpThread
  PROVE  SelfInv'
<1>1. SelfTypes /\ NameInv /\ HeldInv /\ BehindSelf /\ NotBefore /\ VerifiedSelfIsWhole
  BY DEF SelfInv
<1>2. UNCHANGED <<zpc, zseg, zmod, lost, selfout, dump_type>>
  BY DEF dumpThread, NextEntry, ReadHeader, kuEntenteDecryptSelf, WaitUpdate, PollSeg, SegLog,
         PollUpdate, UpdateLog, PollDone, DoneLog, WaitSegOk, SetNew, WriteHeaders, FinishElf,
         FinishSelf, Join, DumpOnly, Stay, zVars
<1>3. \A m \in Modules : m # 0 /\ Encrypted[m] \subseteq 1 .. NSegs
  BY FAGDecAssumption DEF Modules
<1>4. ASSUME cur' = cur, name' \in {0, cur},
             elf' = elf \/ elf' = [elf EXCEPT ![cur] = Nothing],
             NEW w \in Outcomes, out' = out \/ out' = [out EXCEPT ![cur] = w],
             w = "verified" => /\ dump_type = "SELF"
                               /\ \A s \in Encrypted[cur] : elf[cur][s] = cur
      PROVE  SelfInv'
  <2>1. SelfTypes'
    BY <1>1, <1>2, <1>4, NothingType DEF SelfTypes
  <2>2. NameInv' /\ HeldInv'
    BY <1>1, <1>2, <1>4 DEF NameInv, HeldInv
  <2>3. \A m \in Modules : \A s \in 1 .. NSegs : elf'[m][s] = elf[m][s] \/ elf'[m][s] = 0
    BY <1>1, <1>4, NothingType DEF SelfTypes
  <2>4. \A m \in Modules : \/ out'[m] = out[m]
                           \/ m = cur /\ out'[m] = w
    BY <1>1, <1>4 DEF SelfTypes
  <2>5. BehindSelf'
    BY <1>1, <1>2, <1>3, <1>4, <2>3 DEF BehindSelf, InSelf
  <2>6. zpc = "write" => cur \in Modules
    BY <1>1, FAGDecAssumption DEF HeldInv, SelfTypes, Modules
  <2>7. \A m \in Modules : m > cur => m # cur
    BY <1>1 DEF SelfTypes, Modules
  <2>8. NotBefore'
    <3>1. ASSUME NEW m \in Modules, m > cur
          PROVE  out'[m] # "verified" /\ \A s \in 1 .. NSegs : elf'[m][s] # m
      BY <1>1, <1>3, <2>3, <2>4, <2>7, <3>1 DEF NotBefore
    <3>2. ASSUME zpc = "write", zmod # cur
          PROVE  /\ \A s \in 1 .. NSegs : elf'[cur][s] # cur
                 /\ out'[cur] = "verified" => Encrypted[cur] = {}
      <4>1. /\ \A s \in 1 .. NSegs : elf[cur][s] # cur
            /\ out[cur] = "verified" => Encrypted[cur] = {}
            /\ cur \in Modules
        BY <1>1, <2>6, <3>2 DEF NotBefore
      <4>. QED
        BY <1>3, <1>4, <2>3, <2>4, <4>1
    <3>. QED
      BY <1>2, <1>4, <3>1, <3>2 DEF NotBefore
  <2>9. VerifiedSelfIsWhole'
    <3>1. ASSUME NEW m \in Modules, out'[m] = "verified", NEW s \in Encrypted[m] \ lost[m]
          PROVE  selfout[m][s] = m
      <4>1. CASE out[m] = "verified"
        BY <1>1, <4>1 DEF VerifiedSelfIsWhole
      <4>2. CASE m = cur /\ w = "verified"
        <5>1. s \in 1 .. NSegs /\ elf[m][s] = m /\ dump_type = "SELF"
          BY <1>3, <1>4, <4>2
        <5>. QED
          BY <1>1, <5>1 DEF BehindSelf, InSelf
      <4>. QED
        BY <2>4, <3>1, <4>1, <4>2
    <3>. QED
      BY <1>2, <3>1 DEF VerifiedSelfIsWhole
  <2>. QED
    BY <2>1, <2>2, <2>5, <2>8, <2>9 DEF SelfInv
<1>5. CASE NextEntry
  <2>1. CASE cur < NModules /\ cur' = cur + 1 /\ name' = 0 /\ UNCHANGED <<out, elf>>
    <3>1. SelfTypes'
      BY <1>1, <1>2, <2>1, FAGDecAssumption DEF SelfTypes
    <3>2. cur \in Nat /\ cur + 1 \in Modules /\ cur + 1 > cur
      BY <1>1, <2>1, FAGDecAssumption DEF SelfTypes, Modules
    <3>3. NameInv' /\ HeldInv'
      BY <1>1, <1>2, <2>1, <3>2 DEF NameInv, HeldInv
    <3>4. zpc = "writeelf" => zmod # cur + 1
      BY <1>1, <3>2 DEF HeldInv
    <3>5. BehindSelf'
      BY <1>1, <1>2, <2>1, <3>4 DEF BehindSelf, InSelf
    <3>6. \A m \in Modules : m > cur + 1 => m > cur
      BY <3>2 DEF Modules
    <3>7. NotBefore'
      BY <1>1, <1>2, <2>1, <3>2, <3>6 DEF NotBefore
    <3>8. VerifiedSelfIsWhole'
      BY <1>1, <1>2, <2>1 DEF VerifiedSelfIsWhole
    <3>. QED
      BY <3>1, <3>3, <3>5, <3>7, <3>8 DEF SelfInv
  <2>2. CASE UNCHANGED <<cur, name, out, elf>>
    BY <1>1, <1>4, <2>2 DEF NameInv, Outcomes
  <2>. QED
    BY <1>5, <2>1, <2>2 DEF NextEntry
<1>6. CASE ReadHeader
  <2>1. /\ name' = cur /\ cur' = cur /\ elf' = elf
        /\ out' = out \/ out' = [out EXCEPT ![cur] = "skipped"]
    BY <1>6 DEF ReadHeader
  <2>. QED
    BY <1>4, <2>1 DEF Outcomes
<1>7. CASE WriteHeaders
  <2>1. /\ name' = name /\ cur' = cur /\ elf' = elf
        /\ out' = out \/ out' = [out EXCEPT ![cur] = "failed"]
    BY <1>7 DEF WriteHeaders
  <2>. QED
    BY <1>1, <1>4, <2>1 DEF Outcomes, NameInv
<1>8. CASE FinishElf
  <2>1. /\ name' \in {0, name} /\ cur' = cur
        /\ elf' = elf \/ elf' = [elf EXCEPT ![cur] = Nothing]
        /\ \E w \in {"whole", "partial", "failed"} : out' = [out EXCEPT ![cur] = w]
    BY <1>8 DEF FinishElf
  <2>2. PICK w \in {"whole", "partial", "failed"} : out' = [out EXCEPT ![cur] = w]
    BY <2>1
  <2>3. w \in Outcomes /\ w # "verified"
    BY DEF Outcomes
  <2>. QED
    BY <1>1, <1>4, <2>1, <2>2, <2>3 DEF NameInv
<1>9. CASE FinishSelf
  <2>1. name' = name /\ cur' = cur /\ dump_type = "SELF"
    BY <1>9 DEF FinishSelf
  <2>2. CASE elf[cur] = Original(cur)
    <3>1. elf' = [elf EXCEPT ![cur] = Nothing] /\ out' = [out EXCEPT ![cur] = "verified"]
      BY <1>9, <2>2 DEF FinishSelf
    <3>2. CASE cur \in Modules
      <4>1. \A s \in Encrypted[cur] : elf[cur][s] = cur
        BY <1>3, <2>2, <3>2 DEF Original
      <4>. QED
        BY <1>1, <1>4, <2>1, <3>1, <4>1 DEF NameInv, Outcomes
    <3>3. CASE cur \notin Modules
      <4>1. out' = out /\ elf' = elf
        BY <1>1, <3>1, <3>3 DEF SelfTypes
      <4>. QED
        BY <1>1, <1>4, <2>1, <4>1 DEF NameInv, Outcomes
    <3>. QED
      BY <3>2, <3>3
  <2>3. CASE elf[cur] # Original(cur)
    <3>1. elf' = elf /\ out' = [out EXCEPT ![cur] = "corrupted"]
      BY <1>9, <2>3 DEF FinishSelf
    <3>. QED
      BY <1>1, <1>4, <2>1, <3>1 DEF NameInv, Outcomes
  <2>. QED
    BY <2>2, <2>3
<1>10. CASE \/ kuEntenteDecryptSelf \/ WaitUpdate \/ PollSeg \/ SegLog \/ PollUpdate \/ UpdateLog
            \/ PollDone \/ DoneLog \/ WaitSegOk \/ SetNew \/ Join
  <2>1. Stay
    BY <1>10 DEF kuEntenteDecryptSelf, WaitUpdate, PollSeg, SegLog, PollUpdate, UpdateLog,
                 PollDone, DoneLog, WaitSegOk, SetNew, Join
  <2>. QED
    BY <1>1, <1>4, <2>1 DEF Stay, NameInv, Outcomes
<1>. QED
  BY <1>5, <1>6, <1>7, <1>8, <1>9, <1>10 DEF dumpThread

(* A SELF that is reported as verified lacks no segment of its module but  *)
(* those whose writing was reported to have failed, and has none of        *)
(* another module, although what is verified is the temporary ELF and      *)
(* decompressThread may be an entry behind dumpThread.                     *)
THEOREM VerifiedSelfCorrect == Spec => []VerifiedSelfIsWhole
<1>1. Init => SelfInv
  BY SelfInit
<1>2. SelfInv /\ [Next]_vars => SelfInv'
  <2>. SUFFICES ASSUME SelfInv, [Next]_vars PROVE SelfInv'
    OBVIOUS
  <2>1. CASE UNCHANGED vars
    BY <2>1 DEF vars, SelfInv, SelfTypes, NameInv, HeldInv, BehindSelf, InSelf, NotBefore,
                VerifiedSelfIsWhole
  <2>. QED
    BY <2>1, PluginKeepsSelf, DecompressKeepsSelf, DumpKeepsSelf DEF Next
<1>3. SelfInv => VerifiedSelfIsWhole
  BY DEF SelfInv
<1>. QED
  BY <1>1, <1>2, <1>3, PTL DEF Spec
=============================================================================

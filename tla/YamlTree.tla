------------------------------ MODULE YamlTree ------------------------------
(***************************************************************************)
(* yamltree.c, with which THGN and vitadecompiler-mod read their NID       *)
(* database: the events of libyaml are turned into a tree.  The parser     *)
(* looks one event ahead; its recursive functions are the frames of        *)
(* `stack', one per sequence or mapping that is open.                      *)
(*                                                                         *)
(* libyaml is external: it yields the events of some stream in the order   *)
(* of its grammar, and may report an error instead of any of them.         *)
(***************************************************************************)
EXTENDS Integers, Sequences, SequencesExt

CONSTANT MaxEvents   \* bound: the events of a stream

ASSUME YamlTreeAssumption == MaxEvents \in Nat

VARIABLES
  grammar,     \* libyaml: what is open, innermost last
  events,      \* libyaml: the events it has yielded
  event,       \* ctx->event
  next_event,  \* ctx->next_event
  problem,     \* ctx->error->problem is set
  ypc,         \* which function reads the next event
  stack,       \* the sequences and mappings process_node is inside of
  docs,        \* stream->docs
  result       \* what vita_imports_loads does: "", "tree", "report"

yamlVars == <<grammar, events, event, next_event, problem, ypc, stack, docs, result>>

------------------------------------------------------------------------------
(* libyaml.                                                                *)

Nodes == {"SCALAR", "ALIAS", "SEQ_START", "MAP_START"}

Opens(e) == CASE e = "STREAM_START" -> <<"stream">> [] e = "DOC_START" -> <<"doc">>
              [] e = "SEQ_START" -> <<"seq">>       [] e = "MAP_START" -> <<"key">>
              [] OTHER -> <<>>

(* The node that was just completed is a key, a value or the root.         *)
Completed(g) ==
  IF g = <<>> THEN g
  ELSE CASE Last(g) = "key"   -> Append(Front(g), "value")
         [] Last(g) = "value" -> Append(Front(g), "key")
         [] Last(g) = "doc"   -> Append(Front(g), "docend")
         [] OTHER             -> g

(* The events that may come next, and what is open after one.              *)
MayFollow(g) ==
  IF g = <<>> THEN IF events = <<>> THEN {"STREAM_START"} ELSE {"NO_EVENT"}
  ELSE CASE Last(g) = "stream" -> {"DOC_START", "STREAM_END"}
         [] Last(g) = "doc"    -> Nodes
         [] Last(g) = "docend" -> {"DOC_END"}
         [] Last(g) = "seq"    -> Nodes \cup {"SEQ_END"}
         [] Last(g) = "key"    -> Nodes \cup {"MAP_END"}
         [] Last(g) = "value"  -> Nodes

After(g, e) ==
  CASE Opens(e) # <<>>                         -> g \o Opens(e)
    [] e \in {"SCALAR", "ALIAS"}               -> Completed(g)
    [] e \in {"SEQ_END", "MAP_END"}            -> Completed(Front(g))
    [] e \in {"DOC_END", "STREAM_END"}         -> Front(g)
    [] e = "NO_EVENT"                          -> g

------------------------------------------------------------------------------
(* process_event: the event that was ahead becomes the event, and libyaml  *)
(* is asked for another one.                                               *)
process_event ==
  /\ event' = next_event
  /\ \E e \in MayFollow(grammar) :
       /\ next_event' = e
       /\ events' = Append(events, e)
       /\ Len(events) < MaxEvents
       /\ grammar' = After(grammar, e)

(* libyaml reports an error: every function on the stack returns NULL.     *)
Give_up(p) ==
  /\ problem' = p
  /\ result' = "report"
  /\ UNCHANGED <<ypc, stack, docs>>

LibError ==
  /\ result = ""
  /\ event' = next_event /\ next_event' = "NO_EVENT"
  /\ Give_up(TRUE)
  /\ UNCHANGED <<grammar, events>>

Running(pc) == result = "" /\ ypc = pc

Continue == UNCHANGED <<problem, result>>

(* parse_yaml_stream asks for the first event before there is one.         *)
FirstEvent ==
  /\ Running("init")
  /\ process_event
  /\ ypc' = "stream"
  /\ Continue
  /\ UNCHANGED <<stack, docs>>

(* The loop over the documents.                                            *)
StreamLoop ==
  /\ Running("stream")
  /\ process_event
  /\ IF event' = "STREAM_END"
       THEN result' = (IF Len(docs) = 1 THEN "tree" ELSE "report") /\ UNCHANGED ypc
       ELSE ypc' = "document" /\ UNCHANGED result
  /\ UNCHANGED <<problem, stack, docs>>

(* process_document: its start, and its end.                               *)
DocumentStart ==
  /\ Running("document")
  /\ process_event
  /\ IF event' = "DOC_START"
       THEN ypc' = "node" /\ Continue /\ UNCHANGED <<stack, docs>>
       ELSE Give_up(TRUE)

DocumentEnd ==
  /\ Running("docend")
  /\ process_event
  /\ IF event' = "DOC_END"
       THEN ypc' = "stream" /\ Continue /\ UNCHANGED <<stack, docs>>
       ELSE Give_up(TRUE)

(* The loops of process_sequence and process_mapping look at what is ahead *)
(* before each item and before each pair.                                  *)
AtEnd(frame, ahead) ==
  \/ frame.kind = "seq" /\ ahead = "SEQ_END"
  \/ frame.kind = "map" /\ Len(frame.items) % 2 = 0 /\ ahead = "MAP_END"

Loop(s, ahead) ==
  /\ stack' = s
  /\ ypc' = IF AtEnd(Last(s), ahead) THEN "close" ELSE "node"
  /\ UNCHANGED docs

(* A node is complete: it is an item of what is open, or the document.     *)
Deliver(node, s, ahead) ==
  IF s = <<>>
    THEN docs' = Append(docs, node) /\ stack' = s /\ ypc' = "docend"
    ELSE Loop(Append(Front(s), [Last(s) EXCEPT !.items = Append(@, node)]), ahead)

Frame(kind) == [kind |-> kind, items |-> <<>>]

process_node ==
  /\ Running("node")
  /\ process_event
  /\ CASE event' = "SCALAR"    -> Deliver(Frame("scalar"), stack, next_event') /\ Continue
       [] event' = "SEQ_START" -> Loop(Append(stack, Frame("seq")), next_event') /\ Continue
       [] event' = "MAP_START" -> Loop(Append(stack, Frame("map")), next_event') /\ Continue
       [] event' = "ALIAS"     -> Give_up(TRUE)
       [] OTHER                -> Give_up(problem)

(* Faulty: the end of a sequence stays the event ahead.                    *)
CloseLate ==
  /\ Running("close")
  /\ UNCHANGED <<event, next_event, events, grammar>>
  /\ Deliver(Last(stack), Front(stack), next_event')
  /\ Continue

(* The end of a sequence or a mapping.                                     *)
Close ==
  /\ Running("close")
  /\ process_event
  /\ Deliver(Last(stack), Front(stack), next_event')
  /\ Continue

YamlInit ==
  /\ grammar = <<>> /\ events = <<>>
  /\ event = "NO_EVENT" /\ next_event = "NO_EVENT"
  /\ problem = FALSE /\ ypc = "init" /\ stack = <<>> /\ docs = <<>> /\ result = ""

YamlNext ==
  \/ FirstEvent \/ StreamLoop \/ DocumentStart \/ DocumentEnd
  \/ process_node \/ Close \/ LibError

YamlSpec == YamlInit /\ [][YamlNext]_yamlVars

------------------------------------------------------------------------------
(* What a tree describes: walking it depth first names one event for every *)
(* node, and one more for the end of a sequence or a mapping.              *)
Name(n) == CASE n.kind = "scalar"  -> "SCALAR"
             [] n.kind = "seq"     -> "SEQ_START"
             [] n.kind = "map"     -> "MAP_START"
             [] n.kind = "seq end" -> "SEQ_END"
             [] n.kind = "map end" -> "MAP_END"

Below(n) == CASE n.kind = "seq" -> Append(n.items, Frame("seq end"))
              [] n.kind = "map" -> Append(n.items, Frame("map end"))
              [] OTHER          -> <<>>

(* One step of the walk, with what is left to be visited.                  *)
Visit(todo) == IF todo = <<>> THEN <<>> ELSE Below(Head(todo)) \o Tail(todo)

(* The events from the i-th up to, not including, the j-th describe node.  *)
Describes(node, i, j) ==
  LET todo[k \in i .. j] == IF k = i THEN <<node>> ELSE Visit(todo[k - 1])
  IN  /\ \A k \in i .. (j - 1) : todo[k] # <<>> /\ events[k] = Name(Head(todo[k]))
      /\ todo[j] = <<>>

(* A tree is returned only for a stream of one document, and it is the     *)
(* tree that the stream describes; in every other case there is a message  *)
(* to report.  The event ahead is never an end that belongs to another     *)
(* sequence or mapping, and a mapping has as many values as keys.  (The    *)
(* loop over the documents consumes the start of a second document itself, *)
(* so that process_document refuses it; tree->count is 1 in every tree.)   *)
TreeOrProblem ==
  /\ result = "tree" =>
       LET n == Len(events)
       IN  /\ Len(docs) = 1 /\ n > 5
           /\ events[1] = "STREAM_START" /\ events[2] = "DOC_START"
           /\ Describes(docs[1], 3, n - 2)
           /\ events[n - 2] = "DOC_END" /\ events[n - 1] = "STREAM_END"
           /\ events[n] = "NO_EVENT"
  /\ result = "report" => problem
=============================================================================

---------------------------- MODULE RelatedGraph ----------------------------
(***************************************************************************)
(* The documents around a document (internal/handlers/related_document.go):*)
(* a walk in breadth along references, forwards and backwards, bounded in  *)
(* depth and in documents, one query at a time while the ERP goes on; then *)
(* the documents are put in the order of their references.                 *)
(***************************************************************************)
EXTENDS Naturals, Sequences, FiniteSets

CONSTANTS
  LastDoc,   \* bound: documents, numbered by relatedNodeLess
  MaxDepth,  \* relatedMaxDepth
  MaxNodes,  \* relatedMaxNodes
  Linkings   \* who may refer to whom at first

Doc == 1 .. LastDoc
Link == {l \in Doc \X Doc : l[1] # l[2]}  \* <<predecessor, successor>>

ASSUME GraphAssumption ==
  /\ LastDoc \in Nat \ {0} /\ MaxDepth \in Nat /\ MaxNodes \in Nat \ {0}
  /\ Linkings \subseteq SUBSET Link

VARIABLES
  link,    \* references in the details of active documents
  present, \* documents with an active header
  root, depth, \* of the question (parseRelatedDepth)
  nodes, edges, truncated, \* of the answer
  queue,   \* nodes to be looked at, each with its distance
  hop, linked, \* the one looked at, its neighbours still to be read
  order,   \* the nodes of the answer, as far as they are in order
  walk,    \* "walking", "sorting", "over"
  still    \* the ERP has done nothing meanwhile (history)

answerVars == <<root, depth, nodes, edges, truncated>>
graphVars == <<link, present, answerVars, queue, hop, linked, order, walk, still>>

GraphStart ==
  /\ nodes = {root} /\ edges = {} /\ truncated = FALSE
  /\ queue = <<[doc |-> root, depth |-> 0]>>
  /\ hop = 0 /\ linked = {}
  /\ order = <<>> /\ walk = "walking" /\ still = TRUE

GraphInit ==
  /\ link \in Linkings
  /\ root \in Doc /\ depth \in 1 .. MaxDepth
  /\ present \in {p \in SUBSET Doc : root \in p}
  /\ GraphStart

ErpVars == UNCHANGED <<link, present, still>>

-----------------------------------------------------------------------------
(* Not the code: documents refer to their predecessors only.               *)
Predecessors(d) == {l \in link : l[2] = d}

(* findRelatedDocumentEdges: references of d and to d.                     *)
EdgesOf(d) == {l \in link : d \in {l[1], l[2]}}

(* Not the code: the last hop counts.                                      *)
ExpandOneMore ==
  /\ walk = "walking" /\ linked = {} /\ queue # <<>>
  /\ LET item == Head(queue)
         found == IF item.depth > depth THEN {} ELSE EdgesOf(item.doc)
     IN  /\ edges' = edges \cup found
         /\ linked' = (UNION {{l[1], l[2]} : l \in found}) \ nodes
         /\ hop' = item.depth
  /\ queue' = Tail(queue)
  /\ UNCHANGED <<root, depth, nodes, truncated, order, walk>> /\ ErpVars

(* The next document of the queue, unless it is at the bound.  A document  *)
(* is queued when it becomes a node, once, so "processed" never skips one. *)
Expand ==
  /\ walk = "walking" /\ linked = {} /\ queue # <<>>
  /\ LET item == Head(queue)
         found == IF item.depth >= depth THEN {} ELSE EdgesOf(item.doc)
     IN  /\ edges' = edges \cup found
         /\ linked' = (UNION {{l[1], l[2]} : l \in found}) \ nodes
         /\ hop' = item.depth
  /\ queue' = Tail(queue)
  /\ UNCHANGED <<root, depth, nodes, truncated, order, walk>> /\ ErpVars

(* Not the code: the check comes too late by one.                          *)
FullTooLate == Cardinality(nodes) > MaxNodes

Full == Cardinality(nodes) >= MaxNodes

(* A neighbour, by the order of the rows: over the bound it is left out,   *)
(* without a header there is a warning.                                    *)
ReadHeader(d) ==
  /\ d \in linked
  /\ linked' = linked \ {d}
  /\ truncated' = (truncated \/ Full)
  /\ IF ~Full /\ d \in present
       THEN /\ nodes' = nodes \cup {d}
            /\ queue' = Append(queue, [doc |-> d, depth |-> hop + 1])
       ELSE UNCHANGED <<nodes, queue>>
  /\ UNCHANGED <<root, depth, edges, hop, order, walk>> /\ ErpVars

-----------------------------------------------------------------------------
Placed == {order[i] : i \in DOMAIN order}
Waiting == nodes \ Placed
Least(s) == CHOOSE d \in s : \A e \in s : d <= e

StartSorting ==
  /\ walk = "walking" /\ linked = {} /\ queue = <<>>
  /\ walk' = "sorting"
  /\ UNCHANGED <<answerVars, queue, hop, linked, order>> /\ ErpVars

(* Not the code: a document whose predecessor is placed may follow.        *)
ReadyEarly ==
  {d \in Waiting : (\E l \in edges : l[2] = d /\ l[1] \in nodes)
                     => \E l \in edges : l[2] = d /\ l[1] \in Placed}

(* Nodes of in-degree zero.                                                *)
Ready == {d \in Waiting : \A l \in edges : l[2] = d => l[1] \notin Waiting}

Place ==
  /\ walk = "sorting" /\ Ready # {}
  /\ order' = Append(order, Least(Ready))
  /\ UNCHANGED <<answerVars, queue, hop, linked, walk>> /\ ErpVars

ByNumber(s) ==
  [i \in 1 .. Cardinality(s) |->
     CHOOSE d \in s : Cardinality({e \in s : e < d}) = i - 1]

(* All are placed, or references go round in circles.                      *)
EndSorting ==
  /\ walk = "sorting" /\ Ready = {}
  /\ walk' = "over"
  /\ order' = IF Waiting = {} THEN order ELSE ByNumber(nodes)
  /\ UNCHANGED <<answerVars, queue, hop, linked>> /\ ErpVars

-----------------------------------------------------------------------------
(* Meanwhile the ERP cancels a document, its references with it, or makes  *)
(* a document refer to another; bound: one of these.                       *)
ErpUnlink(d) ==
  /\ walk = "walking" /\ still /\ d \in present
  /\ present' = present \ {d}
  /\ link' = {l \in link : l[2] # d}
  /\ still' = FALSE
  /\ UNCHANGED <<answerVars, queue, hop, linked, order, walk>>

ErpLink(l) ==
  /\ walk = "walking" /\ still /\ l \notin link /\ l[2] \in present
  /\ link' = link \cup {l}
  /\ still' = FALSE
  /\ UNCHANGED <<present, answerVars, queue, hop, linked, order, walk>>

GraphNext ==
  \/ Expand \/ StartSorting \/ Place \/ EndSorting
  \/ \E d \in Doc : ReadHeader(d) \/ ErpUnlink(d)
  \/ \E l \in Link : ErpLink(l)

GraphSpec == GraphInit /\ [][GraphNext]_graphVars

-----------------------------------------------------------------------------
(* The types, and the answer is no larger than it may be                   *)
(* (relatedMaxNodes).                                                      *)
GraphTypeOK ==
  /\ link \subseteq Link /\ present \subseteq Doc /\ root \in nodes
  /\ depth \in 1 .. MaxDepth
  /\ nodes \subseteq Doc /\ Cardinality(nodes) <= MaxNodes /\ edges \subseteq Link
  /\ truncated \in BOOLEAN /\ still \in BOOLEAN
  /\ queue \in Seq([doc : nodes, depth : 0 .. depth])
  /\ hop \in 0 .. depth /\ linked \subseteq Doc
  /\ order \in Seq(nodes) /\ walk \in {"walking", "sorting", "over"}

(* Documents of s at most n references of r away from o, and o itself.     *)
Around(o, s, r, n) ==
  LET hops[k \in 0 .. n] ==
        IF k = 0 THEN {o}
        ELSE hops[k - 1] \cup
             {d \in s : \E e \in hops[k - 1] : <<d, e>> \in r \/ <<e, d>> \in r}
  IN  hops[n]

(* Whatever the ERP does between the queries, each document of the answer  *)
(* is connected to the one that was asked for, by references that the      *)
(* answer shows, within the depth: a client can draw the chain.            *)
AnswerIsConnected == nodes = Around(root, nodes, edges, depth)

(* If the ERP leaves the documents alone and the answer is not marked as   *)
(* truncated, it has all documents up to the depth ("up to `depth` hops",  *)
(* docs/openapi.json:6171) and no other.                                   *)
AnswerIsWhole ==
  (walk = "over" /\ still /\ ~truncated)
    => nodes = Around(root, present, link, depth)

Circular == \E s \in (SUBSET nodes) \ {{}} :
  \A d \in s : \E l \in edges : l[2] = d /\ l[1] \in s

(* Each document is shown once, and after those it refers to, unless they  *)
(* go round in circles (sortRelatedNodesByFlow).                           *)
OrderFollowsReferences ==
  walk = "over" =>
    /\ Placed = nodes /\ Len(order) = Cardinality(nodes)
    /\ \/ Circular
       \/ \A i, j \in DOMAIN order : <<order[i], order[j]>> \in edges => i < j

(* The answer is the neighbourhood of the document, in order, whatever the *)
(* ERP does while it is being read (related_document.go).                  *)
AnswerIsRight == AnswerIsConnected /\ AnswerIsWhole /\ OrderFollowsReferences
=============================================================================

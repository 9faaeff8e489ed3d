---------------------------- MODULE PatternIndex ----------------------------
(***************************************************************************)
(* The index that finds the wildcard patterns a host may match             *)
(* (core/crates/filter/src/wildcard.rs, PatternSet and Trie).  Each        *)
(* pattern is filed under its literal head or its literal tail, whichever  *)
(* is longer; the heads make one trie and the reversed tails another, each *)
(* written node by node, level by level, into flat arrays.                 *)
(***************************************************************************)
EXTENDS Globs, FiniteSets

CONSTANTS
    Files,  \* the patterns, [glob, parents], that a section may hold, in order
    Hosts   \* the hosts looked up

VARIABLES
    patterns,  \* PatternSet.patterns
    tries,     \* PatternSet.heads and PatternSet.tails
    which,     \* the trie being written, or "done"
    pending,   \* Trie::new: the nodes numbered but not written yet
    numbered   \* Trie::new: how many nodes have a number

vars == <<patterns, tries, which, pending, numbered>>

Ids == DOMAIN patterns

FiledUnderTail(id) ==
  LET glob == patterns[id].glob
  IN tail(glob) # <<>> /\ Len(tail(glob)) >= Len(head(glob))

\* The longer literal, a tail on a tie: a tail reversed, so that it starts the
\* reversed host.
filed(trie) ==
  IF trie = "tails"
    THEN {<<Reverse(tail(patterns[id].glob)), id>> : id \in {i \in Ids : FiledUnderTail(i)}}
    ELSE {<<head(patterns[id].glob), id>> :
            id \in {i \in Ids : ~FiledUnderTail(i) /\ head(patterns[i].glob) # <<>>}}

unkeyed == {id \in Ids : ~FiledUnderTail(id) /\ head(patterns[id].glob) = <<>>}

\* The order of the keys, with the id last: entries.sort_unstable().
Before(e, f) ==
  LET k == e[1] \o <<-1, e[2]>>
      l == f[1] \o <<-1, f[2]>>
      i == CHOOSE j \in DOMAIN k : k[j] # l[j] /\ \A m \in 1 .. j - 1 : k[m] = l[m]
  IN k[i] < l[i]

entries(trie) == SetToSortSeq(filed(trie), Before)

\* Trie::default(): no root table, so nothing is found.
EmptyTrie == [root |-> <<>>, edge_start |-> <<>>, edge_bytes |-> <<>>,
              edge_nodes |-> <<>>, id_start |-> <<>>, ids |-> <<>>]

\* The root alone is numbered, with all entries under it; a run is the first of
\* its entries and the one after its last.
Started(trie) ==
  /\ which' = trie
  /\ numbered' = 1
  /\ pending' = IF filed(trie) = {} THEN <<>>
                ELSE <<[run |-> <<1, Len(entries(trie)) + 1>>, depth |-> 0]>>

Init ==
  /\ patterns \in Files
  /\ tries = [t \in {"heads", "tails"} |-> EmptyTrie]
  /\ which = "none"
  /\ pending = <<>>
  /\ numbered = 0

New == which = "none" /\ Started("heads") /\ UNCHANGED <<patterns, tries>>

\* The groups of a run's entries with the same byte, in order: the first entry
\* of each.
Groups(es, from, end, depth) ==
  SetToSortSeq({i \in from .. end - 1 : i = from \/ es[i][1][depth + 1] # es[i - 1][1][depth + 1]},
               LAMBDA i, j : i < j)

\* pending.push_back, for each child.
Queued(queue, nodes) == queue \o nodes

\* The next node of the level: where its children and its patterns start, then
\* its patterns, whose strings end here and come first in its run, then a child
\* for each byte the other strings go on with.  Of the root's table only the
\* bytes with a child are kept.
WriteNode ==
  /\ pending # <<>>
  /\ LET es == entries(which)
         run == Head(pending).run
         depth == Head(pending).depth
         trie == tries[which]
         own == Min({i \in run[1] .. run[2] : i = run[2] \/ Len(es[i][1]) # depth})
         starts == Groups(es, own, run[2], depth)
         End(i) == IF i = Len(starts) THEN run[2] ELSE starts[i + 1]
         bytes == [i \in DOMAIN starts |-> es[starts[i]][1][depth + 1]]
         children == [i \in DOMAIN starts |-> numbered + i - 1]
     IN /\ tries' = [tries EXCEPT ![which] =
             [root |-> IF trie.id_start # <<>> THEN trie.root
                       ELSE [b \in ToSet(bytes) |-> children[SelectInSeq(bytes, LAMBDA c : c = b)]],
              edge_start |-> Append(trie.edge_start, Len(trie.edge_bytes)),
              edge_bytes |-> trie.edge_bytes \o bytes,
              edge_nodes |-> trie.edge_nodes \o children,
              id_start |-> Append(trie.id_start, Len(trie.ids)),
              ids |-> trie.ids \o [i \in 1 .. own - run[1] |-> es[run[1] + i - 1][2]]]]
        /\ pending' = Queued(Tail(pending),
             [i \in DOMAIN starts |-> [run |-> <<starts[i], End(i)>>, depth |-> depth + 1]])
        /\ numbered' = numbered + Len(starts)
  /\ UNCHANGED <<patterns, which>>

\* After the last node, one more entry marks the end of its children and of its
\* patterns.  The heads are written first, then the tails.
Closed(trie) ==
  IF trie = EmptyTrie THEN trie
  ELSE [trie EXCEPT !.edge_start = Append(@, Len(trie.edge_bytes)),
                    !.id_start = Append(@, Len(trie.ids))]

Finish ==
  /\ which \in {"heads", "tails"} /\ pending = <<>>
  /\ tries' = [tries EXCEPT ![which] = Closed(@)]
  /\ IF which = "heads" THEN Started("tails")
     ELSE which' = "done" /\ UNCHANGED <<pending, numbered>>
  /\ UNCHANGED patterns

Next == New \/ WriteNode \/ Finish

Spec == Init /\ [][Next]_vars

-----------------------------------------------------------------------------
(* Lookups. *)

\* The patterns under each string that starts the text: the ones tried, until
\* one matches.  A node's edges are searched by their byte.
trie_any(trie, text) ==
  LET Slice(starts, node) == starts[node + 1] + 1 .. starts[node + 2]
      walk[n \in 1 .. Len(text)] ==  \* the node after n bytes, 0 for none
        IF n = 1 THEN IF text[1] \in DOMAIN trie.root THEN trie.root[text[1]] ELSE 0
        ELSE IF walk[n - 1] = 0 THEN 0
        ELSE LET edges == {e \in Slice(trie.edge_start, walk[n - 1]) :
                             trie.edge_bytes[e] = text[n]}
             IN IF edges = {} THEN 0 ELSE trie.edge_nodes[Min(edges)]
      reached == {walk[n] : n \in DOMAIN text} \ {0}
  IN {trie.ids[i] : i \in UNION {Slice(trie.id_start, node) : node \in reached}}

HeadFoundForAll(host, name) ==
  \E id \in trie_any(tries["heads"], lowercase(name)) : glob_matches(patterns[id].glob, name)

\* A tail ends the host, so the pattern is tried on the host and its parents; a
\* head starts the host or the name after a dot, and only that name is tried.
HeadFound(host, name) ==
  \E id \in trie_any(tries["heads"], lowercase(name)) :
    (name = host \/ patterns[id].parents) /\ glob_matches(patterns[id].glob, name)

set_matches(host) ==
  \/ \E id \in trie_any(tries["tails"], Reverse(lowercase(host))) : matches(patterns[id], host)
  \/ \E name \in {host} \cup parents(host) : HeadFound(host, name)
  \/ \E id \in unkeyed : matches(patterns[id], host)

-----------------------------------------------------------------------------
(* Properties. *)

\* An edge has a byte and a node; a node has its start in both arrays.
TypeOK ==
  /\ which \in {"none", "heads", "tails", "done"}
  /\ patterns \in Files
  /\ \A t \in {"heads", "tails"} :
       /\ Len(tries[t].edge_bytes) = Len(tries[t].edge_nodes)
       /\ Len(tries[t].edge_start) = Len(tries[t].id_start)
       /\ ToSet(tries[t].ids) \subseteq Ids

\* The arrays are written in node order without a map per node: the node at the
\* front of the queue is the one whose entry is next in edge_start, and each
\* queued node is the child that the edge with its number leads to, along the
\* byte its run shares (wildcard.rs:226-229).
QueuedInNodeOrder ==
  which \in {"heads", "tails"} =>
    LET trie == tries[which]
        es == entries(which)
    IN \A i \in DOMAIN pending :
         LET node == Len(trie.edge_start) + i - 1
             at == pending[i]
         IN node > 0 =>
              \E e \in DOMAIN trie.edge_nodes :
                /\ trie.edge_nodes[e] = node
                /\ \A j \in at.run[1] .. at.run[2] - 1 : es[j][1][at.depth] = trie.edge_bytes[e]

\* The arrays never outgrow what is allocated for them, one edge for each byte
\* of a string, and the bytes of a node's edges ascend, as the binary search of
\* Trie::any needs (wildcard.rs:214, 236-238).
FitsAndSorted ==
  \A t \in {"heads", "tails"} :
    LET trie == tries[t]
        edges == MapThenSumSet(LAMBDA e : Len(e[1]), filed(t))
    IN /\ Len(trie.edge_bytes) <= edges
       /\ Len(trie.edge_start) <= edges + 2
       /\ Len(trie.ids) <= Cardinality(filed(t))
       /\ \A n \in 1 .. Len(trie.edge_start) - 1 :
            \A e, f \in trie.edge_start[n] + 1 .. trie.edge_start[n + 1] :
              e < f => trie.edge_bytes[e] < trie.edge_bytes[f]

\* The index leaves nothing out and adds nothing: a lookup finds a pattern
\* exactly when trying every pattern in full, on the host and, for ||, on its
\* parents, would (wildcard.rs:8-17); and the arrays it is built from keep
\* their form.
FindsWhatMatches ==
  /\ TypeOK /\ QueuedInNodeOrder /\ FitsAndSorted
  /\ which = "done" =>
       \A host \in Hosts :
         set_matches(host) <=>
           \E id \in Ids : \/ Means(patterns[id].glob, host)
                           \/ /\ patterns[id].parents
                              /\ \E name \in parents(host) : Means(patterns[id].glob, name)
=============================================================================

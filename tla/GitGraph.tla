------------------------------ MODULE GitGraph ------------------------------
(***************************************************************************)
(* The lanes of the commit graph (gitGraph.ts) and what a row draws of them *)
(* (GraphCell.tsx).  The commits come newest first, children before their   *)
(* parents; the list is cut off, so a parent may lie beyond its end.  One   *)
(* step places one commit, whose parents it picks, so that every history of *)
(* GraphSize commits is met.                                                *)
(***************************************************************************)
EXTENDS Naturals, Sequences, Functions

CONSTANTS GraphSize,   \* the commits of the list
          GraphColors, \* GRAPH_COLORS.length
          MaxParents   \* 2 for merges, more for octopus merges

VARIABLES ggParents,  \* the history: per commit the sequence of its parents
          ggLanes,    \* per lane the commit it waits for, 0 for an empty lane
          ggHues,     \* per lane its colour
          ggNext,     \* nextColor
          ggRows      \* the rows computed so far

ggVars == <<ggParents, ggLanes, ggHues, ggNext, ggRows>>

Commits == 1 .. GraphSize
Beyond == GraphSize + 1       \* the commits the list does not reach
\* The parents of commit c: later commits of the list, or ones beyond it.
ParentsOf(c) == {s \in UNION {[1 .. k -> (c + 1) .. Beyond] : k \in 0 .. MaxParents} :
                   IsInjective(s)}

EmptyLane == 0
LaneOf(l, c) == {i \in DOMAIN l : l[i] = c}                            \* findLane
First(S) == CHOOSE i \in S : \A j \in S : i <= j
Free(l) == IF LaneOf(l, EmptyLane) = {} THEN Len(l) + 1 ELSE First(LaneOf(l, EmptyLane))
\* lanes[i] = ..., pushed when the lane is new.
Put(l, i, x) == IF i > Len(l) THEN Append(l, x) ELSE [l EXCEPT ![i] = x]

Line(kind, from, to) == [kind |-> kind, from |-> from, to |-> to]

\* 1. The lanes that wait for the commit end in the leftmost of them.
Claimed(l, c) == IF LaneOf(l, c) = {} THEN Free(l) ELSE First(LaneOf(l, c))
Closed(l, c) == [i \in DOMAIN l |->
                   IF l[i] = c /\ i # Claimed(l, c) THEN EmptyLane ELSE l[i]]
MergeLines(l, c) == {Line("merge-down", i, Claimed(l, c)) : i \in LaneOf(l, c) \ {Claimed(l, c)}}

\* 2. The other lanes pass by.
PassLines(l, c) == {Line("pass", i, i) :
                      i \in {j \in DOMAIN l : l[j] # EmptyLane} \ (LaneOf(l, c) \cup {Claimed(l, c)})}

\* The commit's own lane given up when another lane already waits for its parent.
OwnLaneShared(l, col, ps) ==
    Put(l, col, IF ps = <<>> \/ LaneOf(l, ps[1]) # {} THEN EmptyLane ELSE ps[1])
\* 3. The commit's own lane goes on to its first parent, or ends at a root.
OwnLane(l, col, ps) == Put(l, col, IF ps = <<>> THEN EmptyLane ELSE ps[1])
OwnLines(col, ps) == IF ps = <<>> THEN {} ELSE {Line("pass", col, col)}

\* 4. Every other parent is reached in the lane that waits for it, or in a new one.
Branch(acc, p) ==
    LET i == IF LaneOf(acc.lanes, p) = {} THEN Free(acc.lanes) ELSE First(LaneOf(acc.lanes, p))
        new == LaneOf(acc.lanes, p) = {}
    IN [lanes |-> IF new THEN Put(acc.lanes, i, p) ELSE acc.lanes,
        hues  |-> IF new THEN Put(acc.hues, i, acc.next) ELSE acc.hues,
        next  |-> IF new THEN (acc.next + 1) % GraphColors ELSE acc.next,
        lines |-> acc.lines \cup {Line("branch-up", acc.col, i)},
        col   |-> acc.col]

\* After parents 2 .. k; the first one is in the commit's own lane.
Branches(own, ps) ==
    LET acc[k \in 0 .. Len(ps)] == IF k <= 1 THEN own ELSE Branch(acc[k - 1], ps[k])
    IN acc

\* 5. The empty lanes at the right end are dropped.
Used(l) == {0} \cup {i \in DOMAIN l : l[i] # EmptyLane}
TrimmedTo(l) == CHOOSE n \in Used(l) : \A i \in Used(l) : i <= n

\* One turn of the loop over the commits.
Place(ps) ==
    /\ LET c == Len(ggRows) + 1
           col == Claimed(ggLanes, c)
           isNew == LaneOf(ggLanes, c) = {}
           hue == IF isNew THEN ggNext ELSE ggHues[col]
           own == [lanes |-> OwnLane(Closed(ggLanes, c), col, ps),
                   hues  |-> Put(ggHues, col, hue),
                   next  |-> IF isNew THEN (ggNext + 1) % GraphColors ELSE ggNext,
                   lines |-> MergeLines(ggLanes, c) \cup PassLines(ggLanes, c)
                               \cup OwnLines(col, ps),
                   col   |-> col]
           all == Branches(own, ps)[Len(ps)]
           n == TrimmedTo(all.lanes)
       IN /\ ggLanes' = SubSeq(all.lanes, 1, n)
          /\ ggHues' = SubSeq(all.hues, 1, n)
          /\ ggNext' = all.next
          /\ ggRows' = Append(ggRows, [col |-> col, hue |-> hue, laneCount |-> n,
                                       lines |-> all.lines, isMerge |-> Len(ps) > 1])
    /\ ggParents' = Append(ggParents, ps)

GgInit == /\ ggParents = <<>>
          /\ ggLanes = <<>> /\ ggHues = <<>> /\ ggNext = 0 /\ ggRows = <<>>
GgNext == /\ Len(ggRows) < GraphSize
          /\ \E ps \in ParentsOf(Len(ggRows) + 1) : Place(ps)
GgSpec == GgInit /\ [][GgNext]_ggVars

\* getMaxLanes, which sizes the column of the graph.
MaxLanes(rows) == LET Counts == {1} \cup {rows[i].laneCount : i \in DOMAIN rows}
                  IN CHOOSE n \in Counts : \A m \in Counts : m <= n

\* What GraphCell draws of a row: a line from the commit's dot to the bottom of a
\* column, a line through a column, a line from the top of a column to the dot.
Leaves(row, col) == \/ col = row.col /\ Line("pass", col, col) \in row.lines
                    \/ Line("branch-up", row.col, col) \in row.lines
Crosses(row, col) == col # row.col /\ Line("pass", col, col) \in row.lines
Arrives(row, col) == \/ col = row.col /\ Line("pass", col, col) \in row.lines
                     \/ Line("merge-down", col, row.col) \in row.lines

(***************************************************************************)
(* Properties                                                              *)
(***************************************************************************)
\* The variables hold values of their types.
GgTypeOK ==
    /\ \A c \in DOMAIN ggParents : c \in Commits /\ ggParents[c] \in ParentsOf(c)
    /\ ggLanes \in Seq(1 .. Beyond \cup {EmptyLane})
    /\ ggHues \in Seq(0 .. GraphColors - 1) /\ Len(ggHues) = Len(ggLanes)
    /\ ggNext \in 0 .. GraphColors - 1
    /\ \A i \in DOMAIN ggRows :
         /\ ggRows[i].col \in Nat \ {0} /\ ggRows[i].laneCount \in Nat
         /\ ggRows[i].lines \subseteq [kind : {"pass", "merge-down", "branch-up"}, from : Nat, to : Nat]

Joined(i, j) == \E col \in 1 .. MaxLanes(ggRows) :
                  /\ Leaves(ggRows[i], col)
                  /\ \A k \in i + 1 .. j - 1 : Crosses(ggRows[k], col)
                  /\ Arrives(ggRows[j], col)
Reaches(i, j) == \E k \in DOMAIN ggParents[i] : ggParents[i][k] = j

\* Every parent that is on the list, and is not itself the beginning of a
\* history, is joined to its child by a line without a gap, in one column through
\* the rows between them ("which column each commit occupies and what lines to
\* draw", gitGraph.ts), and one that the graph is wide enough to show.
\* The width of the graph, set by the rows' lanes, holds every line.
EdgesAreDrawn ==
    /\ \A i, j \in DOMAIN ggRows : (Reaches(i, j) /\ ggParents[j] # <<>>) => Joined(i, j)
    /\ \A i \in DOMAIN ggRows : \A l \in ggRows[i].lines :
         l.from <= MaxLanes(ggRows) /\ l.to <= MaxLanes(ggRows)
=============================================================================

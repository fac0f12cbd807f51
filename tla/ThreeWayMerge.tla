---------------------------- MODULE ThreeWayMerge ----------------------------
(****************************************************************************)
(* The line-based three-way merge that refreshing an environment template   *)
(* uses (packages/environment-templates/src/threeWayMerge.ts): the longest  *)
(* common subsequence of the base and each side gives the hunks of that     *)
(* side, hunks that do not meet are applied in the order of the base, and   *)
(* hunks that meet must replace their common region by the same lines.      *)
(*                                                                          *)
(* A text is its sequence of lines and whether it ends with a newline.      *)
(* Positions are the code's: a hunk [start, end) lies between the lines     *)
(* start and end + 1 of the base.                                           *)
(****************************************************************************)
EXTENDS Integers, Sequences, FiniteSetsExt

Text(lines, nl) == [lines |-> lines, nl |-> nl]

\* dp of lcsTable: dp[i, j] is the length of a longest common subsequence of
\* the first i lines of a and the first j lines of b.
LcsTable(a, b) ==
  LET dp[i \in 0..Len(a), j \in 0..Len(b)] ==
        IF i = 0 \/ j = 0 THEN 0
        ELSE IF a[i] = b[j] THEN dp[i - 1, j - 1] + 1
        ELSE Max({dp[i - 1, j], dp[i, j - 1]})
  IN dp

\* One pass of the walk from the end of both texts: it collects the pairs of equal
\* lines, and when both directions keep the length it drops the base line first.
WalkBack(base, side, dp, w) ==
  IF w.i = 0 \/ w.j = 0 THEN w
  ELSE IF base[w.i] = side[w.j]
  THEN [i |-> w.i - 1, j |-> w.j - 1, equals |-> <<<<w.i, w.j>>>> \o w.equals]
  ELSE IF dp[w.i - 1, w.j] >= dp[w.i, w.j - 1] THEN [w EXCEPT !.i = @ - 1]
  ELSE [w EXCEPT !.j = @ - 1]

Equals(base, side) ==
  LET dp == LcsTable(base, side)
      walk[n \in 0..(Len(base) + Len(side))] ==
        IF n = 0 THEN [i |-> Len(base), j |-> Len(side), equals |-> << >>]
        ELSE WalkBack(base, side, dp, walk[n - 1])
  IN walk[Len(base) + Len(side)].equals

\* What lies between the pairs k and k + 1, unless it is empty on both sides.
Gap(side, eq, k) == [start |-> eq[k][1], end |-> eq[k + 1][1] - 1,
                     lines |-> SubSeq(side, eq[k][2] + 1, eq[k + 1][2] - 1)]
Changes(hunk) == hunk.start < hunk.end \/ hunk.lines # << >>
HunksBetween(side, eq) ==
  LET hunks[k \in 0..(Len(eq) - 1)] ==
        IF k = 0 THEN << >>
        ELSE IF Changes(Gap(side, eq, k)) THEN Append(hunks[k - 1], Gap(side, eq, k))
        ELSE hunks[k - 1]
  IN hunks[Len(eq) - 1]

\* Mutant: hunksFrom without the hunk after the last equal pair.
HunksUpToLastPair(base, side) == HunksBetween(side, <<<<0, 0>>>> \o Equals(base, side))

\* hunksFrom: what lies between two neighbouring pairs, and before the first
\* and after the last one.
HunksFrom(base, side) ==
  HunksBetween(side, <<<<0, 0>>>> \o Equals(base, side)
                       \o <<<<Len(base) + 1, Len(side) + 1>>>>)

\* Mutant: takeReplacement forgets to move its cursor past a hunk.
TakeKeepingRemoved(hunks, base, start, end) ==
  LET out[k \in 0..Len(hunks)] ==
        IF k = 0 THEN << >> ELSE out[k - 1] \o hunks[k].lines
  IN out[Len(hunks)] \o SubSeq(base, start + 1, end)

\* The lines start + 1 .. end of the base with the hunks applied.
TakeReplacement(hunks, base, start, end) ==
  LET out[k \in 0..Len(hunks)] ==
        IF k = 0 THEN << >>
        ELSE LET cursor == IF k = 1 THEN start ELSE hunks[k - 1].end
             IN out[k - 1] \o SubSeq(base, cursor + 1, hunks[k].start) \o hunks[k].lines
      last == IF hunks = << >> THEN start ELSE hunks[Len(hunks)].end
  IN out[Len(hunks)] \o SubSeq(base, last + 1, end)

\* The first hunk from `from` on that starts at `end` or behind it, and where the hunks
\* before it end.
Past(hunks, from, end) ==
  Min({k \in from..(Len(hunks) + 1) : k > Len(hunks) \/ hunks[k].start >= end})
EndOf(hunks, from, to, end) == Max({end} \cup {hunks[k].end : k \in from..(to - 1)})

\* The region two meeting hunks share grows until no hunk of either side starts
\* inside it; oi and tj are the first hunks it leaves out.
GrowRegion(ours, theirs, r) ==
  LET oi == Past(ours, r.oi, r.end)
      end == EndOf(ours, r.oi, oi, r.end)
      tj == Past(theirs, r.tj, end)
  IN [r EXCEPT !.oi = oi, !.tj = tj, !.end = EndOf(theirs, r.tj, tj, end)]

Region(ours, theirs, i, j) ==
  LET grow[n \in 0..(Len(ours) + Len(theirs))] ==
        IF n = 0
        THEN [oi |-> i, tj |-> j, start |-> Min({ours[i].start, theirs[j].start}),
              end |-> Max({ours[i].end, theirs[j].end})]
        ELSE GrowRegion(ours, theirs, grow[n - 1])
  IN grow[Len(ours) + Len(theirs)]

Conflict == [ok |-> FALSE, lines |-> << >>]

\* One pass of mergeHunks: s.i and s.j are the next hunks, the base was copied up to
\* s.pos.  A hunk that ends before the other one begins is applied, hunks that meet
\* must agree.
MergePass(base, ours, theirs, s) ==
  LET a == ours[s.i]
      b == theirs[s.j]
      Precedes(h, more, other) == ~more \/ h.end <= other.start
      Copied(upTo, lines) == s.lines \o SubSeq(base, s.pos + 1, upTo) \o lines
      r == Region(ours, theirs, s.i, s.j)
      Slice(hunks, from, to) == TakeReplacement(SubSeq(hunks, from, to - 1), base, r.start, r.end)
      slice == Slice(ours, s.i, r.oi)
  IN IF ~s.ok \/ (s.i > Len(ours) /\ s.j > Len(theirs)) THEN s
     ELSE IF s.i <= Len(ours) /\ Precedes(a, s.j <= Len(theirs), b)
     THEN [s EXCEPT !.i = @ + 1, !.pos = a.end, !.lines = Copied(a.start, a.lines)]
     ELSE IF s.j <= Len(theirs) /\ Precedes(b, s.i <= Len(ours), a)
     THEN [s EXCEPT !.j = @ + 1, !.pos = b.end, !.lines = Copied(b.start, b.lines)]
     ELSE IF slice = Slice(theirs, s.j, r.tj)
     THEN [s EXCEPT !.i = r.oi, !.j = r.tj, !.pos = r.end, !.lines = Copied(r.start, slice)]
     ELSE [s EXCEPT !.ok = FALSE]

MergeHunks(base, ours, theirs) ==
  LET merge[n \in 0..(Len(ours) + Len(theirs))] ==
        IF n = 0 THEN [ok |-> TRUE, i |-> 1, j |-> 1, pos |-> 0, lines |-> << >>]
        ELSE MergePass(base, ours, theirs, merge[n - 1])
      m == merge[Len(ours) + Len(theirs)]
  IN IF m.ok THEN [ok |-> TRUE, lines |-> m.lines \o SubSeq(base, m.pos + 1, Len(base))]
     ELSE Conflict

\* threeWayMerge: a side that did not change gives way to the other one;
\* otherwise the hunks are merged and a newline at the end of any of the three
\* texts ends the result.
Merge(base, ours, theirs) ==
  LET Ended(m) == [ok |-> m.ok, text |-> Text(m.lines, m.ok /\ (base.nl \/ ours.nl \/ theirs.nl))]
  IN IF ours = theirs \/ theirs = base THEN [ok |-> TRUE, text |-> ours]
     ELSE IF ours = base THEN [ok |-> TRUE, text |-> theirs]
     ELSE Ended(MergeHunks(base.lines, HunksFrom(base.lines, ours.lines),
                           HunksFrom(base.lines, theirs.lines)))
=============================================================================

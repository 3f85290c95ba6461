------------------------------ MODULE Slicing ------------------------------
(***************************************************************************)
(* What am-slicer computes: the cross-sections of a triangulated boundary  *)
(* at equally spaced heights (slicer.cpp) and the toolpath that fills them *)
(* (am_slicer.cpp).  Coordinates are integers and the tolerances zero, so  *)
(* two points weld when they are equal; the meshes given to these          *)
(* operators have crossings with integer coordinates.  A point of a slice  *)
(* is <<u, v>>, a segment <<a, b>>.                                        *)
(***************************************************************************)
EXTENDS Facets

Abs(n) == IF n < 0 THEN -n ELSE n

-----------------------------------------------------------------------------
\* slicer.cpp

\* The in-plane axes: the coordinate axis least aligned with w, and w x u.
\* The build directions are unit vectors along an axis.
build_frame(w) ==
    LET seed == CHOOSE i \in 1..3 :
            \A j \in 1..3 : Abs(w[i]) < Abs(w[j]) \/ (Abs(w[i]) = Abs(w[j]) /\ i <= j)
        u == [k \in 1..3 |-> IF k = seed THEN 1 ELSE 0]
    IN [u |-> u, v |-> cross(w, u), w |-> w]

Projected(mesh, frame) ==
    [mesh EXCEPT !.coords = [i \in DOMAIN mesh.coords |->
        <<dot(mesh.coords[i], frame.u), dot(mesh.coords[i], frame.v), dot(mesh.coords[i], frame.w)>>]]

Lowest(mesh, k) == CHOOSE x \in {mesh.coords[i][k] : i \in DOMAIN mesh.coords} :
    \A i \in DOMAIN mesh.coords : x <= mesh.coords[i][k]

Highest(mesh, k) == CHOOSE x \in {mesh.coords[i][k] : i \in DOMAIN mesh.coords} :
    \A i \in DOMAIN mesh.coords : x >= mesh.coords[i][k]

\* The vertices in the plane, then the edges it crosses, each point once.  Three
\* vertices in the plane make no segment, nor does a single point.
intersect_triangle(t, h) ==
    LET d == [i \in 1..3 |-> t[i][3] - h]
        zero == SelectSeq(<<1, 2, 3>>, LAMBDA i : d[i] = 0)
        next(i) == (i % 3) + 1
        cut == SelectSeq(<<1, 2, 3>>, LAMBDA i : d[i] * d[next(i)] < 0)
        at(i, k) == IF d[i] > 0
                    THEN t[i][k] + (d[i] * (t[next(i)][k] - t[i][k])) \div (d[i] - d[next(i)])
                    ELSE t[i][k] + (d[i] * (t[i][k] - t[next(i)][k])) \div (d[next(i)] - d[i])
        candidates == [j \in DOMAIN zero |-> <<t[zero[j]][1], t[zero[j]][2]>>]
            \o [j \in DOMAIN cut |-> <<at(cut[j], 1), at(cut[j], 2)>>]
        firsts == SelectSeq([i \in DOMAIN candidates |-> i],
                            LAMBDA i : \A j \in 1..(i - 1) : candidates[j] # candidates[i])
    IN IF Len(zero) = 3 THEN <<>> ELSE [j \in DOMAIN firsts |-> candidates[firsts[j]]]

\* Zero-length and repeated segments are dropped.
Distinct(raw) ==
    LET firsts == SelectSeq([i \in DOMAIN raw |-> i], LAMBDA i :
            /\ raw[i][1] # raw[i][2]
            /\ \A j \in 1..(i - 1) : ToSet(raw[j]) # ToSet(raw[i]))
    IN [j \in DOMAIN firsts |-> raw[firsts[j]]]

\* The lowest unused segment at a point, and its other end.
Incident(segs, used, p) == {s \in (DOMAIN segs) \ used : p \in ToSet(segs[s])}

pick(segs, used, p) ==
    CHOOSE s \in Incident(segs, used, p) : \A q \in Incident(segs, used, p) : s <= q

other(segs, s, p) == IF segs[s][1] = p THEN segs[s][2] ELSE segs[s][1]

\* The walk from the back of the chain, until it meets the front or ends.
RECURSIVE Forward(_, _, _)
Forward(segs, used, chain) ==
    LET cur == Last(chain) IN
    IF cur = Head(chain) THEN [used |-> used, chain |-> Front(chain), closed |-> TRUE]
    ELSE IF Incident(segs, used, cur) = {} THEN [used |-> used, chain |-> chain, closed |-> FALSE]
    ELSE LET s == pick(segs, used, cur)
         IN Forward(segs, used \cup {s}, Append(chain, other(segs, s, cur)))

\* Then, from an open chain's front.
RECURSIVE Backward(_, _)
Backward(segs, c) ==
    LET cur == Head(c.chain) IN
    IF c.closed \/ Incident(segs, c.used, cur) = {} THEN c
    ELSE LET s == pick(segs, c.used, cur)
             o == other(segs, s, cur)
             used == c.used \cup {s}
         IN IF o = Last(c.chain) THEN [c EXCEPT !.used = used, !.closed = TRUE]
            ELSE Backward(segs, [c EXCEPT !.used = used, !.chain = <<o>> \o c.chain])

\* The chains in the order of their first segments; a closed chain of two
\* points is dropped.
RECURSIVE Chains(_, _)
Chains(segs, used) ==
    LET free == (DOMAIN segs) \ used IN
    IF free = {} THEN <<>>
    ELSE LET s0 == CHOOSE s \in free : \A q \in free : s <= q
             c == Backward(segs, Forward(segs, used \cup {s0}, segs[s0]))
             keep == IF c.closed /\ Len(c.chain) < 3 THEN <<>>
                     ELSE <<[points |-> c.chain, closed |-> c.closed]>>
         IN keep \o Chains(segs, c.used)

\* Twice the signed area.
shoelace(pts) ==
    LET n == Len(pts)
        term(i) == pts[i][1] * pts[(i % n) + 1][2] - pts[(i % n) + 1][1] * pts[i][2]
        sum[i \in 0..n] == IF i = 0 THEN 0 ELSE sum[i - 1] + term(i)
    IN sum[n]

\* Even-odd, half open in v: an edge from a to b is crossed to the right of q.
point_in_ring(q, ring) ==
    LET n == Len(ring)
        crosses(i) ==
            LET a == ring[i]
                b == ring[IF i = 1 THEN n ELSE i - 1]
                dv == b[2] - a[2]
                gap == (q[1] - a[1]) * dv - (b[1] - a[1]) * (q[2] - a[2])
            IN (a[2] > q[2]) # (b[2] > q[2]) /\ (IF dv > 0 THEN gap < 0 ELSE gap > 0)
    IN Cardinality({i \in 1..n : crosses(i)}) % 2 = 1

\* Mutant: a contour inside any other is a hole.
IsHole_AnyDepth(contours, i) ==
    \E j \in DOMAIN contours :
        j # i /\ contours[j].closed /\ point_in_ring(contours[i].points[1], contours[j].points)

IsHole(contours, i) ==
    Cardinality({j \in DOMAIN contours :
        /\ j # i /\ contours[j].closed
        /\ point_in_ring(contours[i].points[1], contours[j].points)}) % 2 = 1

\* Outlines counter-clockwise, holes clockwise.
Oriented(c, hole) ==
    IF hole = (shoelace(c.points) > 0) THEN Reverse(c.points) ELSE c.points

Below(p, q) == p[2] < q[2] \/ (p[2] = q[2] /\ p[1] < q[1])

LowestOf(pts) == CHOOSE i \in DOMAIN pts :
    /\ \A j \in DOMAIN pts : ~Below(pts[j], pts[i])
    /\ \A j \in 1..(i - 1) : pts[j] # pts[i]

Rotated(pts) == LET k == LowestOf(pts) IN SubSeq(pts, k, Len(pts)) \o SubSeq(pts, 1, k - 1)

\* By lowest point, then number of points, then the points in turn.
ContourLess(a, b) ==
    LET la == a.points[LowestOf(a.points)]
        lb == b.points[LowestOf(b.points)]
        differ == {i \in DOMAIN a.points : a.points[i] # b.points[i]}
        first == CHOOSE i \in differ : \A j \in differ : i <= j
    IN IF la # lb THEN Below(la, lb)
       ELSE IF Len(a.points) # Len(b.points) THEN Len(a.points) < Len(b.points)
       ELSE IF differ # {} THEN Below(a.points[first], b.points[first])
       ELSE ~a.closed /\ b.closed

Contour(c, hole) ==
    IF c.closed THEN [points |-> Rotated(Oriented(c, hole)), closed |-> TRUE, hole |-> hole]
    ELSE [points |-> c.points, closed |-> FALSE, hole |-> FALSE]

\* Welds, chains, classifies, orients and orders.
chain_layer(raw) ==
    LET chains == Chains(Distinct(raw), {})
    IN SortSeq([i \in DOMAIN chains |-> Contour(chains[i], IsHole(chains, i))], ContourLess)

\* The sweep: triangles join the active list in (lowest height, index) order and
\* leave it when the plane has passed them.  The result is, per plane, the list
\* the plane is intersected with.
SweepOrder(tris) ==
    LET lo(i) == CHOOSE x \in {tris[i][k][3] : k \in 1..3} : \A k \in 1..3 : x <= tris[i][k][3]
        key == [i \in DOMAIN tris |-> lo(i)]
    IN SortSeq([i \in DOMAIN tris |-> [index |-> i, lo |-> key[i]]],
               LAMBDA a, b : a.lo < b.lo \/ (a.lo = b.lo /\ a.index < b.index))

Above(tris, i, h) == \E k \in 1..3 : tris[i][k][3] >= h

\* Mutant: a triangle that starts in the plane waits for the next one.
Enters_Late(order, cursor, h) == SelectSeq(SubSeq(order, cursor, Len(order)), LAMBDA o : o.lo < h)

Enters(order, cursor, h) == SelectSeq(SubSeq(order, cursor, Len(order)), LAMBDA o : o.lo <= h)

ActiveLists(tris, h0, dh, n) ==
    LET order == SweepOrder(tris)
        sweep[k \in 0..n] ==
            IF k = 0 THEN [cursor |-> 1, active |-> <<>>]
            ELSE LET before == sweep[k - 1]
                     h == h0 + (k - 1) * dh
                     entering == Enters(order, before.cursor, h)
                     joined == before.active \o [j \in DOMAIN entering |-> entering[j].index]
                 IN [cursor |-> before.cursor + Len(entering),
                     active |-> SelectSeq(joined, LAMBDA i : Above(tris, i, h))]
    IN [k \in 1..n |-> sweep[k].active]

Segments(tris, active, h) ==
    SelectSeq([i \in DOMAIN active |-> intersect_triangle(tris[active[i]], h)],
              LAMBDA s : Len(s) = 2)

slice_uniform(tris, h0, dh, n) ==
    LET lists == ActiveLists(tris, h0, dh, n) IN
    [k \in 1..n |-> chain_layer(Segments(tris, lists[k], h0 + (k - 1) * dh))]

-----------------------------------------------------------------------------
\* am_slicer.cpp

\* Planes at mid-height, as many as cover the part, one at least, at most `max`.
\* Layer heights are even.
plan_layers(lo, hi, height, max) ==
    LET raw == (hi - lo + height - 1) \div height
        n == IF raw < 1 THEN 1 ELSE raw
    IN [h0 |-> lo + height \div 2, dh |-> height,
        count |-> IF n > max THEN max ELSE n, truncated |-> n > max]

\* writer.am.cli refuses a plan with more layers than this.
kMaxCliLayers == 100000

\* The edges of the closed contours in order, as seen along the scan direction
\* d: across first, then along.  Lengths are scaled by |d|.
Across(d, p) == d[1] * p[2] - d[2] * p[1]

Along(d, p) == d[1] * p[1] + d[2] * p[2]

ClosedEdges(contours, d) ==
    LET closed == SelectSeq(contours, LAMBDA c : c.closed)
        seen(p) == [s |-> Across(d, p), c |-> Along(d, p)]
        edges(pts) == [i \in DOMAIN pts |-> <<seen(pts[i]), seen(pts[(i % Len(pts)) + 1])>>]
    IN FlattenSeq([i \in DOMAIN closed |-> edges(closed[i].points)])

\* Mutant: on both.
Hit_Closed(e, s) == e[1].s # e[2].s /\ ((e[1].s <= s /\ s <= e[2].s) \/ (e[2].s <= s /\ s <= e[1].s))

\* An edge counts on the lower of its two ends, not on the upper.
Hit(e, s) == (e[1].s <= s /\ s < e[2].s) \/ (e[2].s <= s /\ s < e[1].s)

CrossingAt(e, s) ==
    IF e[2].s > e[1].s
    THEN e[1].c + ((s - e[1].s) * (e[2].c - e[1].c)) \div (e[2].s - e[1].s)
    ELSE e[1].c + ((e[1].s - s) * (e[2].c - e[1].c)) \div (e[1].s - e[2].s)

Crossings(edges, s) ==
    LET hits == SelectSeq(edges, LAMBDA e : Hit(e, s)) IN
    SortSeq([i \in DOMAIN hits |-> CrossingAt(hits[i], s)], <)

\* Between the first crossing and the second, the third and the fourth, ...
InsidePieces(cs) ==
    SelectSeq([i \in 1..(Len(cs) \div 2) |-> <<cs[2 * i - 1], cs[2 * i]>>], LAMBDA p : p[1] < p[2])

\* The pieces of the lattice lines, every other line reversed.
build_infill(contours, d, spacing) ==
    LET edges == ClosedEdges(contours, d)
        ss == {edges[i][1].s : i \in DOMAIN edges}
        smin == CHOOSE x \in ss : \A y \in ss : x <= y
        smax == CHOOSE x \in ss : \A y \in ss : x >= y
        k0 == -((-smin) \div spacing)
        k1 == smax \div spacing
        q == d[1] * d[1] + d[2] * d[2]
        at(c, s) == <<(c * d[1] - s * d[2]) \div q, (c * d[2] + s * d[1]) \div q>>
        line(j) ==
            LET s == (k0 + j - 1) * spacing
                pieces == InsidePieces(Crossings(edges, s))
            IN [i \in DOMAIN pieces |->
                    LET ends == <<at(pieces[i][1], s), at(pieces[i][2], s)>> IN
                    IF j % 2 = 1 THEN ends ELSE Reverse(ends)]
    IN IF edges = <<>> \/ k1 < k0 THEN <<>> ELSE FlattenSeq([j \in 1..(k1 - k0 + 1) |-> line(j)])

-----------------------------------------------------------------------------
\* The toolpath.  A command moves the head, the extruder or both; `feed` is the
\* feedrate it spells out, "same" when the last one still holds.  Amounts of
\* filament count the extruding moves.

Command(g, out) == [g EXCEPT !.out = Append(g.out, out)]

feed(g, f) == IF f = g.last_feed THEN "same" ELSE f

Moved(g, x, e, f, kind) ==
    [Command(g, [kind |-> kind, to |-> x, e |-> e, feed |-> feed(g, f)]) EXCEPT !.last_feed = f]

\* Mutant: the feedrate of a retraction is not remembered.
retract_ForgetsFeed(g) ==
    IF g.retract = 0 \/ ~g.primed THEN g
    ELSE Command(g, [kind |-> "retract", to |-> "none", e |-> g.e - g.retract, feed |-> "retract"])

retract(g) ==
    IF g.retract = 0 \/ ~g.primed THEN g ELSE Moved(g, "none", g.e - g.retract, "retract", "retract")

prime(g) ==
    IF g.retract = 0 \/ ~g.primed THEN g ELSE Moved(g, "none", g.e, "retract", "prime")

travel_to(g, p) ==
    IF p = g.at THEN g
    ELSE LET r == retract(g)
             t == Moved(r, p, "none", "travel", "travel")
         IN [prime(t) EXCEPT !.at = p]

extrude_to(g, p) ==
    IF p = g.at THEN g
    ELSE [Moved(g, p, g.e + 1, "print", "extrude") EXCEPT !.e = g.e + 1, !.at = p, !.primed = TRUE]

\* G1 Z: the head goes up to layer k.
raise(g, k) == Moved(g, k, "none", "travel", "raise")

\* What is asked of the head, in order: each contour from its first point round,
\* a closed one back to it;
Perimeters(contours) ==
    LET back(c) == IF c.closed THEN <<c.points[1]>> ELSE <<>>
        print(c) == [i \in 1..Len(Tail(c.points) \o back(c)) |->
                        [do |-> "extrude", to |-> (Tail(c.points) \o back(c))[i]]]
    IN FlattenSeq([i \in DOMAIN contours |->
                      <<[do |-> "travel", to |-> contours[i].points[1]]>> \o print(contours[i])])

\* then each line of the infill.
Infill(lines) ==
    FlattenSeq([i \in DOMAIN lines |->
        <<[do |-> "travel", to |-> lines[i][1]], [do |-> "extrude", to |-> lines[i][2]]>>])

\* The scan direction is mirrored on every other layer; an empty layer is skipped.
LayerMoves(contours, k, d, spacing) ==
    IF contours = <<>> THEN <<>>
    ELSE <<[do |-> "raise", to |-> k]>> \o Perimeters(contours)
            \o (IF spacing = 0 THEN <<>>
                 ELSE Infill(build_infill(contours, IF k % 2 = 1 THEN d ELSE <<d[1], -d[2]>>, spacing)))

Moving(start, moves) ==
    LET after[i \in 0..Len(moves)] ==
            IF i = 0 THEN start
            ELSE CASE moves[i].do = "raise" -> raise(after[i - 1], moves[i].to)
                   [] moves[i].do = "travel" -> travel_to(after[i - 1], moves[i].to)
                   [] moves[i].do = "extrude" -> extrude_to(after[i - 1], moves[i].to)
    IN after[Len(moves)]

\* The head starts over the lower corner of the part, where the file has its
\* origin.
Toolpath(layers, corner, d, spacing, retraction) ==
    LET start == [out |-> <<>>, at |-> corner, e |-> 0, primed |-> FALSE, last_feed |-> "none",
                  retract |-> retraction]
        moves == [k \in DOMAIN layers |-> LayerMoves(layers[k], k, d, spacing)]
    IN retract(Moving(start, FlattenSeq(moves))).out

\* One polyline per contour: 1 an outline, 0 a hole, 2 an open line; a closed
\* one repeats its first point.
Polylines(contours) ==
    [i \in DOMAIN contours |->
        [dir |-> IF ~contours[i].closed THEN 2 ELSE IF contours[i].hole THEN 0 ELSE 1,
         points |-> IF contours[i].closed THEN Append(contours[i].points, contours[i].points[1])
                    ELSE contours[i].points]]
=============================================================================

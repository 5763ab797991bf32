----------------------------- MODULE DeppartOps -----------------------------
(***************************************************************************)
(* The dependent-partitioning operators of the Partitioning Engine         *)
(* (spec.md 4.3, "Partitioning operators").  The engine itself is not in   *)
(* this repository's src/, so these are modelled from the spec: each      *)
(* operator is the set it denotes.  A list of subspaces is a function     *)
(* from colors (or piece numbers) to sets of points.                       *)
(***************************************************************************)
EXTENDS Integers, FiniteSets

\* by_field: for each color, the points of dom whose field value is it.
ByField(field, dom, colors) == [c \in colors |-> {x \in dom : field[x] = c}]

\* by_preimage: for each target subset, the points of dom whose field
\* value lies in it.
ByPreimage(field, dom, targets) ==
    [p \in DOMAIN targets |-> {x \in dom : field[x] \in targets[p]}]

\* by_image: for each source subset, its field values inside the parent.
ByImage(field, parent, sources) ==
    [p \in DOMAIN sources |-> {field[x] : x \in sources[p]} \cap parent]

\* compute_differences / compute_intersections: piecewise set algebra,
\* against a list or against a single space.
Differences(a, b) == [p \in DOMAIN a |-> a[p] \ b[p]]
Intersections(a, s) == [p \in DOMAIN a |-> a[p] \cap s]

\* compute_union of a list of subspaces.
UnionOf(a) == UNION {a[p] : p \in DOMAIN a}

\* The sum of the first i weights w[0], ..., w[i-1].
RECURSIVE WeightPrefix(_, _)
WeightPrefix(w, i) == IF i = 0 THEN 0 ELSE WeightPrefix(w, i - 1) + w[i - 1]

\* create_weighted_subspaces(n, 1, w) of a space starting at lo: piece i
\* is the next w[i] points, in order.
WeightedSubspaces(lo, w, n) ==
    [i \in 0..n-1 |-> (lo + WeightPrefix(w, i))..(lo + WeightPrefix(w, i + 1) - 1)]
=============================================================================

------------------------------- MODULE Values -------------------------------
(***************************************************************************)
(* The values of one chart: layers merged one over the other, and for every *)
(* path the layer that set it.                                              *)
(*                                                                          *)
(* A document is a record: a scalar, a null, a map by keys, or a list.  A   *)
(* path is the sequence of its steps, into a map or to a list's element of  *)
(* a name.  The code joins them into one string, with "." and "[", which     *)
(* says the same as long as no key holds either of them.                    *)
(***************************************************************************)
EXTENDS Naturals, Sequences, SequencesExt, TLC

CONSTANTS
  Key,       \* the keys of maps
  Profile,   \* the profiles that may be selected
  Maps(_),   \* Maps(l): the maps a layer l may have for its values
  MaxLayers  \* bound on the layers of a chart

ASSUME ValuesAssumption ==
  /\ "name" \in Key
  /\ {"base", "sticky"} \cap Profile = {}
  /\ MaxLayers \in Nat \ {0}

VARIABLES
  layers,  \* the layers so far, and their maps
  merged,  \* out: the values, a function of keys
  prov     \* the provenance: a function of paths

valuesVars == <<layers, merged, prov>>

Scalar(s) == [is |-> "scalar", says |-> s]
Null == [is |-> "null"]
Map(f) == [is |-> "map", keys |-> f]
List(s) == [is |-> "list", els |-> s]

Absent == [is |-> "absent"]

Get(f, k) == IF k \in DOMAIN f THEN f[k] ELSE Absent

Without(f, ks) == [k \in DOMAIN f \ ks |-> f[k]]

(* A step into a map, and one to a list's element. *)
Into(k) == <<".", k>>
Of(n) == <<"[", n>>

-----------------------------------------------------------------------------
(* Merge. *)

NameOf(e) == IF e.is = "map" THEN Get(e.keys, "name") ELSE Absent

(* namedList. *)
Named(v) ==
  /\ v.is = "list" /\ v.els # <<>>
  /\ \A i \in DOMAIN v.els :
       /\ NameOf(v.els[i]).is = "scalar"
       /\ \A j \in 1 .. i - 1 : NameOf(v.els[j]) # NameOf(v.els[i])

(* Mutant of ByName: Helm's own rule, by which every list replaces. *)
MutByName(cur, v) == FALSE

(* A list is merged by the names of its elements. *)
ByName(cur, v) == Named(v) /\ (cur.is # "list" \/ Named(cur))

(* Mutant of Cut: what is below the path keeps its entries. *)
MutCut(pr, p) == Without(pr, {p})

(* deleteProvSubtree. *)
Cut(pr, p) == Without(pr, {q \in DOMAIN pr : IsPrefix(p, q)})

RECURSIVE MergeMap(_, _, _)

(* mergeNamed: the element of each name is merged into its namesake, or into a
   new one at the end. *)
MergeNamed(acc, els, at) ==
  FoldLeft(
    LAMBDA a, e :
      LET n == NameOf(e).says
          same == {i \in DOMAIN a.val : NameOf(a.val[i]).says = n}
          i == IF same = {} THEN Len(a.val) + 1 ELSE CHOOSE j \in same : TRUE
          m == MergeMap([val |-> IF same = {} THEN <<>> ELSE a.val[i].keys,
                         prov |-> a.prov],
                        e.keys, [at EXCEPT !.path = Append(@, Of(n))])
      IN [val |-> [j \in 1 .. Len(a.val) \cup {i} |->
                     IF j = i THEN Map(m.val) ELSE a.val[j]],
          prov |-> m.prov],
    acc, els)

(* mergeMap, for the value v of one key.  acc is what is merged so far, values
   and provenance; at is the path of the map, and the layer v comes from. *)
MergeKey(acc, k, v, at) ==
  LET here == [at EXCEPT !.path = Append(@, Into(k))]
      cur == Get(acc.val, k)
      cut == Cut(acc.prov, here.path)
      Held(is) == cur.is = is
      With(w, pr) == [val |-> k :> w @@ acc.val, prov |-> pr]
  IN
  CASE v.is = "null" -> [val |-> Without(acc.val, {k}), prov |-> cut]
    [] v.is = "map" ->
         LET m == MergeMap(IF Held("map") THEN [val |-> cur.keys, prov |-> acc.prov]
                           ELSE [val |-> <<>>, prov |-> cut], v.keys, here)
         IN With(Map(m.val), m.prov)
    [] v.is = "list" /\ ByName(cur, v) ->
         LET m == MergeNamed(IF Held("list") THEN [val |-> cur.els, prov |-> acc.prov]
                             ELSE [val |-> <<>>, prov |-> cut], v.els, here)
         IN With(List(m.val), m.prov)
    [] OTHER -> With(v, here.path :> at.layer @@ cut)

(* mergeMap of the map src into acc.  The keys come in any order, which is of
   no consequence: no key's path is a prefix of another's. *)
MergeMap(acc, src, at) ==
  FoldLeft(LAMBDA a, k : MergeKey(a, k, src[k], at), acc, SetToSeq(DOMAIN src))

-----------------------------------------------------------------------------
(* composeChart. *)

ValuesInit ==
  /\ layers = <<>>
  /\ merged = <<>>
  /\ prov = <<>>

Merge(l, f) ==
  LET m == MergeMap([val |-> merged, prov |-> prov], f, [path |-> <<>>, layer |-> l])
  IN
  /\ Len(layers) < MaxLayers
  /\ layers' = Append(layers, [name |-> l, map |-> f])
  /\ merged' = m.val
  /\ prov' = m.prov

(* rooket's generated values. *)
Base == layers = <<>> /\ \E f \in Maps("base") : Merge("base", f)

(* The values file of the configuration home, if there is one. *)
Sticky == Len(layers) = 1 /\ \E f \in Maps("sticky") : Merge("sticky", f)

(* The next of the selected profiles; one may be selected more than once, with
   --with and in the sticky list, and has the same values each time. *)
Selected(p) ==
  /\ layers # <<>>
  /\ \E f \in Maps(p) :
       /\ \A i \in DOMAIN layers : layers[i].name = p => layers[i].map = f
       /\ Merge(p, f)

(* The merged values are returned; the next chart's begin from nothing. *)
Return ==
  /\ layers # <<>>
  /\ layers' = <<>> /\ merged' = <<>> /\ prov' = <<>>

ValuesNext == Base \/ Sticky \/ (\E p \in Profile : Selected(p)) \/ Return

ValuesSpec == ValuesInit /\ [][ValuesNext]_valuesVars

-----------------------------------------------------------------------------
(* The same by paths.  A scalar, and a list whose elements have no names, is
   the end of its path. *)
RECURSIVE Points(_, _)
Points(v, p) ==
  {[path |-> p, val |-> v]} \cup
  CASE v.is = "map" -> UNION {Points(v.keys[k], Append(p, Into(k))) : k \in DOMAIN v.keys}
    [] Named(v) -> UNION {Points(v.els[i], Append(p, Of(NameOf(v.els[i]).says))) :
                            i \in DOMAIN v.els}
    [] OTHER -> {}

(* What a later layer that has v at q leaves of what was at p: all of it if q is
   elsewhere, or on the way and of the kind that p goes through. *)
Spares(pt, p) ==
  \/ ~IsPrefix(pt.path, p)
  \/ /\ IsStrictPrefix(pt.path, p)
     /\ \/ pt.val.is = "map" /\ p[Len(pt.path) + 1][1] = "."
        \/ Named(pt.val) /\ p[Len(pt.path) + 1][1] = "["

Ends(f) ==
  {pt \in Points(Map(f), <<>>) :
     pt.val.is = "scalar" \/ (pt.val.is = "list" /\ ~Named(pt.val))}

(* The ends that no later layer takes away, and the layer that set each. *)
Lasting ==
  UNION {{[path |-> pt.path, val |-> pt.val, layer |-> layers[i].name] :
            pt \in {e \in Ends(layers[i].map) :
                      \A j \in i + 1 .. Len(layers) :
                        \A later \in Points(Map(layers[j].map), <<>>) :
                          Spares(later, e.path)}} :
         i \in DOMAIN layers}

(* "Maps merge by key and an explicit nil deletes.  A list merges by the name
   of its elements": the values are what the layers say path by path, the last
   one to say anything of a path being right, and "two profiles contribute to
   the same list" without dropping each other's entries. *)
MergesByPath == Ends(merged) = {[path |-> e.path, val |-> e.val] : e \in Lasting}

(* values show --layers, "annotate each key with the layer that set it": an end
   is credited, by its own entry or the nearest above it, to the layer that set
   it, and nothing is credited that is not there, whatever was replaced or
   deleted on the way. *)
CreditsTheSetter ==
  /\ \A q \in DOMAIN prov : \E pt \in Points(Map(merged), <<>>) : pt.path = q
  /\ \A e \in Lasting :
       LET above == {q \in DOMAIN prov : IsPrefix(q, e.path)} IN
       \E q \in above : /\ \A r \in above : Len(r) <= Len(q)
                        /\ prov[q] = e.layer

(* Merge, "a map from each leaf path to the layer that set it", and
   deleteProvSubtree, "doesn't leave attributions for values that no longer
   exist in the merged output": an entry has an end, at its path or below, that
   its layer set. *)
CreditsWhatLasts ==
  \A q \in DOMAIN prov :
    \E e \in Lasting : IsPrefix(q, e.path) /\ e.layer = prov[q]
=============================================================================

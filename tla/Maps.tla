-------------------------------- MODULE Maps --------------------------------
(***************************************************************************)
(* Maps.  A HashMap of the program is a function whose domain is the set   *)
(* of its keys.                                                            *)
(***************************************************************************)
EXTENDS Functions

EmptyMap == [k \in {} |-> 0]

Put(map, key, value) ==
  [k \in DOMAIN map \cup {key} |-> IF k = key THEN value ELSE map[k]]

Drop(map, keys) == Restrict(map, DOMAIN map \ keys)

\* `more' is written over `map'.
Merge(map, more) ==
  [k \in DOMAIN map \cup DOMAIN more |->
     IF k \in DOMAIN more THEN more[k] ELSE map[k]]

\* A map from some of the keys K to values in V.
IsMap(f, K, V) == DOMAIN f \subseteq K /\ f \in [DOMAIN f -> V]

=============================================================================

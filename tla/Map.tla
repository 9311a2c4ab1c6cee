-------------------------------- MODULE Map --------------------------------
(***************************************************************************)
(* map.c, and mapi.c, maps.c and mapd.c, which only give it the type of    *)
(* its elements: a hash table with open addressing.  An element that is    *)
(* erased leaves no mark: the elements behind it that could no longer be   *)
(* found are moved up.  Keys are positive numbers; an element with key 0   *)
(* is an empty place.                                                      *)
(***************************************************************************)
EXTENDS Integers, FiniteSets

CONSTANTS Hash,         \* the hash of each key
          MinCapacity   \* MAP_ELEMENTS_CAPACITY_MIN, a power of two

ASSUME MapAssumption ==
  /\ MinCapacity \in {2, 4, 8, 16, 32, 64, 128, 256}
  /\ \A k \in DOMAIN Hash : k \in Nat \ {0} /\ Hash[k] \in Nat

Vacant == [key |-> 0, value |-> 0]

\* 1, 2, 4, ..., 2^n
MapPowers(n) ==
  LET power[i \in 0 .. n] == IF i = 0 THEN 1 ELSE 2 * power[i - 1] IN power

\* map_roundup(): the least power of two that is not less.  Capacities being
\* powers of two, the mask of map_at() and map_erase() is a remainder.
MapRoundup(size) ==
  LET power == MapPowers(size)
  IN  power[CHOOSE i \in 0 .. size : power[i] >= size /\ \A j \in 0 .. i - 1 : power[j] < size]

\* map_construct()
MapConstruct == [elements |-> [i \in 0 .. MinCapacity - 1 |-> Vacant], count |-> 0]

MapCapacity(map) == Cardinality(DOMAIN map.elements)

\* The loop of map_at() and map_erase(): the first place from the hash of the
\* key on that has the key or is vacant
MapPlace(map, key) ==
  LET at(n) == (Hash[key] + n) % MapCapacity(map)
      ends(n) == map.elements[at(n)].key \in {0, key}
  IN at(CHOOSE n \in 0 .. MapCapacity(map) - 1 : ends(n) /\ \A m \in 0 .. n - 1 : ~ ends(m))

\* map_at(), mapi_at(), maps_at(), mapd_at(): 0 if there is no such key
MapAt(map, key) == map.elements[MapPlace(map, key)].value

\* map_insert() where there is room; an element with the key stays
MapPut(map, element) ==
  LET p == MapPlace(map, element.key) IN
  IF map.elements[p].key # 0 THEN map
  ELSE [elements |-> [map.elements EXCEPT ![p] = element], count |-> map.count + 1]

\* The loop of map_rehash(): new, with the elements of the first n places put
\* into it in their order
MapMoved(map, new) ==
  LET moved[n \in 0 .. MapCapacity(map)] ==
        IF n = 0 THEN new
        ELSE IF map.elements[n - 1].key = 0 THEN moved[n - 1]
        ELSE MapPut(moved[n - 1], map.elements[n - 1])
  IN  moved

\* map_rehash()
MapRehash(map, size) ==
  LET new == [elements |-> [i \in 0 .. MapRoundup(size) - 1 |-> Vacant], count |-> 0]
  IN  MapMoved(map, new)[MapCapacity(map)]

\* map_reserve(): half of the places stay vacant
MapReserve(map, size) == IF 2 * size > MapCapacity(map) THEN MapRehash(map, 2 * size) ELSE map

\* map_insert()
MapInsert(map, key, value) ==
  MapPut(MapReserve(map, map.count + 1), [key |-> key, value |-> value])

\* Mutant of Displaced: the end of the table is forgotten.
DisplacedFlat(i, j, k) == k <= i

\* An element at place j with hash place k is found no more once place i is
\* vacant: k is not cyclically in i+1 .. j
Displaced(i, j, k) == (i < j /\ (k <= i \/ k > j)) \/ (i > j /\ k <= i /\ k > j)

\* A round of the loop of map_erase(), in which place i is free: the element at
\* the next place is moved there if it would not be found.  The loop ends where
\* that place is vacant.
MapEraseStep(s) ==
  LET size == MapCapacity(s)
      j == (s.j + 1) % size
      e == s.elements[j]
  IN  IF e.key = 0 THEN s
      ELSE IF Displaced(s.i, j, Hash[e.key] % size)
        THEN [elements |-> [s.elements EXCEPT ![s.i] = e], i |-> j, j |-> j]
        ELSE [s EXCEPT !.j = j]

\* The rounds of the loop, from place p on
MapEraseRounds(map, p) ==
  LET round[n \in 0 .. MapCapacity(map)] ==
        IF n = 0 THEN [elements |-> map.elements, i |-> p, j |-> p]
        ELSE MapEraseStep(round[n - 1])
  IN  round

\* map_erase()
MapErase(map, key) ==
  LET p == MapPlace(map, key)
      end == MapEraseRounds(map, p)[MapCapacity(map)]
  IN  IF map.elements[p].key = 0 THEN map
      ELSE [elements |-> [end.elements EXCEPT ![end.i] = Vacant], count |-> map.count - 1]

\* The keys of a map
MapKeys(map) == {map.elements[i].key : i \in DOMAIN map.elements} \ {0}

\* The table can be searched: every element is where a search for its key ends,
\* no key is there twice, and half of the places are vacant.
MapSearchable(map) ==
  /\ \A i \in DOMAIN map.elements :
       map.elements[i].key # 0 => MapPlace(map, map.elements[i].key) = i
  /\ map.count = Cardinality({i \in DOMAIN map.elements : map.elements[i].key # 0})
  /\ 2 * map.count <= MapCapacity(map)
=============================================================================

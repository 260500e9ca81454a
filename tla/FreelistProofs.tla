--------------------------- MODULE FreelistProofs ---------------------------
(***************************************************************************)
(* The free-list allocator keeps its heap tiled, for every heap size and   *)
(* every set of requests.                                                  *)
(***************************************************************************)
EXTENDS Freelist, TLAPS

(* The requests that do not wrap get their payload and the three units of  *)
(* header and footer.                                                      *)
LEMMA NeedFits ==
  ASSUME NEW req \in Requests, req > 0
  PROVE  /\ Need(req) \in Nat
         /\ Need(req) >= MIN_CHUNK
         /\ (req + 15) \div 16 \in Nat
         /\ (req + 15) \div 16 > 0
         /\ Need(req) >= HDR_SZ + ((req + 15) \div 16) + FTR_SZ
<1>1. /\ req \in Nat
      /\ req + 63 \in Nat
      /\ SizeMod \in Nat
      /\ req + 63 < SizeMod
  BY RequestsAssumption, NoWrapAssumption
<1>2. (req + 63) % SizeMod = req + 63
  BY <1>1
<1>3. Need(req) = (req + 63) \div 16
  BY <1>1, <1>2 DEF Need, HDR_SZ, FTR_SZ, MIN_CHUNK
<1> QED BY <1>1, <1>3 DEF HDR_SZ, FTR_SZ, MIN_CHUNK

Image(l) == {l[j] : j \in DOMAIN l}
Injective(l) == \A i, j \in DOMAIN l : l[i] = l[j] => i = j

(* fl_insert() adds the chunk, and keeps every chunk on the list once. *)
LEMMA FlInsert ==
  ASSUME NEW S, NEW l \in Seq(S), NEW h \in S, Injective(l), h \notin Image(l)
  PROVE  /\ fl_insert(l, h) \in Seq(S)
         /\ Image(fl_insert(l, h)) = Image(l) \cup {h}
         /\ Injective(fl_insert(l, h))
<1> DEFINE k == fl_insert(l, h)
<1>1. /\ k \in Seq(S)
      /\ DOMAIN k = 1 .. Len(l) + 1
      /\ k[1] = h
      /\ \A j \in DOMAIN l : k[j + 1] = l[j]
  BY DEF fl_insert
<1>2. \A j \in DOMAIN k : j # 1 => j - 1 \in DOMAIN l /\ k[j] = l[j - 1]
  BY DEF fl_insert
<1> HIDE DEF k
<1>3. Image(k) = Image(l) \cup {h}
  <2>1. \A x \in Image(l) : x \in Image(k)
    BY <1>1 DEF Image
  <2>2. \A x \in Image(k) : x \in Image(l) \cup {h}
    BY <1>1, <1>2 DEF Image
  <2>3. h \in Image(k)
    BY <1>1 DEF Image
  <2> QED BY <2>1, <2>2, <2>3
<1>4. Injective(k)
  <2> SUFFICES ASSUME NEW a \in DOMAIN k, NEW b \in DOMAIN k, k[a] = k[b]
               PROVE  a = b
    BY DEF Injective
  <2>1. CASE a # 1 /\ b # 1
    <3>1. a - 1 = b - 1
      BY <1>2, <2>1 DEF Injective
    <3> QED BY <1>1, <3>1
  <2> QED BY <1>1, <1>2, <2>1 DEF Image
<1> QED BY <1>1, <1>3, <1>4 DEF k

(* fl_remove() takes off the one chunk it is given. *)
LEMMA FlRemove ==
  ASSUME NEW S, NEW l \in Seq(S), NEW h \in Image(l), Injective(l)
  PROVE  /\ fl_remove(l, h) \in Seq(S)
         /\ Image(fl_remove(l, h)) = Image(l) \ {h}
         /\ Injective(fl_remove(l, h))
<1> DEFINE at == CHOOSE j \in DOMAIN l : l[j] = h
           k == fl_remove(l, h)
<1>1. at \in DOMAIN l /\ l[at] = h
  BY DEF Image
<1>2. /\ k \in Seq(S)
      /\ DOMAIN k = 1 .. Len(l) - 1
      /\ \A j \in DOMAIN k : k[j] = IF j < at THEN l[j] ELSE l[j + 1]
  <2>1. Len(l) \in Nat /\ DOMAIN l = 1 .. Len(l) /\ Len(l) >= 1
    BY <1>1
  <2>2. k \in [1 .. Len(l) - 1 -> S]
    BY <1>1, <2>1 DEF fl_remove
  <2>3. Len(l) - 1 \in Nat
    BY <2>1
  <2>4. k \in Seq(S)
    BY <2>2, <2>3
  <2> QED BY <2>2, <2>4 DEF fl_remove
<1> HIDE DEF at, k
<1>3. Image(k) = Image(l) \ {h}
  <2>1. ASSUME NEW x \in Image(l), x # h PROVE x \in Image(k)
    <3>1. PICK j \in DOMAIN l : l[j] = x
      BY DEF Image
    <3>2. CASE j < at
      <4>1. j \in DOMAIN k /\ k[j] = l[j]
        BY <1>1, <1>2, <3>2
      <4> QED BY <3>1, <4>1 DEF Image
    <3>3. CASE j > at
      <4>1. j - 1 \in DOMAIN k /\ k[j - 1] = l[j]
        BY <1>1, <1>2, <3>3
      <4> QED BY <3>1, <4>1 DEF Image
    <3> QED BY <1>1, <2>1, <3>1, <3>2, <3>3
  <2>2. ASSUME NEW x \in Image(k) PROVE x \in Image(l) /\ x # h
    <3>1. PICK j \in DOMAIN k : k[j] = x
      BY DEF Image
    <3>2. CASE j < at
      <4>1. j \in DOMAIN l /\ j # at /\ k[j] = l[j]
        BY <1>1, <1>2, <3>2
      <4> QED BY <1>1, <3>1, <4>1 DEF Image, Injective
    <3>3. CASE j >= at
      <4>1. j + 1 \in DOMAIN l /\ j + 1 # at /\ k[j] = l[j + 1]
        BY <1>1, <1>2, <3>3
      <4> QED BY <1>1, <3>1, <4>1 DEF Image, Injective
    <3> QED BY <1>1, <1>2, <3>2, <3>3
  <2> QED BY <2>1, <2>2
<1>4. Injective(k)
  BY <1>1, <1>2 DEF Injective
<1> QED BY <1>2, <1>3, <1>4 DEF k
-----------------------------------------------------------------------------
(* Tiling, for a given memory and a given set of chunks. *)
Tile(mm, C) ==
  /\ C \subseteq Units
  /\ \A h \in C : /\ mm[h].size >= MIN_CHUNK
                  /\ h + mm[h].size = Cap \/ h + mm[h].size \in C
                  /\ mm[h + mm[h].size - 1] = mm[h]
  /\ \A g, h \in C : g < h => g + mm[g].size <= h
  /\ \A u \in Units : \E h \in C : h <= u /\ u < h + mm[h].size

(* The Tiling property, with the memory as a parameter. *)
LEMMA TilingIsTile ==
  ASSUME mem \in [Units -> Tags], Chunks \subseteq Units
  PROVE  Tiling <=> Tile(mem, Chunks)
<1>1. \A u \in Units, h \in Chunks : u \in Extent(h) <=> h <= u /\ u < h + csz(h)
  BY CapAssumption DEF Extent, csz, Tags, Units
<1> QED BY <1>1 DEF Tiling, Tile, next_of, csz, FTR_SZ

(* The neighbours of a chunk, as next_of() and prev_of() find them. *)
LEMMA Neighbours ==
  ASSUME NEW mm \in [Units -> Tags], NEW C, Tile(mm, C), NEW h \in C
  PROVE  /\ h + mm[h].size <= Cap
         /\ h # 0 => /\ h - mm[h - 1].size \in C
                     /\ mm[h - mm[h - 1].size].size = mm[h - 1].size
<1>0. /\ Cap \in Nat
      /\ \A g \in C : g \in Nat /\ g < Cap /\ g \in Units /\ mm[g].size \in Nat
  BY CapAssumption DEF Units, Tags, Tile
<1>1. h + mm[h].size <= Cap
  <2>1. h + mm[h].size = Cap \/ h + mm[h].size \in C
    BY DEF Tile
  <2> QED BY <1>0, <2>1
<1>2. ASSUME h # 0
      PROVE  /\ h - mm[h - 1].size \in C
             /\ mm[h - mm[h - 1].size].size = mm[h - 1].size
  <2>1. h - 1 \in Units
    BY <1>0, <1>2 DEF Units
  <2>2. PICK g \in C : g <= h - 1 /\ h - 1 < g + mm[g].size
    BY <2>1 DEF Tile
  <2>3. g + mm[g].size <= h
    BY <1>0, <2>2 DEF Tile
  <2>4. g + mm[g].size = h
    BY <1>0, <2>2, <2>3
  <2>5. mm[g + mm[g].size - 1] = mm[g] /\ g + mm[g].size - 1 = h - 1
    BY <1>0, <2>4 DEF Tile
  <2>6. h - mm[h - 1].size = g
    BY <1>0, <2>4, <2>5
  <2> QED BY <2>5, <2>6
<1> QED BY <1>1, <1>2

(* The chunks New fill lo .. hi - 1, which the chunks Old filled, and the  *)
(* other chunks and their tags are as they were.                           *)
Refill(mm, mn, C, Old, New, lo, hi) ==
  /\ Old \subseteq C /\ New \subseteq Units /\ lo \in New /\ hi \in Nat
  /\ hi = Cap \/ hi \in C \ Old
  /\ \A g \in C \ Old : /\ g + mm[g].size <= lo \/ hi <= g
                        /\ mn[g] = mm[g]
                        /\ mn[g + mm[g].size - 1] = mm[g]
                        /\ g + mm[g].size \in Old => g + mm[g].size = lo
  /\ \A h \in Old : lo <= h /\ h + mm[h].size <= hi
  /\ \A h \in New : /\ lo <= h
                    /\ h + mn[h].size <= hi
                    /\ mn[h].size >= MIN_CHUNK
                    /\ h + mn[h].size = hi \/ h + mn[h].size \in New
                    /\ mn[h + mn[h].size - 1] = mn[h]
  /\ \A g, h \in New : g < h => g + mn[g].size <= h
  /\ \A u \in lo .. hi - 1 : \E h \in New : h <= u /\ u < h + mn[h].size

(* Such a step keeps the heap tiled; splitting and coalescing are          *)
(* instances.                                                              *)
LEMMA Retile ==
  ASSUME NEW mm \in [Units -> Tags], NEW mn \in [Units -> Tags],
         NEW C, NEW Old, NEW New, NEW lo, NEW hi,
         Tile(mm, C), Refill(mm, mn, C, Old, New, lo, hi)
  PROVE  Tile(mn, (C \ Old) \cup New)
<1> USE DEF Refill
<1> DEFINE D == (C \ Old) \cup New
<1>0. /\ Cap \in Nat
      /\ lo \in Nat
      /\ \A g \in C : g \in Nat /\ g < Cap /\ mm[g].size \in Nat
      /\ \A g \in New : g \in Nat /\ g < Cap /\ mn[g].size \in Nat
  <2>1. Cap \in Nat /\ \A u \in Units : /\ u \in Nat /\ u < Cap
                                       /\ mm[u].size \in Nat
                                       /\ mn[u].size \in Nat
    BY CapAssumption DEF Units, Tags
  <2>2. C \subseteq Units
    BY DEF Tile
  <2> QED BY <2>1, <2>2
<1>1. D \subseteq Units
  BY DEF Tile
<1>2. ASSUME NEW h \in D
      PROVE  /\ mn[h].size >= MIN_CHUNK
             /\ h + mn[h].size = Cap \/ h + mn[h].size \in D
             /\ mn[h + mn[h].size - 1] = mn[h]
  <2>1. CASE h \in New
    BY <2>1
  <2>2. CASE h \in C \ Old
    BY <2>2 DEF Tile
  <2> QED BY <2>1, <2>2
<1>3. ASSUME NEW g \in D, NEW h \in D, g < h
      PROVE  g + mn[g].size <= h
  <2>1. CASE g \in New /\ h \in New
    BY <1>3, <2>1
  <2>2. CASE g \in C \ Old /\ h \in C \ Old
    BY <1>3, <2>2 DEF Tile
  <2>3. CASE g \in New /\ h \in C \ Old
    <3>1. h + mm[h].size <= lo \/ hi <= h
      BY <2>3
    <3>2. lo <= g /\ g + mn[g].size <= hi
      BY <2>3
    <3> QED BY <1>0, <1>3, <2>3, <3>1, <3>2
  <2>4. CASE g \in C \ Old /\ h \in New
    <3>1. g + mm[g].size <= lo \/ hi <= g
      BY <2>4
    <3>2. lo <= h /\ h + mn[h].size <= hi /\ mn[g] = mm[g]
      BY <2>4
    <3> QED BY <1>0, <1>3, <2>4, <3>1, <3>2
  <2> QED BY <2>1, <2>2, <2>3, <2>4
<1>4. ASSUME NEW u \in Units
      PROVE  \E h \in D : h <= u /\ u < h + mn[h].size
  <2>1. CASE u \in lo .. hi - 1
    BY <2>1
  <2>2. CASE u \notin lo .. hi - 1
    <3>0. u \in Nat /\ (u < lo \/ hi <= u)
      BY <1>0, <2>2 DEF Units
    <3>1. PICK h \in C : h <= u /\ u < h + mm[h].size
      BY DEF Tile
    <3>2. h \notin Old
      BY <1>0, <3>0, <3>1
    <3> QED BY <3>1, <3>2
  <2> QED BY <2>1, <2>2
<1> QED BY <1>1, <1>2, <1>3, <1>4 DEF Tile
-----------------------------------------------------------------------------
(* Addresses below heap_end. *)
LEMMA InUnits == ASSUME NEW x \in Nat, x < Cap PROVE x \in Units
BY CapAssumption DEF Units

(* Facts about the tags of a tiled heap that the steps below share. *)
LEMMA ChunkFacts ==
  ASSUME NEW mm \in [Units -> Tags], NEW C, Tile(mm, C)
  PROVE  /\ Cap \in Nat
         /\ \A g \in C : /\ g \in Nat /\ g \in Units
                         /\ mm[g].size \in Nat /\ mm[g].size >= 4
                         /\ g + mm[g].size <= Cap
                         /\ g + mm[g].size - 1 \in Units
         /\ \A g, h \in C : g # h => g + mm[g].size <= h \/ h + mm[h].size <= g
<1>1. Cap \in Nat /\ C \subseteq Units
  BY CapAssumption DEF Tile
<1>2. \A g \in C : /\ g \in Nat /\ mm[g].size \in Nat /\ mm[g].size >= 4
  BY <1>1 DEF Units, Tags, Tile, MIN_CHUNK, HDR_SZ, FTR_SZ
<1>3. \A g \in C : g + mm[g].size <= Cap
  BY Neighbours
<1>4. \A g \in C : g + mm[g].size - 1 \in Units
  BY <1>1, <1>2, <1>3 DEF Units
<1>5. ASSUME NEW g \in C, NEW h \in C, g # h
      PROVE  g + mm[g].size <= h \/ h + mm[h].size <= g
  <2>1. CASE g < h
    BY <2>1 DEF Tile
  <2>2. CASE h < g
    BY <2>2 DEF Tile
  <2> QED BY <1>2, <1>5, <2>1, <2>2
<1> QED BY <1>1, <1>2, <1>3, <1>4, <1>5

(* set_size() writes the two tags of the chunk and nothing else. *)
LEMMA SetSize ==
  ASSUME NEW mm \in [Units -> Tags], NEW h \in Units, NEW sz \in Nat,
         NEW b \in Bit, h + sz - 1 \in Units
  PROVE  /\ set_size(mm, h, sz, b) \in [Units -> Tags]
         /\ set_size(mm, h, sz, b)[h] = [size |-> sz, free |-> b]
         /\ set_size(mm, h, sz, b)[h + sz - 1] = [size |-> sz, free |-> b]
         /\ \A u \in Units : u # h /\ u # h + sz - 1 =>
                               set_size(mm, h, sz, b)[u] = mm[u]
<1>1. [size |-> sz, free |-> b] \in Tags
  BY DEF Tags
<1> QED BY <1>1 DEF set_size, FTR_SZ

(* In particular it leaves the footer of the chunk in front alone, which   *)
(* prev_of() will read.                                                    *)
LEMMA SetSizeBefore ==
  ASSUME NEW mm \in [Units -> Tags], NEW h \in Units, NEW sz \in Nat, sz >= 1,
         NEW b \in Bit, h + sz - 1 \in Units, h # 0
  PROVE  set_size(mm, h, sz, b)[h - 1] = mm[h - 1]
<1>1. h - 1 \in Units /\ h - 1 # h /\ h - 1 # h + sz - 1
  BY CapAssumption DEF Units
<1> QED BY <1>1 DEF set_size, FTR_SZ

(* The assignments of my_malloc() and my_free() to the tags, named so that *)
(* the lemmas about them can be applied by name.                           *)
IsSet(mm, mn, h, sz, b) == mn = set_size(mm, h, sz, b)

IsNext(mm, h, n) == n = h + mm[h].size

IsSplit(mm, mn, h, need, left, r) ==
  /\ need \in Nat
  /\ need >= MIN_CHUNK
  /\ left = mm[h].size - need
  /\ left >= MIN_CHUNK
  /\ r = h + need
  /\ mn = set_size(set_size(mm, h, need, 0), r, left, 1)

(* The words of the chunks in S, or their sizes, are as they were. *)
Same(mm, mn, S) == \A g \in S : mn[g] = mm[g]
SameSize(mm, mn, S) == \A g \in S : mn[g].size = mm[g].size
SameBefore(mm, mn, h) == h # 0 => mn[h - 1] = mm[h - 1]

(* Rewriting a chunk's tags with the same size. *)
LEMMA RetagTile ==
  ASSUME NEW mm \in [Units -> Tags], NEW C, Tile(mm, C), NEW h \in C,
         NEW b \in Bit, NEW mn, mn = set_size(mm, h, mm[h].size, b)
  PROVE  /\ mn \in [Units -> Tags]
         /\ Tile(mn, C)
         /\ mn[h] = [size |-> mm[h].size, free |-> b]
         /\ \A g \in C : g # h => mn[g] = mm[g]
<1>1. /\ Cap \in Nat
      /\ \A g \in C : /\ g \in Nat /\ g \in Units
                      /\ mm[g].size \in Nat /\ mm[g].size >= 4
                      /\ g + mm[g].size <= Cap
                      /\ g + mm[g].size - 1 \in Units
      /\ \A g \in C : g # h => g + mm[g].size <= h \/ h + mm[h].size <= g
  BY ChunkFacts
<1>2. /\ mn \in [Units -> Tags]
      /\ mn[h] = [size |-> mm[h].size, free |-> b]
      /\ mn[h + mm[h].size - 1] = [size |-> mm[h].size, free |-> b]
      /\ \A u \in Units : u # h /\ u # h + mm[h].size - 1 => mn[u] = mm[u]
  BY <1>1, SetSize
<1>3. ASSUME NEW g \in C, g # h
      PROVE  mn[g] = mm[g] /\ mn[g + mm[g].size - 1] = mm[g + mm[g].size - 1]
  BY <1>1, <1>2, <1>3
<1>4. \A g \in C : mn[g].size = mm[g].size
  BY <1>2, <1>3
<1>5. ASSUME NEW g \in C PROVE mn[g + mn[g].size - 1] = mn[g]
  <2>1. CASE g = h
    BY <1>2, <2>1
  <2>2. CASE g # h
    <3>1. mm[g + mm[g].size - 1] = mm[g]
      BY DEF Tile
    <3> QED BY <1>3, <1>4, <2>2, <3>1
  <2> QED BY <2>1, <2>2
<1> QED BY <1>2, <1>3, <1>4, <1>5 DEF Tile

(* Coalescing a chunk with its right neighbour. *)
LEMMA MergeTile ==
  ASSUME NEW mm \in [Units -> Tags], NEW C, Tile(mm, C), NEW h \in C,
         NEW n \in C, IsNext(mm, h, n), NEW b \in Bit,
         NEW mn, IsSet(mm, mn, h, mm[h].size + mm[n].size, b)
  PROVE  /\ mn \in [Units -> Tags]
         /\ Tile(mn, C \ {n})
         /\ mn[h] = [size |-> mm[h].size + mm[n].size, free |-> b]
         /\ Same(mm, mn, C \ {h})
<1> USE DEF IsNext, IsSet
<1> DEFINE sz == mm[h].size + mm[n].size
           hi == h + sz
<1>1. /\ Cap \in Nat
      /\ \A g \in C : /\ g \in Nat /\ g \in Units
                      /\ mm[g].size \in Nat /\ mm[g].size >= 4
                      /\ g + mm[g].size <= Cap
                      /\ g + mm[g].size - 1 \in Units
      /\ \A f, g \in C : f # g => f + mm[f].size <= g \/ g + mm[g].size <= f
  BY ChunkFacts
<1>2. /\ sz \in Nat
      /\ hi \in Nat
      /\ hi = n + mm[n].size
      /\ h + sz - 1 = n + mm[n].size - 1
      /\ sz >= MIN_CHUNK
      /\ h # n
  BY <1>1 DEF MIN_CHUNK, HDR_SZ, FTR_SZ
<1>3. /\ mn \in [Units -> Tags]
      /\ mn[h] = [size |-> sz, free |-> b]
      /\ mn[h + sz - 1] = [size |-> sz, free |-> b]
      /\ \A u \in Units : u # h /\ u # n + mm[n].size - 1 => mn[u] = mm[u]
  BY <1>1, <1>2, SetSize
<1>4. ASSUME NEW g \in C, g # h
      PROVE  mn[g] = mm[g]
  BY <1>1, <1>2, <1>3, <1>4
<1>5. ASSUME NEW g \in C \ {h, n}
      PROVE  /\ g + mm[g].size <= h \/ hi <= g
             /\ mn[g] = mm[g]
             /\ mn[g + mm[g].size - 1] = mm[g]
             /\ g + mm[g].size \in {h, n} => g + mm[g].size = h
  <2>1. /\ g + mm[g].size <= h \/ h + mm[h].size <= g
        /\ g + mm[g].size <= n \/ n + mm[n].size <= g
    BY <1>1, <1>5
  <2>2. g + mm[g].size <= h \/ hi <= g
    BY <1>1, <1>2, <2>1
  <2>3. mn[g + mm[g].size - 1] = mm[g + mm[g].size - 1]
    BY <1>1, <1>2, <1>3, <2>2
  <2>4. g + mm[g].size # n
    BY <1>1, <1>2, <2>2
  <2> QED BY <1>4, <1>5, <2>2, <2>3, <2>4 DEF Tile
<1>6. hi = Cap \/ hi \in C \ {h, n}
  <2>1. hi = Cap \/ hi \in C
    BY <1>2 DEF Tile
  <2> QED BY <1>1, <1>2, <2>1
<1>7. \A u \in h .. hi - 1 : h <= u /\ u < h + mn[h].size
  BY <1>1, <1>2, <1>3
<1>8. Tile(mn, (C \ {h, n}) \cup {h})
  <2>1. /\ h + mn[h].size = hi
        /\ mn[h].size >= MIN_CHUNK
        /\ mn[h + mn[h].size - 1] = mn[h]
    BY <1>2, <1>3
  <2>2. \A g \in {h, n} : h <= g /\ g + mm[g].size <= hi
    BY <1>1, <1>2
  <2>3. {h, n} \in SUBSET C /\ {h} \in SUBSET Units /\ h \in Units
    BY <1>1
  <2>4. h <= h /\ hi <= hi
    BY <1>1, <1>2
  <2> HIDE DEF hi, sz
  <2>5. \A x \in {h} : /\ h <= x
                       /\ x + mn[x].size <= hi
                       /\ mn[x].size >= MIN_CHUNK
                       /\ x + mn[x].size = hi \/ x + mn[x].size \in {h}
                       /\ mn[x + mn[x].size - 1] = mn[x]
    BY <2>1, <2>4
  <2>6. \A f, g \in {h} : f < g => f + mn[f].size <= g
    BY <1>1
  <2>7. \A u \in h .. hi - 1 : \E x \in {h} : x <= u /\ u < x + mn[x].size
    BY <1>7
  <2>8. Refill(mm, mn, C, {h, n}, {h}, h, hi)
    BY <1>2, <1>5, <1>6, <2>2, <2>3, <2>5, <2>6, <2>7 DEF Refill
  <2> QED BY <1>3, <2>8, Retile
<1>9. (C \ {h, n}) \cup {h} = C \ {n}
  BY <1>2
<1> QED BY <1>3, <1>4, <1>8, <1>9 DEF Same

(* Splitting a chunk in two. *)
LEMMA SplitTile ==
  ASSUME NEW mm \in [Units -> Tags], NEW C, Tile(mm, C), NEW h \in C,
         NEW need, NEW left, NEW r, NEW mn, IsSplit(mm, mn, h, need, left, r)
  PROVE  /\ mn \in [Units -> Tags]
         /\ Tile(mn, C \cup {r})
         /\ r \in Units \ C
         /\ mn[h] = [size |-> need, free |-> 0]
         /\ mn[r] = [size |-> left, free |-> 1]
         /\ Same(mm, mn, C \ {h})
<1>a. PICK b \in Bit : b = 0
  BY DEF Bit
<1>b. PICK c \in Bit : c = 1
  BY DEF Bit
<1>c. PICK m1 : m1 = set_size(mm, h, need, b)
  OBVIOUS
<1>d. /\ need \in Nat /\ need >= MIN_CHUNK
      /\ left = mm[h].size - need /\ left >= MIN_CHUNK /\ r = h + need
  BY DEF IsSplit
<1>e. mn = set_size(m1, r, left, c)
  BY <1>a, <1>b, <1>c DEF IsSplit
<1> DEFINE hi == h + mm[h].size
<1>1. /\ Cap \in Nat
      /\ \A g \in C : /\ g \in Nat /\ g \in Units
                      /\ mm[g].size \in Nat /\ mm[g].size >= 4
                      /\ g + mm[g].size <= Cap
                      /\ g + mm[g].size - 1 \in Units
      /\ \A f, g \in C : f # g => f + mm[f].size <= g \/ g + mm[g].size <= f
  BY ChunkFacts
<1>2. /\ h \in Nat /\ h \in Units /\ mm[h].size \in Nat
      /\ hi \in Nat /\ hi <= Cap
      /\ hi - 1 \in Units
      /\ need >= 4 /\ left >= 4 /\ left \in Nat
      /\ hi = h + mm[h].size /\ Cap \in Nat
  BY <1>1, <1>d DEF MIN_CHUNK, HDR_SZ, FTR_SZ
<1> HIDE DEF hi
<1>3. /\ r \in Nat /\ h < r /\ r < hi
      /\ r + left = hi /\ r + left - 1 = hi - 1
      /\ h + need - 1 # r /\ h + need - 1 # hi - 1 /\ h # hi - 1
      /\ h + need - 1 > h /\ h + need - 1 < hi
  BY <1>2, <1>d
<1>4. h + need - 1 \in Units /\ r \in Units
  <2>1. h + need - 1 \in Nat /\ h + need - 1 < Cap /\ r < Cap
    BY <1>2, <1>3, <1>d
  <2> QED BY <1>3, <2>1, InUnits
<1>5. /\ m1 \in [Units -> Tags]
      /\ m1[h] = [size |-> need, free |-> b]
      /\ m1[h + need - 1] = [size |-> need, free |-> b]
      /\ \A u \in Units : u # h /\ u # h + need - 1 => m1[u] = mm[u]
  BY <1>2, <1>4, <1>c, <1>d, SetSize
<1>6. /\ mn \in [Units -> Tags]
      /\ mn[r] = [size |-> left, free |-> c]
      /\ mn[hi - 1] = [size |-> left, free |-> c]
      /\ \A u \in Units : u # r /\ u # hi - 1 => mn[u] = m1[u]
  <2>1. r + left - 1 = hi - 1 /\ r + left - 1 \in Units /\ left \in Nat
    BY <1>2, <1>3
  <2>2. /\ mn \in [Units -> Tags]
        /\ mn[r] = [size |-> left, free |-> c]
        /\ mn[r + left - 1] = [size |-> left, free |-> c]
        /\ \A u \in Units : u # r /\ u # r + left - 1 => mn[u] = m1[u]
    <3>1. m1 \in [Units -> Tags]
      BY <1>5
    <3>2. r \in Units /\ left \in Nat /\ r + left - 1 \in Units
      BY <1>4, <2>1
    <3> QED BY <1>e, <3>1, <3>2, SetSize
  <2> QED BY <2>1, <2>2
<1>7. /\ mn[h] = [size |-> need, free |-> b]
      /\ mn[h + need - 1] = [size |-> need, free |-> b]
  <2>1. h # r /\ h # hi - 1 /\ h + need - 1 # r /\ h + need - 1 # hi - 1
    BY <1>2, <1>3
  <2>2. mn[h] = m1[h] /\ mn[h + need - 1] = m1[h + need - 1]
    BY <1>2, <1>4, <1>6, <2>1
  <2> QED BY <1>5, <2>2
<1>8. ASSUME NEW g \in C \ {h}
      PROVE  /\ g + mm[g].size <= h \/ hi <= g
             /\ mn[g] = mm[g]
             /\ mn[g + mm[g].size - 1] = mm[g]
             /\ g + mm[g].size \in {h} => g + mm[g].size = h
  <2>1. g + mm[g].size <= h \/ hi <= g
    BY <1>1, <1>8 DEF hi
  <2>2. mn[g] = mm[g]
    BY <1>1, <1>2, <1>3, <1>4, <1>5, <1>6, <2>1
  <2>3. mn[g + mm[g].size - 1] = mm[g + mm[g].size - 1]
    BY <1>1, <1>2, <1>3, <1>4, <1>5, <1>6, <2>1
  <2> QED BY <1>8, <2>1, <2>2, <2>3 DEF Tile
<1>9. r \notin C
  BY <1>1, <1>2, <1>3 DEF hi
<1>10. hi = Cap \/ hi \in C \ {h}
  <2>1. hi = Cap \/ hi \in C
    BY DEF Tile, hi
  <2> QED BY <1>2, <1>3, <2>1
<1>11. Tile(mn, (C \ {h}) \cup {h, r})
  <2>0. mn[h].size = need /\ mn[r].size = left
    BY <1>6, <1>7
  <2>1. \A x \in {h, r} : /\ h <= x
                          /\ x + mn[x].size <= hi
                          /\ mn[x].size >= MIN_CHUNK
                          /\ x + mn[x].size = hi \/ x + mn[x].size \in {h, r}
                          /\ mn[x + mn[x].size - 1] = mn[x]
    BY <1>2, <1>3, <1>6, <1>7, <1>d, <2>0
  <2>2. \A f, g \in {h, r} : f < g => f + mn[f].size <= g
    BY <1>2, <1>3, <1>d, <2>0
  <2>3. ASSUME NEW u \in h .. hi - 1
        PROVE  \E x \in {h, r} : x <= u /\ u < x + mn[x].size
    <3>1. CASE u < r
      BY <1>2, <1>3, <1>d, <2>0, <3>1
    <3>2. CASE u >= r
      BY <1>2, <1>3, <1>d, <2>0, <3>2
    <3> QED BY <1>2, <1>3, <3>1, <3>2
  <2>4. \A x \in {h} : h <= x /\ x + mm[x].size <= hi
    BY <1>2 DEF hi
  <2>5. {h} \subseteq C /\ {h, r} \subseteq Units /\ h \in {h, r}
    BY <1>2, <1>4
  <2>6. Refill(mm, mn, C, {h}, {h, r}, h, hi)
    BY <1>2, <1>8, <1>10, <2>1, <2>2, <2>3, <2>4, <2>5 DEF Refill
  <2> QED BY <1>6, <2>6, Retile
<1>12. (C \ {h}) \cup {h, r} = C \cup {r}
  OBVIOUS
<1>13. Same(mm, mn, C \ {h})
  BY <1>8 DEF Same
<1> QED BY <1>4, <1>6, <1>7, <1>9, <1>11, <1>12, <1>13, <1>a, <1>b
-----------------------------------------------------------------------------
(* A heap of free chunks F and live chunks L between two calls. *)
Good(mm, F, L) == /\ Tile(mm, F \cup L)
                  /\ \A h \in F : mm[h].free = 1
                  /\ \A h \in L : mm[h].free = 0
                  /\ \A h \in F : h + mm[h].size \notin F

(* my_malloc() takes a whole chunk. *)
LEMMA GoodTake ==
  ASSUME NEW mm \in [Units -> Tags], NEW F, NEW L, Good(mm, F, L), NEW h \in F,
         NEW mn, IsSet(mm, mn, h, mm[h].size, 0)
  PROVE  /\ mn \in [Units -> Tags]
         /\ Good(mn, F \ {h}, L \cup {h})
         /\ SameSize(mm, mn, F \cup L)
<1> USE DEF IsSet
<1>1. 0 \in Bit /\ Tile(mm, F \cup L) /\ h \in F \cup L
  BY DEF Good, Bit
<1>2. /\ mn \in [Units -> Tags]
      /\ Tile(mn, F \cup L)
      /\ mn[h] = [size |-> mm[h].size, free |-> 0]
      /\ \A g \in F \cup L : g # h => mn[g] = mm[g]
  BY <1>1, RetagTile
<1>3. (F \ {h}) \cup (L \cup {h}) = F \cup L
  OBVIOUS
<1>4. mn[h].free = 0 /\ mn[h].size = mm[h].size
  BY <1>2
<1>5. \A g \in F \cup L : mn[g].size = mm[g].size
  BY <1>2, <1>4
<1>6. Good(mn, F \ {h}, L \cup {h})
  BY <1>2, <1>3, <1>4, <1>5 DEF Good
<1> QED BY <1>2, <1>5, <1>6 DEF SameSize

(* my_malloc() splits a chunk and keeps the left part. *)
LEMMA GoodSplit ==
  ASSUME NEW mm \in [Units -> Tags], NEW F, NEW L, Good(mm, F, L), NEW h \in F,
         NEW need, NEW left, NEW r, NEW mn, IsSplit(mm, mn, h, need, left, r)
  PROVE  /\ mn \in [Units -> Tags]
         /\ r \in Units \ (F \cup L)
         /\ Good(mn, (F \ {h}) \cup {r}, L \cup {h})
         /\ mn[h].size = need
         /\ SameSize(mm, mn, L)
<1> USE DEF IsSplit
<1> DEFINE C == F \cup L
<1>1. 0 \in Bit /\ 1 \in Bit /\ Tile(mm, C) /\ h \in C
  BY DEF Good, Bit
<1>2. /\ mn \in [Units -> Tags]
      /\ Tile(mn, C \cup {r})
      /\ r \in Units \ C
      /\ mn[h] = [size |-> need, free |-> 0]
      /\ mn[r] = [size |-> left, free |-> 1]
      /\ \A g \in C : g # h => mn[g] = mm[g]
  <2> HIDE DEF C, IsSplit
  <2>1. /\ mn \in [Units -> Tags]
        /\ Tile(mn, C \cup {r})
        /\ r \in Units \ C
        /\ mn[h] = [size |-> need, free |-> 0]
        /\ mn[r] = [size |-> left, free |-> 1]
        /\ Same(mm, mn, C \ {h})
    BY <1>1, SplitTile
  <2> QED BY <2>1 DEF Same
<1>3. ((F \ {h}) \cup {r}) \cup (L \cup {h}) = C \cup {r}
  OBVIOUS
<1>4. /\ mn[h].free = 0 /\ mn[h].size = need
      /\ mn[r].free = 1 /\ mn[r].size = left
  BY <1>2
<1>5. h \notin L
  BY DEF Good
<1>6. /\ Cap \in Nat /\ r \in Nat /\ r < Cap
      /\ h \in Nat /\ mm[h].size \in Nat /\ r + left = h + mm[h].size
      /\ left > 0 /\ left \in Nat
  <2>1. h \in Nat /\ mm[h].size \in Nat /\ Cap \in Nat
    BY <1>1, ChunkFacts
  <2>2. r \in Nat /\ r < Cap
    BY <1>2, CapAssumption DEF Units
  <2> QED BY <2>1, <2>2 DEF MIN_CHUNK, HDR_SZ, FTR_SZ
<1>7. ASSUME NEW g \in (F \ {h}) \cup {r}
      PROVE  g + mn[g].size \notin (F \ {h}) \cup {r}
  <2>1. CASE g = r
    <3>1. g + mn[g].size = h + mm[h].size /\ g + mn[g].size # r
      BY <1>4, <1>6, <2>1
    <3> QED BY <3>1 DEF Good
  <2>2. CASE g \in F \ {h}
    <3>1. mn[g] = mm[g] /\ g + mm[g].size \notin F
      BY <1>2, <2>2 DEF Good
    <3>2. g + mm[g].size = Cap \/ g + mm[g].size \in C
      BY <1>1, <2>2 DEF Tile
    <3>3. g + mm[g].size # r
      BY <1>2, <1>6, <3>2
    <3> QED BY <3>1, <3>3
  <2> QED BY <2>1, <2>2
<1>8. /\ \A g \in (F \ {h}) \cup {r} : mn[g].free = 1
      /\ \A g \in L \cup {h} : mn[g].free = 0
      /\ SameSize(mm, mn, L)
  BY <1>2, <1>4, <1>5 DEF Good, SameSize
<1>9. Good(mn, (F \ {h}) \cup {r}, L \cup {h})
  BY <1>2, <1>3, <1>7, <1>8 DEF Good
<1> QED BY <1>2, <1>4, <1>8, <1>9
(* my_free() in progress: h is free, not yet on the list and not yet       *)
(* coalesced.                                                              *)
Loose(mm, F, L, h) == /\ Tile(mm, F \cup L \cup {h})
                      /\ h \notin F /\ h \notin L
                      /\ mm[h].free = 1
                      /\ \A g \in F : mm[g].free = 1
                      /\ \A g \in L : mm[g].free = 0
                      /\ \A g \in F : g + mm[g].size \notin F

(* The first assignment of my_free(). *)
LEMMA FreeMark ==
  ASSUME NEW mm \in [Units -> Tags], NEW F, NEW L, Good(mm, F, L), NEW h \in L,
         NEW mn, IsSet(mm, mn, h, mm[h].size, 1)
  PROVE  /\ mn \in [Units -> Tags]
         /\ Loose(mn, F, L \ {h}, h)
         /\ mn[h].size = mm[h].size
         /\ Same(mm, mn, (F \cup L) \ {h})
         /\ SameBefore(mm, mn, h)
<1> USE DEF IsSet
<1> DEFINE C == F \cup L
<1>1. 1 \in Bit /\ Tile(mm, C) /\ h \in C /\ h \notin F
  BY DEF Good, Bit
<1>2. /\ mn \in [Units -> Tags]
      /\ Tile(mn, C)
      /\ mn[h] = [size |-> mm[h].size, free |-> 1]
      /\ \A g \in C : g # h => mn[g] = mm[g]
  <2> HIDE DEF C
  <2> QED BY <1>1, RetagTile
<1>3. F \cup (L \ {h}) \cup {h} = C
  OBVIOUS
<1>4. mn[h].free = 1 /\ mn[h].size = mm[h].size
  BY <1>2
<1>5. h # 0 => mn[h - 1] = mm[h - 1]
  <2>1. /\ h \in Nat /\ h \in Units /\ mm[h].size \in Nat /\ mm[h].size >= 4
        /\ h + mm[h].size - 1 \in Units
    BY <1>1, ChunkFacts
  <2>2. mm[h].size >= 1
    BY <2>1
  <2> QED BY <1>1, <2>1, <2>2, SetSizeBefore
<1>6. Loose(mn, F, L \ {h}, h)
  BY <1>1, <1>2, <1>3, <1>4 DEF Loose, Good
<1> QED BY <1>2, <1>4, <1>5, <1>6 DEF Same, SameBefore

(* "coalesce with next": afterwards h has no free right neighbour. *)
LEMMA FreeNext ==
  ASSUME NEW mm \in [Units -> Tags], NEW F, NEW L, NEW h, Loose(mm, F, L, h),
         NEW n \in F, IsNext(mm, h, n),
         NEW mn, IsSet(mm, mn, h, mm[h].size + mm[n].size, 1)
  PROVE  /\ mn \in [Units -> Tags]
         /\ Loose(mn, F \ {n}, L, h)
         /\ mn[h].size = mm[h].size + mm[n].size
         /\ h + mn[h].size \notin F \ {n}
         /\ Same(mm, mn, F \cup L)
         /\ SameBefore(mm, mn, h)
<1> USE DEF IsSet, IsNext
<1> DEFINE C == F \cup L \cup {h}
<1>1. /\ 1 \in Bit /\ Tile(mm, C) /\ h \in C /\ n \in C
      /\ h \notin F /\ h \notin L /\ n \notin L
  BY DEF Loose, Bit
<1>2. /\ mn \in [Units -> Tags]
      /\ Tile(mn, C \ {n})
      /\ mn[h] = [size |-> mm[h].size + mm[n].size, free |-> 1]
      /\ \A g \in C : g # h => mn[g] = mm[g]
  <2> HIDE DEF C, IsSet, IsNext
  <2>1. /\ mn \in [Units -> Tags]
        /\ Tile(mn, C \ {n})
        /\ mn[h] = [size |-> mm[h].size + mm[n].size, free |-> 1]
        /\ Same(mm, mn, C \ {h})
    BY <1>1, MergeTile
  <2> QED BY <2>1 DEF Same
<1>3. (F \ {n}) \cup L \cup {h} = C \ {n}
  BY <1>1
<1>4. mn[h].free = 1 /\ mn[h].size = mm[h].size + mm[n].size
  BY <1>2
<1>5. /\ h \in Nat /\ h \in Units /\ mm[h].size \in Nat
      /\ mm[n].size \in Nat /\ mm[n].size >= 4
      /\ n + mm[n].size - 1 \in Units
  <2> HIDE DEF C
  <2> QED BY <1>1, ChunkFacts
<1>6. h + mn[h].size = n + mm[n].size
  BY <1>4, <1>5
<1>7. h + mn[h].size \notin F
  <2>1. n + mm[n].size \notin F
    BY DEF Loose
  <2> QED BY <1>6, <2>1
<1>8. h # 0 => mn[h - 1] = mm[h - 1]
  <2> DEFINE sz == mm[h].size + mm[n].size
  <2>1. sz \in Nat /\ sz >= 1 /\ h + sz - 1 = n + mm[n].size - 1
    BY <1>5
  <2>2. h + sz - 1 \in Units
    BY <1>5, <2>1
  <2> HIDE DEF sz
  <2>3. mn = set_size(mm, h, sz, 1)
    BY DEF sz
  <2> QED BY <1>1, <1>5, <2>1, <2>2, <2>3, SetSizeBefore
<1>9. \A g \in F \cup L : mn[g] = mm[g]
  BY <1>1, <1>2
<1>10. Loose(mn, F \ {n}, L, h)
  <2>1. /\ \A g \in F : mm[g].free = 1 /\ g + mm[g].size \notin F
        /\ \A g \in L : mm[g].free = 0
    BY DEF Loose
  <2>2. /\ \A g \in F \ {n} : mn[g].free = 1 /\ g + mn[g].size \notin F \ {n}
        /\ \A g \in L : mn[g].free = 0
    BY <1>9, <2>1
  <2> QED BY <1>1, <1>2, <1>3, <1>4, <2>2 DEF Loose
<1> QED BY <1>2, <1>4, <1>7, <1>8, <1>9, <1>10 DEF Same, SameBefore

(* What prev_of() finds in front of h when it reads as free. *)
LEMMA PrevIsFree ==
  ASSUME NEW mm \in [Units -> Tags], NEW F, NEW L, NEW h, Loose(mm, F, L, h),
         h # 0, mm[h - mm[h - 1].size].free = 1
  PROVE  /\ h - mm[h - 1].size \in F
         /\ h = (h - mm[h - 1].size) + mm[h - mm[h - 1].size].size
<1> DEFINE C == F \cup L \cup {h}
           pr == h - mm[h - 1].size
<1>1. Tile(mm, C) /\ h \in C
  BY DEF Loose
<1>2. pr \in C /\ mm[pr].size = mm[h - 1].size
  <2> HIDE DEF C
  <2> QED BY <1>1, Neighbours
<1>3. h \in Nat /\ mm[pr].size \in Nat /\ mm[pr].size >= 4
  <2> HIDE DEF C, pr
  <2> QED BY <1>1, <1>2, ChunkFacts
<1>4. h = pr + mm[pr].size /\ pr # h
  BY <1>2, <1>3
<1>5. pr \notin L
  <2>1. \A g \in L : mm[g].free = 0
    BY DEF Loose
  <2>2. mm[pr].free = 1
    OBVIOUS
  <2> HIDE DEF pr
  <2> QED BY <2>1, <2>2
<1> HIDE DEF pr
<1>6. pr \in F
  BY <1>2, <1>4, <1>5
<1> QED BY <1>4, <1>6 DEF pr

(* "coalesce with prev". *)
LEMMA FreePrev ==
  ASSUME NEW mm \in [Units -> Tags], NEW F, NEW L, NEW h, Loose(mm, F, L, h),
         h + mm[h].size \notin F,
         NEW pr \in F, IsNext(mm, pr, h),
         NEW mn, IsSet(mm, mn, pr, mm[pr].size + mm[h].size, 1)
  PROVE  /\ mn \in [Units -> Tags]
         /\ Good(mn, F, L)
         /\ Same(mm, mn, L)
<1> USE DEF IsSet
<1> DEFINE C == F \cup L \cup {h}
<1>1. /\ 1 \in Bit /\ Tile(mm, C) /\ h \in C /\ pr \in C
      /\ h \notin F /\ h \notin L /\ pr \notin L
  BY DEF Loose, Bit
<1>2. pr \in Nat /\ mm[pr].size \in Nat /\ mm[h].size \in Nat
  <2> HIDE DEF C
  <2> QED BY <1>1, ChunkFacts
<1>3. /\ mn \in [Units -> Tags]
      /\ Tile(mn, C \ {h})
      /\ mn[pr] = [size |-> mm[pr].size + mm[h].size, free |-> 1]
      /\ \A g \in C : g # pr => mn[g] = mm[g]
  <2> HIDE DEF C, IsSet
  <2>2. /\ mn \in [Units -> Tags]
        /\ Tile(mn, C \ {h})
        /\ mn[pr] = [size |-> mm[pr].size + mm[h].size, free |-> 1]
        /\ Same(mm, mn, C \ {pr})
    BY <1>1, MergeTile
  <2> QED BY <2>2 DEF Same
<1>4. C \ {h} = F \cup L
  BY <1>1
<1>5. mn[pr].free = 1 /\ pr + mn[pr].size = h + mm[h].size
  BY <1>2, <1>3 DEF IsNext
<1>6. \A g \in F : g + mn[g].size \notin F
  BY <1>3, <1>5 DEF Loose
<1>7. \A g \in F : mn[g].free = 1
  BY <1>3, <1>5 DEF Loose
<1>8. \A g \in L : mn[g] = mm[g]
  BY <1>1, <1>3
<1>9. Good(mn, F, L)
  BY <1>3, <1>4, <1>6, <1>7, <1>8 DEF Good, Loose
<1> QED BY <1>3, <1>8, <1>9 DEF Same

(* No free left neighbour. *)
LEMMA FreeNoPrev ==
  ASSUME NEW mm \in [Units -> Tags], NEW F, NEW L, NEW h, Loose(mm, F, L, h),
         h + mm[h].size \notin F,
         h = 0 \/ mm[h - mm[h - 1].size].free # 1
  PROVE  Good(mm, F \cup {h}, L)
<1> DEFINE C == F \cup L \cup {h}
<1>1. /\ Tile(mm, C) /\ h \in C
      /\ h \notin F /\ h \notin L
  BY DEF Loose
<1>2. (F \cup {h}) \cup L = C
  OBVIOUS
<1>3. ASSUME NEW g \in C
      PROVE  /\ g \in Nat /\ mm[g].size \in Nat /\ mm[g].size >= 4
             /\ mm[g + mm[g].size - 1] = mm[g]
  <2>1. g \in Nat /\ mm[g].size \in Nat /\ mm[g].size >= 4
    <3> HIDE DEF C
    <3> QED BY <1>1, <1>3, ChunkFacts
  <2> QED BY <1>1, <1>3, <2>1 DEF Tile
<1>4. ASSUME NEW g \in F, g + mm[g].size = h PROVE FALSE
  <2>1. g \in C
    OBVIOUS
  <2>2. h # 0 /\ h - 1 = g + mm[g].size - 1 /\ mm[h - 1] = mm[g]
    BY <1>3, <1>4, <2>1
  <2>3. h - mm[h - 1].size = g
    BY <1>3, <1>4, <2>1, <2>2
  <2>4. mm[g].free = 1
    BY DEF Loose
  <2> QED BY <2>2, <2>3, <2>4
<1>5. h + mm[h].size # h
  BY <1>1, <1>3
<1>6. \A g \in F \cup {h} : g + mm[g].size \notin F \cup {h}
  BY <1>4, <1>5 DEF Loose
<1> QED BY <1>1, <1>2, <1>6 DEF Good, Loose

(* Writing anywhere but on a chunk's tags. *)
LEMMA GoodWrite ==
  ASSUME NEW mm \in [Units -> Tags], NEW mn, NEW F, NEW L, Good(mm, F, L),
         \A g \in F \cup L : /\ mn[g] = mm[g]
                             /\ mn[g + mm[g].size - 1] = mm[g + mm[g].size - 1]
  PROVE  Good(mn, F, L)
<1>1. Tile(mn, F \cup L)
  BY DEF Good, Tile
<1> QED BY <1>1 DEF Good
-----------------------------------------------------------------------------
(* A live chunk has room for what was asked for between its tags. *)
PayloadFits ==
  \A p \in live : /\ asked[p] > 0
                  /\ csz(p - HDR_SZ) >= HDR_SZ + ((asked[p] + 15) \div 16) + FTR_SZ

(* The inductive invariant: the parts of Tiling, ListIsFree and            *)
(* NoAdjacentFree, which hold only together, and the room for payloads.    *)
IInv == /\ TypeOK
        /\ Injective(free_list)
        /\ Good(mem, FreeChunks, LiveChunks)
        /\ PayloadFits

(* my_init() makes one free chunk. *)
LEMMA InitIInv == Init => IInv
<1> SUFFICES ASSUME Init PROVE IInv
  OBVIOUS
<1>1. /\ Cap \in Nat /\ 0 \in Units /\ 0 + Cap - 1 \in Units /\ Cap >= 4
      /\ 1 \in Bit /\ 0 + Cap - 1 = Cap - 1
  BY CapAssumption DEF Units, MIN_CHUNK, HDR_SZ, FTR_SZ, Bit
<1>2. [u \in Units |-> Junk] \in [Units -> Tags]
  BY DEF Junk, Tags, Bit
<1>3. /\ mem \in [Units -> Tags]
      /\ mem[0] = [size |-> Cap, free |-> 1]
      /\ mem[Cap - 1] = [size |-> Cap, free |-> 1]
  <2>1. PICK mm \in [Units -> Tags] : mm = [u \in Units |-> Junk]
    BY <1>2
  <2>2. mem = set_size(mm, 0, Cap, 1)
    BY <2>1 DEF Init
  <2> QED BY <1>1, <2>1, <2>2, SetSize
<1>4. FreeChunks = {0} /\ LiveChunks = {}
  BY DEF Init, FreeChunks, LiveChunks
<1>5. Tile(mem, {0})
  <2>1. mem[0].size = Cap /\ 0 + mem[0].size = Cap
    BY <1>1, <1>3
  <2>2. \A u \in Units : 0 <= u /\ u < Cap
    BY <1>1 DEF Units
  <2> QED BY <1>1, <1>3, <2>1, <2>2 DEF Tile, MIN_CHUNK, HDR_SZ, FTR_SZ
<1>6. Good(mem, FreeChunks, LiveChunks)
  <2>1. {0} \cup {} = {0} /\ 0 + mem[0].size # 0 /\ mem[0].free = 1
    BY <1>1, <1>3
  <2> QED BY <1>4, <1>5, <2>1 DEF Good
<1>7. TypeOK /\ Injective(free_list) /\ PayloadFits
  BY <1>1, <1>3 DEF TypeOK, Init, Injective, PayloadFits
<1> QED BY <1>6, <1>7 DEF IInv

(* A pointer and its chunk. *)
LEMMA LiveFacts ==
  ASSUME TypeOK, Good(mem, FreeChunks, LiveChunks), NEW p \in live
  PROVE  /\ p - HDR_SZ \in LiveChunks
         /\ p - HDR_SZ \in Nat /\ p \in Nat /\ p = (p - HDR_SZ) + HDR_SZ
         /\ csz(p - HDR_SZ) \in Nat
         /\ p - HDR_SZ + csz(p - HDR_SZ) <= Cap
<1>1. p - HDR_SZ \in LiveChunks
  BY DEF LiveChunks
<1>2. Tile(mem, FreeChunks \cup LiveChunks) /\ mem \in [Units -> Tags]
  BY DEF Good, TypeOK
<1>3. /\ p - HDR_SZ \in Nat
      /\ csz(p - HDR_SZ) \in Nat
      /\ p - HDR_SZ + csz(p - HDR_SZ) <= Cap
  BY <1>1, <1>2, ChunkFacts DEF csz
<1>4. p \in Nat /\ p = (p - HDR_SZ) + HDR_SZ
  BY CapAssumption DEF TypeOK, Units, HDR_SZ
<1> QED BY <1>1, <1>3, <1>4

(* my_malloc() keeps the invariant, whether it splits the chunk or not. *)
LEMMA MallocIInv ==
  ASSUME IInv, NEW req \in Requests, Malloc(req)
  PROVE  IInv'
<1> DEFINE need == Need(req)
           F == FreeChunks
           L == LiveChunks
<1>1. PICK j \in DOMAIN free_list :
        /\ FirstFit(need, j)
        /\ Carve(free_list[j], need)
        /\ live' = live \cup {free_list[j] + HDR_SZ}
        /\ asked' = [asked EXCEPT ![free_list[j] + HDR_SZ] = req]
  BY DEF Malloc
<1>2. PICK h \in F : h = free_list[j]
  BY DEF FreeChunks
<1>3. /\ need \in Nat /\ need >= MIN_CHUNK
      /\ need >= HDR_SZ + ((req + 15) \div 16) + FTR_SZ
      /\ req > 0 /\ req \in Nat
  BY NeedFits, RequestsAssumption DEF Malloc
<1> HIDE DEF need
<1>4. /\ mem \in [Units -> Tags] /\ free_list \in Seq(Units)
      /\ Injective(free_list) /\ F = Image(free_list)
      /\ Good(mem, F, L)
  BY DEF IInv, TypeOK, FreeChunks, Image
<1>5. /\ h \in Nat /\ h \in Units /\ mem[h].size \in Nat /\ mem[h].size >= 4
      /\ h + mem[h].size <= Cap /\ Cap \in Nat
  <2>1. Tile(mem, F \cup L) /\ h \in F \cup L
    BY <1>4 DEF Good
  <2> HIDE DEF F, L
  <2> QED BY <1>4, <2>1, ChunkFacts
<1>6. h + HDR_SZ \in Units
  <2>1. h + HDR_SZ \in Nat /\ h + HDR_SZ < Cap
    BY <1>5 DEF HDR_SZ
  <2> QED BY <2>1, InUnits
<1>7. L' = L \cup {h}
  <2>1. (h + HDR_SZ) - HDR_SZ = h
    BY <1>5 DEF HDR_SZ
  <2>2. \A x : x \in LiveChunks' <=> x \in LiveChunks \/ x = h
    BY <1>1, <1>2, <2>1 DEF LiveChunks
  <2> QED BY <2>2
<1>8. h \notin L
  <2>1. mem[h].free = 1 /\ \A g \in L : mem[g].free = 0
    BY <1>4 DEF Good
  <2> HIDE DEF L
  <2> QED BY <2>1
<1>9. csz(h) >= need
  BY <1>1, <1>2 DEF FirstFit
<1> DEFINE rest == fl_remove(free_list, h)
<1>10. /\ rest \in Seq(Units) /\ Injective(rest) /\ Image(rest) = F \ {h}
  <2> HIDE DEF F
  <2> QED BY <1>2, <1>4, FlRemove
<1> HIDE DEF rest
<1>11. /\ mem' \in [Units -> Tags] /\ free_list' \in Seq(Units)
       /\ Injective(free_list') /\ Good(mem', F', L')
       /\ mem'[h].size >= need /\ mem'[h].size \in Nat
       /\ \A g \in L : mem'[g].size = mem[g].size
  <2>1. F' = Image(free_list')
    BY DEF FreeChunks, Image
  <2>2. CASE csz(h) - need >= MIN_CHUNK
    <3>1. PICK left : left = mem[h].size - need
      OBVIOUS
    <3>2. PICK r : r = h + need
      OBVIOUS
    <3>3. /\ left >= MIN_CHUNK
          /\ mem' = set_size(set_size(mem, h, need, 0), r, left, 1)
          /\ free_list' = fl_insert(rest, r)
      BY <1>1, <1>2, <2>2, <3>1, <3>2 DEF Carve, csz, rest
    <3>4. /\ mem' \in [Units -> Tags]
          /\ r \in Units \ (F \cup L)
          /\ Good(mem', (F \ {h}) \cup {r}, L \cup {h})
          /\ mem'[h].size = need
          /\ \A g \in L : mem'[g].size = mem[g].size
      <4>1. IsSplit(mem, mem', h, need, left, r)
        BY <1>3, <3>1, <3>2, <3>3 DEF IsSplit
      <4>2. mem \in [Units -> Tags] /\ Good(mem, F, L)
        BY <1>4
      <4> HIDE DEF F, L
      <4>4. /\ mem' \in [Units -> Tags]
            /\ r \in Units \ (F \cup L)
            /\ Good(mem', (F \ {h}) \cup {r}, L \cup {h})
            /\ mem'[h].size = need
            /\ SameSize(mem, mem', L)
        BY <4>1, <4>2, GoodSplit
      <4> QED BY <4>4 DEF SameSize
    <3>5. /\ free_list' \in Seq(Units) /\ Injective(free_list')
          /\ Image(free_list') = (F \ {h}) \cup {r}
      <4> HIDE DEF F, L
      <4> QED BY <1>10, <3>3, <3>4, FlInsert
    <3> HIDE DEF F, L
    <3> QED BY <1>3, <1>7, <2>1, <3>4, <3>5
  <2>3. CASE ~(csz(h) - need >= MIN_CHUNK)
    <3>1. /\ mem' = set_size(mem, h, mem[h].size, 0)
          /\ free_list' = rest
      BY <1>1, <1>2, <2>3 DEF Carve, csz, rest
    <3>2. /\ mem' \in [Units -> Tags]
          /\ Good(mem', F \ {h}, L \cup {h})
          /\ \A g \in F \cup L : mem'[g].size = mem[g].size
      <4> HIDE DEF F, L
      <4>1. mem \in [Units -> Tags] /\ Good(mem, F, L)
        BY <1>4
      <4>2. IsSet(mem, mem', h, mem[h].size, 0)
        BY <3>1 DEF IsSet
      <4>3. /\ mem' \in [Units -> Tags]
            /\ Good(mem', F \ {h}, L \cup {h})
            /\ SameSize(mem, mem', F \cup L)
        BY <4>1, <4>2, GoodTake
      <4> QED BY <4>3 DEF SameSize
    <3>3. mem'[h].size >= need /\ mem'[h].size \in Nat
      BY <1>5, <1>9, <3>2 DEF csz
    <3> HIDE DEF F, L
    <3> QED BY <1>7, <1>10, <2>1, <3>1, <3>2, <3>3
  <2> QED BY <2>2, <2>3
<1>12. TypeOK'
  <2>1. live' \subseteq Units /\ asked' \in [Units -> Nat]
    BY <1>1, <1>2, <1>3, <1>6 DEF IInv, TypeOK
  <2> QED BY <1>11, <2>1 DEF TypeOK
<1>13. PayloadFits'
  <2> SUFFICES ASSUME NEW p \in live'
               PROVE  /\ asked'[p] > 0
                      /\ mem'[p - HDR_SZ].size >=
                           HDR_SZ + ((asked'[p] + 15) \div 16) + FTR_SZ
    BY DEF PayloadFits, csz
  <2>1. CASE p = h + HDR_SZ
    <3>1. asked'[p] = req /\ p - HDR_SZ = h
      BY <1>1, <1>2, <1>5, <1>6, <2>1 DEF IInv, TypeOK, HDR_SZ
    <3>2. (req + 15) \div 16 \in Nat
      BY <1>3
    <3> HIDE DEF L
    <3> QED BY <1>3, <1>11, <3>1, <3>2 DEF HDR_SZ, FTR_SZ
  <2>2. CASE p # h + HDR_SZ
    <3>1. p \in live /\ p - HDR_SZ \in LiveChunks
      BY <1>1, <1>2, <2>2 DEF LiveChunks
    <3>2. asked'[p] = asked[p]
      BY <1>1, <1>2, <2>2, <3>1 DEF IInv, TypeOK
    <3> QED BY <1>11, <3>1, <3>2 DEF IInv, PayloadFits, csz
  <2> QED BY <2>1, <2>2
<1> QED BY <1>11, <1>12, <1>13 DEF IInv

(* my_free() keeps it in all four cases of its neighbours. *)
LEMMA FreeIInv ==
  ASSUME IInv, NEW p \in live, Free(p)
  PROVE  IInv'
<1> DEFINE F == FreeChunks
           L == LiveChunks
<1>1. PICK h : h = p - HDR_SZ
  OBVIOUS
<1>2. /\ mem \in [Units -> Tags] /\ free_list \in Seq(Units)
      /\ Injective(free_list) /\ F = Image(free_list)
      /\ Good(mem, F, L)
  BY DEF IInv, TypeOK, FreeChunks, Image
<1>3. h \in L /\ h \in Nat /\ csz(h) \in Nat
  BY <1>1, LiveFacts DEF IInv
<1>4. L' = L \ {h}
  <2>1. \A q \in live : q # p => q - HDR_SZ # h
    BY <1>1, CapAssumption DEF IInv, TypeOK, Units, HDR_SZ
  <2>2. live' = live \ {p}
    BY DEF Free
  <2>3. \A x : x \in LiveChunks' <=> x \in LiveChunks /\ x # h
    BY <1>1, <2>1, <2>2 DEF LiveChunks
  <2> QED BY <2>3
<1>5. F' = Image(free_list')
  BY DEF FreeChunks, Image
(* set_size(h, csz(h), 1) *)
<1>6. PICK m1 : IsSet(mem, m1, h, mem[h].size, 1)
  BY DEF IsSet
<1>7. /\ m1 \in [Units -> Tags]
      /\ Loose(m1, F, L \ {h}, h)
      /\ m1[h].size = mem[h].size
      /\ Same(mem, m1, (F \cup L) \ {h})
      /\ SameBefore(mem, m1, h)
  <2> HIDE DEF F, L
  <2>1. mem \in [Units -> Tags] /\ Good(mem, F, L) /\ h \in L
    BY <1>2, <1>3
  <2> QED BY <1>6, <2>1, FreeMark
<1> DEFINE n == next_of(h)
           next_free == n < Cap /\ cfree(n)
<1>8. next_free <=> n \in F
  <2>1. Tile(mem, F \cup L) /\ h \in F \cup L
    BY <1>2, <1>3 DEF Good
  <2>2. n = Cap \/ n \in F \cup L
    BY <2>1 DEF Tile, next_of, csz
  <2>3. \A g \in F \cup L : g < Cap
    BY <2>1, CapAssumption DEF Tile, Units
  <2>4. Cap \in Nat
    BY CapAssumption
  <2>5. \A g \in F : mem[g].free = 1
    BY <1>2 DEF Good
  <2>6. \A g \in L : mem[g].free = 0
    BY <1>2 DEF Good
  <2> HIDE DEF F, L, n
  <2> QED BY <2>2, <2>3, <2>4, <2>5, <2>6 DEF cfree
<1> DEFINE size1 == IF next_free THEN csz(h) + csz(n) ELSE csz(h)
           list1 == IF next_free THEN fl_remove(free_list, n) ELSE free_list
           F1 == IF next_free THEN F \ {n} ELSE F
           mem1 == set_size(set_size(mem, h, csz(h), 1), h, size1, 1)
<1>9. IsSet(m1, mem1, h, size1, 1)
  BY <1>6 DEF IsSet, csz
<1>10. list1 \in Seq(Units) /\ Injective(list1) /\ Image(list1) = F1
  <2> HIDE DEF F, n
  <2> QED BY <1>2, <1>8, FlRemove
<1>11. /\ mem1 \in [Units -> Tags]
       /\ Loose(mem1, F1, L \ {h}, h)
       /\ h + mem1[h].size \notin F1
       /\ mem1[h].size = size1
       /\ Same(m1, mem1, F1 \cup (L \ {h}))
       /\ SameBefore(m1, mem1, h)
  <2>0. n = h + m1[h].size
    BY <1>7 DEF next_of, csz
  <2>1. CASE next_free
    <3>1. n \in F /\ n # h
      BY <1>7, <1>8, <2>1 DEF Loose
    <3>2. csz(n) = m1[n].size
      BY <1>7, <3>1 DEF Same, csz
    <3>3. IsSet(m1, mem1, h, m1[h].size + m1[n].size, 1) /\ F1 = F \ {n}
      BY <1>7, <1>9, <2>1, <3>2 DEF csz
    <3>4. size1 = m1[h].size + m1[n].size
      BY <1>7, <2>1, <3>2 DEF csz
    <3> HIDE DEF F, L, n, mem1, size1, F1, next_free
    <3>5. /\ mem1 \in [Units -> Tags]
          /\ Loose(mem1, F \ {n}, L \ {h}, h)
          /\ mem1[h].size = m1[h].size + m1[n].size
          /\ h + mem1[h].size \notin F \ {n}
          /\ Same(m1, mem1, F \cup (L \ {h}))
          /\ SameBefore(m1, mem1, h)
      <4>1. m1 \in [Units -> Tags] /\ Loose(m1, F, L \ {h}, h) /\ n \in F
        BY <1>7, <3>1
      <4>2. IsSet(m1, mem1, h, m1[h].size + m1[n].size, 1)
        BY <3>3
      <4>3. IsNext(m1, h, n)
        BY <2>0 DEF IsNext
      <4> QED BY <4>1, <4>2, <4>3, FreeNext
    <3> QED BY <3>3, <3>4, <3>5 DEF Same
  <2>2. CASE ~next_free
    <3>1. IsSet(m1, mem1, h, m1[h].size, 1) /\ size1 = m1[h].size /\ F1 = F
      BY <1>7, <1>9, <2>2 DEF csz
    <3>2. n \notin F
      BY <1>8, <2>2
    <3>3. Tile(m1, F \cup (L \ {h}) \cup {h}) /\ 1 \in Bit
      BY <1>7 DEF Loose, Bit
    <3>4. /\ h \in Units /\ h + m1[h].size - 1 \in Units
          /\ m1[h].size \in Nat /\ m1[h].size >= 4 /\ m1[h].size >= 1
      <4> DEFINE C == F \cup (L \ {h}) \cup {h}
      <4>1. h \in C /\ Tile(m1, C)
        BY <3>3
      <4> HIDE DEF C
      <4>2. /\ h \in Units /\ h + m1[h].size - 1 \in Units
            /\ m1[h].size \in Nat /\ m1[h].size >= 4
        BY <1>7, <4>1, ChunkFacts
      <4> QED BY <4>2
    <3>5. mem1 = m1
      <4>0. m1[h] \in Tags /\ m1[h].free = 1
        BY <1>7, <3>4 DEF Loose
      <4>1. m1[h] = [size |-> m1[h].size, free |-> 1]
        BY <4>0 DEF Tags
      <4>2. m1[h + m1[h].size - 1] = m1[h]
        BY <3>3 DEF Tile
      <4> HIDE DEF mem1
      <4> QED BY <1>7, <3>1, <3>4, <4>1, <4>2 DEF IsSet, set_size, FTR_SZ
    <3> HIDE DEF F, L, n, mem1, size1, F1
    <3> QED BY <1>7, <2>0, <3>1, <3>2, <3>5 DEF Same, SameBefore
  <2> HIDE DEF F, L, n, mem1, size1, F1, next_free
  <2> QED BY <2>1, <2>2
<1> DEFINE pr == prev_of(h)
           prev_free == pr # NULL /\ cfree(pr)
<1>12. /\ \/ /\ prev_free
             /\ mem' = set_size(mem1, pr, csz(pr) + size1, 1)
             /\ free_list' = fl_insert(fl_remove(list1, pr), pr)
          \/ /\ ~prev_free
             /\ mem' = mem1
             /\ free_list' = fl_insert(list1, h)
       /\ live' = live \ {p}
       /\ asked' = [asked EXCEPT ![p] = 0]
  BY <1>1 DEF Free
<1>13. h \in Units /\ h \notin F1
  <2>1. Tile(mem, F \cup L) /\ h \notin F
    BY <1>2, <1>3 DEF Good
  <2> QED BY <1>3, <2>1 DEF Tile
<1>14. ASSUME h # 0
       PROVE  /\ pr = h - mem1[h - 1].size
              /\ pr # NULL
              /\ mem1[pr] = mem[pr]
  <2>1. Tile(mem, F \cup L) /\ h \in F \cup L
    BY <1>2, <1>3 DEF Good
  <2>2. pr = h - mem[h - 1].size
    BY <1>14 DEF prev_of, FTR_SZ
  <2>3. pr \in F \cup L /\ mem[pr].size = mem[h - 1].size
    <3> DEFINE C == F \cup L
    <3> HIDE DEF C, pr
    <3>1. Tile(mem, C) /\ h \in C
      BY <2>1 DEF C
    <3>2. pr \in C /\ mem[pr].size = mem[h - 1].size
      BY <1>2, <1>14, <2>2, <3>1, Neighbours
    <3> QED BY <3>2 DEF C
  <2>4. /\ pr \in Nat /\ mem[pr].size \in Nat /\ mem[pr].size >= 4
        /\ mem[h].size \in Nat /\ mem[h].size >= 4
    <3> DEFINE C == F \cup L
    <3>1. Tile(mem, C) /\ h \in C /\ pr \in C
      BY <2>1, <2>3
    <3> HIDE DEF C, pr
    <3> QED BY <1>2, <3>1, ChunkFacts
  <2>5. pr # h /\ pr # n
    <3>1. n = h + mem[h].size
      BY DEF next_of, csz
    <3> HIDE DEF pr, n
    <3> QED BY <1>3, <2>2, <2>3, <2>4, <3>1
  <2>6. pr # NULL
    BY <2>4, NullAssumption
  <2>7. mem1[h - 1] = mem[h - 1]
    BY <1>7, <1>11, <1>14 DEF SameBefore
  <2> HIDE DEF F, L, pr, n, mem1, size1
  <2>8. pr \in F1 \cup (L \ {h}) /\ pr \in (F \cup L) \ {h}
    BY <2>3, <2>5
  <2>9. mem1[pr] = mem[pr]
    BY <1>7, <1>11, <2>8 DEF Same
  <2> QED BY <2>2, <2>6, <2>7, <2>9
<1>15. h = 0 => pr = NULL
  BY DEF prev_of
<1>16. /\ mem' \in [Units -> Tags] /\ free_list' \in Seq(Units)
       /\ Injective(free_list') /\ Good(mem', F', L')
       /\ Same(mem1, mem', L \ {h})
  <2>1. CASE prev_free
    <3>1. h # 0 /\ mem1[pr].free = 1
      BY <1>14, <1>15, <2>1 DEF cfree
    <3>2. pr = h - mem1[h - 1].size /\ csz(pr) = mem1[pr].size
      BY <1>14, <3>1 DEF csz
    <3>3. IsSet(mem1, mem', pr, mem1[pr].size + mem1[h].size, 1)
      BY <1>11, <1>12, <2>1, <3>2 DEF IsSet
    <3>4. free_list' = fl_insert(fl_remove(list1, pr), pr)
      BY <1>12, <2>1
    <3> HIDE DEF F, L, pr, n, mem1, size1, F1, list1, prev_free, next_free
    <3>5. pr \in F1 /\ IsNext(mem1, pr, h)
      BY <1>11, <3>1, <3>2, PrevIsFree DEF IsNext
    <3>6. /\ mem' \in [Units -> Tags]
          /\ Good(mem', F1, L \ {h})
          /\ Same(mem1, mem', L \ {h})
      BY <1>11, <3>3, <3>5, FreePrev
    <3>7. /\ fl_remove(list1, pr) \in Seq(Units)
          /\ Image(fl_remove(list1, pr)) = F1 \ {pr}
          /\ Injective(fl_remove(list1, pr))
      BY <1>10, <3>5, FlRemove
    <3>8. F1 \subseteq Units
      BY <1>11 DEF Loose, Tile
    <3>9. /\ free_list' \in Seq(Units) /\ Injective(free_list')
          /\ Image(free_list') = (F1 \ {pr}) \cup {pr}
      BY <3>4, <3>5, <3>7, <3>8, FlInsert
    <3>10. (F1 \ {pr}) \cup {pr} = F1
      BY <3>5
    <3> QED BY <1>4, <1>5, <3>6, <3>9, <3>10
  <2>2. CASE ~prev_free
    <3>1. h = 0 \/ mem1[h - mem1[h - 1].size].free # 1
      BY <1>14, <2>2 DEF cfree
    <3>2. mem' = mem1 /\ free_list' = fl_insert(list1, h)
      BY <1>12, <2>2
    <3> HIDE DEF F, L, pr, n, mem1, size1, F1, list1, prev_free, next_free
    <3>3. Good(mem1, F1 \cup {h}, L \ {h})
      BY <1>11, <3>1, FreeNoPrev
    <3>4. /\ free_list' \in Seq(Units) /\ Injective(free_list')
          /\ Image(free_list') = F1 \cup {h}
      BY <1>10, <1>13, <3>2, FlInsert
    <3> QED BY <1>4, <1>5, <1>11, <3>2, <3>3, <3>4 DEF Same
  <2> QED BY <2>1, <2>2
<1>17. \A q \in live' : mem'[q - HDR_SZ] = mem[q - HDR_SZ]
  <2> SUFFICES ASSUME NEW q \in live' PROVE mem'[q - HDR_SZ] = mem[q - HDR_SZ]
    OBVIOUS
  <2>1. q - HDR_SZ \in L \ {h}
    BY <1>4 DEF LiveChunks
  <2> HIDE DEF F, L, mem1, F1
  <2>2. mem'[q - HDR_SZ] = mem1[q - HDR_SZ]
    BY <1>16, <2>1 DEF Same
  <2>3. mem1[q - HDR_SZ] = m1[q - HDR_SZ]
    BY <1>11, <2>1 DEF Same
  <2>4. m1[q - HDR_SZ] = mem[q - HDR_SZ]
    BY <1>7, <2>1 DEF Same
  <2> QED BY <2>2, <2>3, <2>4
<1>18. TypeOK'
  <2>1. live' \subseteq Units /\ asked' \in [Units -> Nat]
    BY <1>12 DEF IInv, TypeOK
  <2> QED BY <1>16, <2>1 DEF TypeOK
<1>19. PayloadFits'
  <2>1. \A q \in live' : q \in live /\ asked'[q] = asked[q]
    BY <1>12 DEF IInv, TypeOK
  <2> QED BY <1>17, <2>1 DEF IInv, PayloadFits, csz
<1> QED BY <1>16, <1>18, <1>19 DEF IInv

(* What the caller may write lies strictly between a chunk's tags. *)
LEMMA PayloadInside ==
  ASSUME IInv, NEW p \in live, NEW u \in Payload(p)
  PROVE  /\ u \in Units
         /\ p - HDR_SZ + HDR_SZ <= u
         /\ u < p - HDR_SZ + csz(p - HDR_SZ) - FTR_SZ
<1>1. /\ p - HDR_SZ \in Nat /\ p \in Nat /\ csz(p - HDR_SZ) \in Nat
      /\ p - HDR_SZ + csz(p - HDR_SZ) <= Cap
  BY LiveFacts DEF IInv
<1>2. /\ asked[p] \in Nat
      /\ csz(p - HDR_SZ) >= HDR_SZ + ((asked[p] + 15) \div 16) + FTR_SZ
  BY DEF IInv, TypeOK, PayloadFits
<1>3. PICK w \in Nat : w = (asked[p] + 15) \div 16
  BY <1>2
<1>4. u \in Int /\ p <= u /\ u < p + w
  BY <1>1, <1>3 DEF Payload
<1>5. /\ p - HDR_SZ + HDR_SZ <= u
      /\ u < p - HDR_SZ + csz(p - HDR_SZ) - FTR_SZ
  BY <1>1, <1>2, <1>3, <1>4 DEF HDR_SZ, FTR_SZ
<1>6. u \in Nat /\ u < Cap
  BY <1>1, <1>4, <1>5, CapAssumption DEF HDR_SZ, FTR_SZ
<1> QED BY <1>5, <1>6, InUnits

(* Hence on no tag, and no links, of any chunk. *)
LEMMA PayloadAvoidsTags ==
  ASSUME IInv, NEW p \in live, NEW u \in Payload(p), NEW h \in Chunks
  PROVE  u # h /\ u # h + 1 /\ u # h + csz(h) - FTR_SZ
<1> DEFINE g == p - HDR_SZ
<1>1. /\ g + 2 <= u /\ u < g + csz(g) - 1 /\ u \in Nat
  BY PayloadInside, CapAssumption DEF HDR_SZ, FTR_SZ, Units
<1>2. g \in Chunks
  BY LiveFacts DEF IInv, Chunks
<1>3. mem \in [Units -> Tags] /\ Tile(mem, Chunks)
  BY DEF IInv, TypeOK, Good, Chunks
<1>4. /\ g \in Nat /\ csz(g) \in Nat
      /\ h \in Nat /\ csz(h) \in Nat /\ csz(h) >= 4
      /\ g # h => g + csz(g) <= h \/ h + csz(h) <= g
  <2> HIDE DEF g
  <2> QED BY <1>2, <1>3, ChunkFacts DEF csz
<1> HIDE DEF g
<1> QED BY <1>1, <1>4 DEF FTR_SZ

(* So does a caller that writes over everything it asked for. *)
LEMMA WriteIInv ==
  ASSUME IInv, NEW p \in live, UserWrite(p)
  PROVE  IInv'
<1>1. /\ mem' = [u \in Units |-> IF u \in Payload(p) THEN Junk ELSE mem[u]]
      /\ UNCHANGED <<free_list, live, asked>>
  BY DEF UserWrite
<1>2. mem \in [Units -> Tags] /\ Good(mem, FreeChunks, LiveChunks)
  BY DEF IInv, TypeOK
<1>3. mem' \in [Units -> Tags]
  BY <1>1, <1>2 DEF Junk, Tags, Bit
<1>4. ASSUME NEW g \in FreeChunks \cup LiveChunks
      PROVE  /\ mem'[g] = mem[g]
             /\ mem'[g + mem[g].size - 1] = mem[g + mem[g].size - 1]
  <2>1. g \in Chunks
    BY DEF Chunks
  <2>2. g \notin Payload(p) /\ g + mem[g].size - 1 \notin Payload(p)
    BY <2>1, PayloadAvoidsTags DEF csz, FTR_SZ
  <2>3. Tile(mem, Chunks)
    BY <1>2 DEF Good, Chunks
  <2>4. g \in Units /\ g + mem[g].size - 1 \in Units
    BY <1>2, <2>1, <2>3, ChunkFacts
  <2> QED BY <1>1, <2>2, <2>4
<1>5. FreeChunks' = FreeChunks /\ LiveChunks' = LiveChunks
  BY <1>1 DEF FreeChunks, LiveChunks
<1>6. Good(mem', FreeChunks, LiveChunks)
  BY <1>2, <1>4, GoodWrite
<1>7. PayloadFits'
  <2>1. \A q \in live : q - HDR_SZ \in FreeChunks \cup LiveChunks
    BY DEF LiveChunks
  <2>2. \A q \in live : mem'[q - HDR_SZ] = mem[q - HDR_SZ]
    BY <1>4, <2>1
  <2> QED BY <1>1, <2>2 DEF IInv, PayloadFits, csz
<1> QED BY <1>1, <1>3, <1>5, <1>6, <1>7 DEF IInv, TypeOK, Injective

(* The inductive invariant holds of every sequence of my_malloc(),         *)
(* my_free() and writes by callers, for every size of the heap.            *)
THEOREM Invariance == Spec => []IInv
<1>1. IInv /\ [Next]_vars => IInv'
  <2> SUFFICES ASSUME IInv, [Next]_vars PROVE IInv'
    OBVIOUS
  <2>1. ASSUME NEW req \in Requests, Malloc(req) PROVE IInv'
    BY <2>1, MallocIInv
  <2>2. ASSUME NEW p \in live, Free(p) PROVE IInv'
    BY <2>2, FreeIInv
  <2>3. ASSUME NEW p \in live, UserWrite(p) PROVE IInv'
    BY <2>3, WriteIInv
  <2>4. CASE UNCHANGED vars
    BY <2>4 DEF vars, IInv, TypeOK, Injective, FreeChunks, LiveChunks, PayloadFits, csz
  <2> QED BY <2>1, <2>2, <2>3, <2>4 DEF Next, MallocFails, FreeNull
<1> QED BY InitIInv, <1>1, PTL DEF Spec
-----------------------------------------------------------------------------
(* Every tag my_malloc() and my_free() write, and every pointer on the     *)
(* list, is one of the heap.                                               *)
THEOREM TypeCorrect == Spec => []TypeOK
<1>1. IInv => TypeOK
  BY DEF IInv
<1> QED BY <1>1, Invariance, PTL

(* Splitting in my_malloc() and coalescing in my_free() keep the heap      *)
(* tiled by chunks with matching headers and footers.                      *)
THEOREM TilingCorrect == Spec => []Tiling
<1>1. IInv => Tiling
  <2> SUFFICES ASSUME IInv PROVE Tiling
    OBVIOUS
  <2>1. mem \in [Units -> Tags] /\ Tile(mem, Chunks)
    BY DEF IInv, TypeOK, Good, Chunks
  <2>2. Chunks \subseteq Units
    BY <2>1 DEF Tile
  <2> QED BY <2>1, <2>2, TilingIsTile
<1> QED BY <1>1, Invariance, PTL

(* The list my_malloc() searches holds exactly the chunks marked free,     *)
(* each once.                                                              *)
THEOREM ListCorrect == Spec => []ListIsFree
<1>1. IInv => ListIsFree
  BY DEF IInv, ListIsFree, Good, Injective, cfree
<1> QED BY <1>1, Invariance, PTL

(* my_free() coalesces both ways, so no two free chunks are neighbours. *)
THEOREM CoalescingComplete == Spec => []NoAdjacentFree
<1>1. IInv => NoAdjacentFree
  BY DEF IInv, NoAdjacentFree, Good, next_of, csz
<1> QED BY <1>1, Invariance, PTL

(* No caller can overwrite a header, a link or a footer by writing the     *)
(* bytes it asked my_malloc() for.                                         *)
THEOREM PrivateCorrect == Spec => []PayloadIsPrivate
<1>1. IInv => PayloadIsPrivate
  <2> SUFFICES ASSUME IInv, NEW p \in live, NEW h \in Chunks
               PROVE  Payload(p) \cap {h, h + 1, h + csz(h) - FTR_SZ} = {}
    BY DEF PayloadIsPrivate
  <2> QED BY PayloadAvoidsTags
<1> QED BY <1>1, Invariance, PTL

(* When everything has been given to my_free() the heap is one chunk       *)
(* again, as the comment in main() says.                                   *)
THEOREM AllFreedCorrect == Spec => []AllFreedIsOneChunk
<1>1. IInv => AllFreedIsOneChunk
  <2> SUFFICES ASSUME IInv, live = {} PROVE free_list = <<0>> /\ csz(0) = Cap
    BY DEF AllFreedIsOneChunk
  <2>1. LiveChunks = {} /\ mem \in [Units -> Tags] /\ free_list \in Seq(Units)
    BY DEF LiveChunks, IInv, TypeOK
  <2>2. Tile(mem, FreeChunks)
    BY <2>1 DEF IInv, Good
  <2>3. 0 \in Units /\ \A u \in Units : u \in Nat /\ u < Cap
    BY CapAssumption DEF Units, MIN_CHUNK, HDR_SZ, FTR_SZ
  <2>4. PICK h \in FreeChunks : h <= 0 /\ 0 < h + mem[h].size
    BY <2>2, <2>3 DEF Tile
  <2>5. h = 0
    BY <2>2, <2>3, <2>4 DEF Tile
  <2>6. 0 + mem[0].size = Cap
    BY <2>2, <2>4, <2>5 DEF Tile, IInv, Good
  <2>7. mem[0].size = Cap
    BY <2>1, <2>3, <2>6 DEF Tags
  <2>8. FreeChunks = {0}
    <3>1. ASSUME NEW g \in FreeChunks, g # 0 PROVE FALSE
      <4>1. g \in Nat /\ g < Cap /\ 0 < g
        BY <2>2, <2>3, <3>1 DEF Tile
      <4>2. 0 + mem[0].size <= g
        BY <2>2, <2>4, <2>5, <4>1 DEF Tile
      <4>3. 0 + Cap <= g
        BY <2>7, <4>2
      <4> QED BY <4>1, <4>3, CapAssumption
    <3> QED BY <2>4, <2>5, <3>1
  <2>9. free_list = <<0>>
    <3>1. \A j \in DOMAIN free_list : free_list[j] = 0
      BY <2>8 DEF FreeChunks
    <3>2. DOMAIN free_list # {}
      BY <2>8 DEF FreeChunks
    <3>3. Len(free_list) \in Nat /\ DOMAIN free_list = 1 .. Len(free_list)
      BY <2>1
    <3>4. Len(free_list) = 1
      <4>1. Len(free_list) >= 1
        BY <3>2, <3>3
      <4>2. 1 \in DOMAIN free_list /\ (Len(free_list) >= 2 => 2 \in DOMAIN free_list)
        BY <3>3, <4>1
      <4> QED BY <3>1, <3>3, <4>1, <4>2 DEF IInv, Injective
    <3> QED BY <2>1, <3>1, <3>3, <3>4
  <2> QED BY <2>7, <2>9 DEF csz
<1> QED BY <1>1, Invariance, PTL

(* A run of units that meets no live chunk starts in a free chunk, and     *)
(* cannot leave it: what follows a free chunk is live.                     *)
THEOREM NullCorrect == Spec => []NullOnlyIfNoRoom
<1>1. IInv => NullOnlyIfNoRoom
  <2> SUFFICES ASSUME IInv, NEW need \in MIN_CHUNK .. Cap,
                      \A h \in FreeChunks : csz(h) < need,
                      NEW u \in Units, u + need <= Cap,
                      \A h \in LiveChunks : Extent(h) \cap (u .. u + need - 1) = {}
               PROVE  FALSE
    BY DEF NullOnlyIfNoRoom
  <2>1. mem \in [Units -> Tags] /\ Tile(mem, Chunks)
    BY DEF IInv, TypeOK, Good, Chunks
  <2>2. /\ Cap \in Nat /\ need \in Nat /\ need >= 4 /\ u \in Nat
    BY CapAssumption DEF Units, MIN_CHUNK, HDR_SZ, FTR_SZ
  <2>3. PICK h \in Chunks : h <= u /\ u < h + mem[h].size
    BY <2>1 DEF Tile
  <2>4. \A g \in Chunks : /\ g \in Nat /\ mem[g].size \in Nat /\ mem[g].size >= 4
    BY <2>1, ChunkFacts
  <2>5. h \in FreeChunks
    <3>1. ASSUME h \in LiveChunks PROVE FALSE
      <4>1. u \in Extent(h) /\ u \in u .. u + need - 1
        BY <2>2, <2>3, <2>4 DEF Extent, csz
      <4> QED BY <3>1, <4>1
    <3> QED BY <3>1 DEF Chunks
  <2> DEFINE e == h + mem[h].size
  <2>6. e \in Nat /\ u < e /\ e < u + need /\ e < Cap
    BY <2>2, <2>3, <2>4, <2>5 DEF csz
  <2>7. e \in LiveChunks
    <3>1. e = Cap \/ e \in Chunks
      BY <2>1 DEF Tile
    <3>2. e \notin FreeChunks
      BY <2>5 DEF IInv, Good
    <3> QED BY <2>2, <2>6, <3>1, <3>2 DEF Chunks
  <2> HIDE DEF e
  <2>8. e \in Extent(e) /\ e \in u .. u + need - 1
    <3>1. e \in Chunks
      BY <2>7 DEF Chunks
    <3> QED BY <2>2, <2>4, <2>6, <3>1 DEF Extent, csz
  <2> QED BY <2>7, <2>8
<1> QED BY <1>1, Invariance, PTL
-----------------------------------------------------------------------------
(* my_malloc() and my_free() implement the abstract allocator. *)
Held == {Payload(p) : p \in live}

(* A block placed inside a free chunk misses every block in use. *)
LEMMA FreshIsDisjoint ==
  ASSUME IInv, NEW h \in FreeChunks, NEW u \in Nat,
         h + HDR_SZ <= u, u < h + csz(h) - FTR_SZ,
         NEW p \in live
  PROVE  u \in Units /\ u \notin Payload(p)
<1> DEFINE g == p - HDR_SZ
<1>1. g \in LiveChunks
  BY LiveFacts DEF IInv
<1>2. g \in Chunks /\ h \in Chunks /\ g # h
  <2>1. mem[g].free = 0 /\ mem[h].free = 1
    BY <1>1 DEF IInv, Good
  <2> QED BY <1>1, <2>1 DEF Chunks
<1>3. mem \in [Units -> Tags] /\ Tile(mem, Chunks)
  BY DEF IInv, TypeOK, Good, Chunks
<1>4. ASSUME u \in Payload(p) PROVE g + 2 <= u /\ u < g + csz(g) - 1
  BY <1>4, PayloadInside DEF HDR_SZ, FTR_SZ
<1> HIDE DEF g
<1>5. /\ g \in Nat /\ csz(g) \in Nat /\ h \in Nat /\ csz(h) \in Nat
      /\ g + csz(g) <= h \/ h + csz(h) <= g
      /\ h + csz(h) <= Cap /\ Cap \in Nat
  BY <1>2, <1>3, ChunkFacts DEF csz
<1>6. u < Cap
  BY <1>5 DEF FTR_SZ
<1> QED BY <1>4, <1>5, <1>6, InUnits DEF HDR_SZ, FTR_SZ

(* my_malloc() and my_free() implement the abstract allocator: the blocks  *)
(* in the callers' hands lie in the heap and never overlap.                *)
THEOREM RefinesBlocks == Spec => ImplementsBlocks
<1>1. Init => Blocks!Init
  BY DEF Init, Blocks!Init
<1>2. IInv /\ [Next]_vars => [Blocks!Next]_Held
  <2> SUFFICES ASSUME IInv, [Next]_vars PROVE [Blocks!Next]_Held
    OBVIOUS
  <2>1. ASSUME NEW req \in Requests, Malloc(req) PROVE Blocks!Alloc
    <3>1. PICK j \in DOMAIN free_list :
            /\ FirstFit(Need(req), j)
            /\ live' = live \cup {free_list[j] + HDR_SZ}
            /\ asked' = [asked EXCEPT ![free_list[j] + HDR_SZ] = req]
      BY <2>1 DEF Malloc
    <3>2. PICK h \in FreeChunks : h = free_list[j]
      BY DEF FreeChunks
    <3>3. PICK q : q = h + HDR_SZ
      OBVIOUS
    <3>4. /\ h \in Nat /\ csz(h) \in Nat /\ csz(h) >= 4 /\ h + csz(h) <= Cap
          /\ Cap \in Nat
      <4>1. mem \in [Units -> Tags] /\ Tile(mem, Chunks) /\ h \in Chunks
        BY DEF IInv, TypeOK, Good, Chunks
      <4> QED BY <4>1, ChunkFacts DEF csz
    <3>5. q \in Units /\ q \in Nat /\ q - HDR_SZ = h
      <4>1. q \in Nat /\ q < Cap /\ q - HDR_SZ = h
        BY <3>3, <3>4 DEF HDR_SZ
      <4> QED BY <4>1, InUnits
    <3>6. q \notin live
      <4>1. h \notin LiveChunks
        <5>1. mem[h].free = 1 /\ \A g \in LiveChunks : mem[g].free = 0
          BY DEF IInv, Good
        <5> QED BY <5>1
      <4> QED BY <3>5, <4>1 DEF LiveChunks
    <3>7. asked'[q] = req /\ \A p \in live : asked'[p] = asked[p]
      BY <3>1, <3>2, <3>3, <3>5, <3>6 DEF IInv, TypeOK
    <3> DEFINE b == q .. q + ((req + 15) \div 16) - 1
    <3>8. Held' = Held \cup {b}
      <4>1. Payload(q)' = b /\ \A p \in live : Payload(p)' = Payload(p)
        BY <3>7 DEF Payload
      <4>2. live' = live \cup {q}
        BY <3>1, <3>2, <3>3
      <4> QED BY <4>1, <4>2 DEF Held
    <3>9. ASSUME NEW u \in b
          PROVE  u \in Nat /\ h + HDR_SZ <= u /\ u < h + csz(h) - FTR_SZ
      <4>1. /\ csz(h) >= Need(req) /\ Need(req) \in Nat
            /\ Need(req) >= HDR_SZ + ((req + 15) \div 16) + FTR_SZ
            /\ (req + 15) \div 16 \in Nat
        BY <2>1, <3>1, <3>2, NeedFits DEF FirstFit, Malloc
      <4>2. PICK w \in Nat : w = (req + 15) \div 16
        BY <4>1
      <4>3. u \in Int /\ q <= u /\ u < q + w
        BY <3>5, <4>2
      <4> QED BY <3>3, <3>4, <4>1, <4>2, <4>3 DEF HDR_SZ, FTR_SZ
    <3> HIDE DEF b
    <3>10. b \subseteq Units
      <4>1. \A u \in b : u \in Nat /\ u < Cap
        BY <3>4, <3>9 DEF FTR_SZ
      <4> QED BY <4>1, InUnits
    <3>11. \A c \in Held : c \cap b = {}
      BY <3>9, FreshIsDisjoint DEF Held
    <3> QED BY <3>8, <3>10, <3>11 DEF Blocks!Alloc, Held
  <2>2. ASSUME NEW p \in live, Free(p) PROVE Blocks!Free
    <3>1. live' = live \ {p} /\ asked' = [asked EXCEPT ![p] = 0]
      BY <2>2 DEF Free
    <3>2. \A q \in live' : Payload(q)' = Payload(q)
      BY <3>1 DEF Payload, IInv, TypeOK
    <3>3. \A q \in live' : Payload(q) # Payload(p)
      <4> SUFFICES ASSUME NEW q \in live' PROVE Payload(q) # Payload(p)
        OBVIOUS
      <4>1. q \in live /\ q # p /\ p \in Nat /\ q \in Nat
        BY <3>1, CapAssumption DEF IInv, TypeOK, Units
      <4>2. \A r \in live : asked[r] \in Nat /\ asked[r] > 0
        BY DEF IInv, TypeOK, PayloadFits
      <4>3. \A r \in live : (asked[r] + 15) \div 16 \in Nat /\ (asked[r] + 15) \div 16 >= 1
        BY <4>2
      <4>4. p \in Payload(p) /\ q \in Payload(q)
        BY <4>1, <4>3 DEF Payload
      <4>5. ~(p \in Payload(q) /\ q \in Payload(p))
        BY <4>1, <4>3 DEF Payload
      <4> QED BY <4>4, <4>5
    <3>4. Held' = Held \ {Payload(p)}
      BY <3>1, <3>2, <3>3 DEF Held
    <3> QED BY <3>4 DEF Blocks!Free, Held
  <2>3. ASSUME UNCHANGED <<live, asked>> PROVE UNCHANGED Held
    BY <2>3 DEF Held, Payload
  <2> QED
    BY <2>1, <2>2, <2>3
       DEF Next, MallocFails, FreeNull, UserWrite, vars, Blocks!Next
<1>3. Blocks!Spec <=> Blocks!Init /\ [][Blocks!Next]_Held
  BY DEF Blocks!Spec, Held
<1> QED BY <1>1, <1>2, <1>3, Invariance, PTL DEF Spec, ImplementsBlocks
=============================================================================

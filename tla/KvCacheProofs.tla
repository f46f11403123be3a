--------------------------- MODULE KvCacheProofs ---------------------------
(***************************************************************************)
(* Proofs about KvCache: for a context of any size, any number of tokens   *)
(* decoded, pruned, saved and loaded in any order.                         *)
(*                                                                         *)
(* CacheFollowsRecord speaks of a set of cells and its cardinality.  The   *)
(* induction is over what such a set looks like: the cells 0 .. n-1, each  *)
(* with its token, which every operation of the cache turns into another   *)
(* set of that form.                                                       *)
(***************************************************************************)
EXTENDS KvCache, FiniteSetTheorems, SequenceTheorems, TLAPS

Cells(n, f) == {Cell(p, f[p]) : p \in 0 .. n - 1}

(* The tokens f of n cells are those of the record s: all of them, or some *)
(* of them in their order if a decode has failed.                          *)
Matches(n, f, s, bad) ==
  /\ n <= Len(s)
  /\ bad \/ (n = Len(s) /\ \A p \in 0 .. n - 1 : f[p] = s[p + 1])
  /\ \A p \in 0 .. n - 1 : \E i \in 1 .. Len(s) : i > p /\ s[i] = f[p]
  /\ \A p, q \in 0 .. n - 1 : p < q => f[p] < f[q]

Mirrors(c, s, bad) ==
  \E n \in Nat : \E f \in [0 .. n - 1 -> Nat] : c = Cells(n, f) /\ Matches(n, f, s, bad)

Increasing(s) == \A i, j \in 1 .. Len(s) : i < j => s[i] < s[j]

LastOf(s) == IF s = <<>> THEN 0 ELSE s[Len(s)]

-----------------------------------------------------------------------------
(* Sets of cells.                                                          *)

LEMMA CellIs == \A p, t : Cell(p, t).pos = p /\ Cell(p, t).tok = t
  BY DEF Cell

LEMMA CellsCount ==
  ASSUME NEW n \in Nat, NEW f
  PROVE  /\ IsFiniteSet(Cells(n, f)) /\ Cardinality(Cells(n, f)) = n
         /\ {x.pos : x \in Cells(n, f)} = 0 .. n - 1
<1> DEFINE g == [p \in 0 .. n - 1 |-> Cell(p, f[p])]
<1>1. g \in [0 .. n - 1 -> Cells(n, f)]
  BY DEF Cells
<1>2. \A p, q \in 0 .. n - 1 : g[p] = g[q] => p = q
  BY CellIs
<1>3. \A x \in Cells(n, f) : \E p \in 0 .. n - 1 : g[p] = x
  BY DEF Cells
<1>4. g \in Bijection(0 .. n - 1, Cells(n, f))
  BY <1>1, <1>2, <1>3 DEF Bijection, Injection, Surjection, IsInjective
<1>5. ExistsBijection(0 .. n - 1, Cells(n, f))
  BY <1>4 DEF ExistsBijection
<1>6. IsFiniteSet(0 .. n - 1) /\ Cardinality(0 .. n - 1) = n
  <2>1. 0 \in Int /\ n - 1 \in Int
    OBVIOUS
  <2>2. /\ IsFiniteSet(0 .. n - 1)
        /\ Cardinality(0 .. n - 1) = IF 0 > n - 1 THEN 0 ELSE (n - 1) - 0 + 1
    BY <2>1, FS_Interval
  <2> QED BY <2>2
<1>7. IsFiniteSet(Cells(n, f)) /\ Cardinality(Cells(n, f)) = n
  BY <1>5, <1>6, FS_Bijection
<1>8. {x.pos : x \in Cells(n, f)} = 0 .. n - 1
  BY CellIs DEF Cells
<1> QED BY <1>7, <1>8

(* Cells that mirror a record are as the properties say.                   *)
LEMMA MirrorsFollow ==
  ASSUME NEW c, NEW s, failed \in BOOLEAN, s \in Seq(Nat), Mirrors(c, s, failed)
  PROVE  Follows(c, s)
<1>0. PICK n \in Nat : \E f \in [0 .. n - 1 -> Nat] : c = Cells(n, f) /\ Matches(n, f, s, failed)
  BY DEF Mirrors
<1>1. PICK f \in [0 .. n - 1 -> Nat] : c = Cells(n, f) /\ Matches(n, f, s, failed)
  BY <1>0
<1>2. Cardinality(c) = n /\ NoHoles(c)
  BY <1>1, CellsCount DEF NoHoles
<1>3. DOMAIN s = 1 .. Len(s) /\ Len(s) \in Nat
  BY LenProperties
<1>4. ASSUME ~failed, NEW i \in 1 .. Len(s) PROVE Cell(i - 1, s[i]) \in c
  <2>1. n = Len(s) /\ \A p \in 0 .. n - 1 : f[p] = s[p + 1]
    BY <1>1, <1>4 DEF Matches
  <2>2. i - 1 \in 0 .. n - 1 /\ (i - 1) + 1 = i
    BY <2>1
  <2>3. f[i - 1] = s[i]
    BY <2>1, <2>2
  <2> QED BY <1>1, <2>2, <2>3 DEF Cells
<1>5. ASSUME NEW x \in c PROVE \E i \in DOMAIN s : i > x.pos /\ s[i] = x.tok
  <2>1. PICK p \in 0 .. n - 1 : x = Cell(p, f[p])
    BY <1>1 DEF Cells
  <2>2. x.pos = p /\ x.tok = f[p]
    BY <2>1, CellIs
  <2> QED BY <1>1, <1>3, <2>2 DEF Matches
<1>6. ASSUME NEW x \in c, NEW y \in c, x.pos < y.pos PROVE x.tok < y.tok
  <2>1. PICK p \in 0 .. n - 1 : x = Cell(p, f[p])
    BY <1>1 DEF Cells
  <2>2. PICK q \in 0 .. n - 1 : y = Cell(q, f[q])
    BY <1>1 DEF Cells
  <2>3. x.pos = p /\ x.tok = f[p] /\ y.pos = q /\ y.tok = f[q]
    BY <2>1, <2>2, CellIs
  <2> QED BY <1>1, <1>6, <2>3 DEF Matches
<1>7. n <= Len(s)
  BY <1>1 DEF Matches
<1> QED BY <1>2, <1>4, <1>5, <1>6, <1>7 DEF Follows

(* The largest position.                                                   *)
LEMMA CellsEnd ==
  ASSUME NEW n \in Nat, NEW f
  PROVE  seq_pos_max(Cells(n, f)) = n - 1
<1> DEFINE c == Cells(n, f)
           P == {x.pos : x \in c}
<1>1. CASE n = 0
  <2>1. c = {}
    BY <1>1 DEF Cells
  <2> QED BY <1>1, <2>1 DEF seq_pos_max
<1>2. CASE n # 0
  <2>1. P = 0 .. n - 1
    BY CellsCount
  <2>2. n - 1 \in P /\ \A x \in c : x.pos <= n - 1
    BY <1>2, <2>1
  <2>3. \A p \in P : (\A x \in c : x.pos <= p) => p = n - 1
    <3>1. PICK x \in c : x.pos = n - 1
      BY <2>2
    <3> HIDE DEF c, P
    <3> QED BY <2>1, <3>1
  <2>4. seq_pos_max(c) = CHOOSE p \in P : \A x \in c : x.pos <= p
    BY <2>2 DEF seq_pos_max
  <2> HIDE DEF c, P
  <2>5. seq_pos_max(c) = n - 1
    BY <2>2, <2>3, <2>4
  <2> QED BY <2>5 DEF c
<1> QED BY <1>1, <1>2

-----------------------------------------------------------------------------
(* Decoding: the batch of the next m tokens.                               *)

Batch(s, m) == [i \in 1 .. m |-> LastOf(s) + i]

LEMMA BatchIs ==
  ASSUME NEW s \in Seq(Nat), NEW m \in Nat
  PROVE  /\ Batch(s, m) \in Seq(Nat) /\ Len(Batch(s, m)) = m /\ LastOf(s) \in Nat
         /\ \A i \in 1 .. m : Batch(s, m)[i] = LastOf(s) + i
<1>1. LastOf(s) \in Nat
  <2>1. s # <<>> => Len(s) \in 1 .. Len(s)
    BY EmptySeq
  <2>2. \A i \in 1 .. Len(s) : s[i] \in Nat
    BY ElementOfSeq
  <2> QED BY <2>1, <2>2 DEF LastOf
<1> HIDE DEF LastOf
<1> QED BY <1>1 DEF Batch

(* The record with the batch at its end.                                   *)
LEMMA RecordGrows ==
  ASSUME NEW s \in Seq(Nat), NEW m \in Nat
  PROVE  /\ s \o Batch(s, m) \in Seq(Nat)
         /\ Len(s) \in Nat /\ Len(s \o Batch(s, m)) = Len(s) + m
         /\ \A i \in 1 .. Len(s) : (s \o Batch(s, m))[i] = s[i]
         /\ \A i \in 1 .. m : (s \o Batch(s, m))[Len(s) + i] = LastOf(s) + i
<1> DEFINE t == Batch(s, m)
<1>1. t \in Seq(Nat) /\ Len(t) = m /\ \A i \in 1 .. m : t[i] = LastOf(s) + i
  BY BatchIs
<1> HIDE DEF t
<1>2. /\ s \o t \in Seq(Nat) /\ Len(s \o t) = Len(s) + m /\ Len(s) \in Nat
      /\ \A i \in 1 .. Len(s) + m : (s \o t)[i] = IF i <= Len(s) THEN s[i] ELSE t[i - Len(s)]
  BY <1>1, ConcatProperties, LenProperties
<1>3. \A i \in 1 .. Len(s) : (s \o t)[i] = s[i]
  BY <1>2
<1>4. ASSUME NEW i \in 1 .. m PROVE (s \o t)[Len(s) + i] = LastOf(s) + i
  <2>1. Len(s) + i \in 1 .. Len(s) + m /\ ~(Len(s) + i <= Len(s)) /\ (Len(s) + i) - Len(s) = i
    BY <1>2
  <2> QED BY <1>1, <1>2, <2>1
<1> QED BY <1>2, <1>3, <1>4 DEF t

LEMMA OrderGrows ==
  ASSUME NEW s \in Seq(Nat), NEW m \in Nat, Increasing(s)
  PROVE  /\ Increasing(s \o Batch(s, m))
         /\ \A i \in 1 .. Len(s) : s[i] <= LastOf(s)
<1> DEFINE l == Len(s)
           u == s \o Batch(s, m)
           z == LastOf(s)
<1>0. l \in Nat /\ z \in Nat /\ \A i \in 1 .. l : s[i] \in Nat
  BY BatchIs, LenProperties, ElementOfSeq
<1>1. /\ Len(u) = l + m
      /\ \A i \in 1 .. l : u[i] = s[i]
      /\ \A i \in 1 .. m : u[l + i] = z + i
  BY RecordGrows
<1>2. \A i, j \in 1 .. l : i < j => s[i] < s[j]
  BY DEF Increasing
<1>3. l # 0 => z = s[l]
  BY EmptySeq DEF LastOf
<1> HIDE DEF u, z, l
<1>4. ASSUME NEW i \in 1 .. l PROVE s[i] <= z
  <2>1. CASE i = l
    BY <1>0, <1>3, <2>1
  <2>2. CASE i < l
    BY <1>0, <1>2, <1>3, <2>2
  <2> QED BY <1>0, <2>1, <2>2
<1>5. ASSUME NEW i \in 1 .. l + m, NEW j \in 1 .. l + m, i < j PROVE u[i] < u[j]
  <2>1. CASE j <= l
    BY <1>0, <1>1, <1>2, <1>5, <2>1
  <2>2. CASE j > l
    <3>1. j - l \in 1 .. m /\ l + (j - l) = j
      BY <1>0, <2>2
    <3>2. u[j] = z + (j - l)
      BY <1>1, <3>1
    <3>3. CASE i <= l
      <4>1. u[i] = s[i] /\ s[i] <= z /\ s[i] \in Nat
        BY <1>0, <1>1, <1>4, <3>3
      <4> QED BY <1>0, <3>1, <3>2, <4>1
    <3>4. CASE i > l
      <4>1. i - l \in 1 .. m /\ l + (i - l) = i
        BY <1>0, <3>4
      <4>2. u[i] = z + (i - l)
        BY <1>1, <4>1
      <4> QED BY <1>0, <1>5, <3>1, <3>2, <4>1, <4>2
    <3> QED BY <1>0, <3>3, <3>4
  <2> QED BY <1>0, <2>1, <2>2
<1>6. Increasing(u)
  BY <1>1, <1>5 DEF Increasing
<1> QED BY <1>4, <1>6 DEF u, l, z

(* The tokens g are the n tokens f and after them the m tokens of t.       *)
Extended(n, m, f, g, t) ==
  /\ Len(t) = m
  /\ \A p \in 0 .. n - 1 : g[p] = f[p]
  /\ \A i \in 1 .. m : g[(n - 1) + i] = t[i]

LEMMA DecodedCells ==
  ASSUME NEW n \in Nat, NEW m \in Nat, NEW f, NEW g, NEW t, Extended(n, m, f, g, t)
  PROVE  Decoded(Cells(n, f), t) = Cells(n + m, g)
<1>0. /\ Len(t) = m
      /\ \A p \in 0 .. n - 1 : g[p] = f[p]
      /\ \A i \in 1 .. m : g[(n - 1) + i] = t[i]
  BY DEF Extended
<1> USE <1>0
<1> DEFINE new == {Cell((n - 1) + i, t[i]) : i \in 1 .. m}
<1>1. Decoded(Cells(n, f), t) = Cells(n, f) \cup new
  BY CellsEnd DEF Decoded
<1>2. ASSUME NEW x \in Cells(n, f) \cup new PROVE x \in Cells(n + m, g)
  <2>1. CASE x \in Cells(n, f)
    <3>1. PICK p \in 0 .. n - 1 : x = Cell(p, f[p])
      BY <2>1 DEF Cells
    <3>2. p \in 0 .. (n + m) - 1 /\ g[p] = f[p]
      OBVIOUS
    <3> QED BY <3>1, <3>2 DEF Cells
  <2>2. CASE x \in new
    <3>1. PICK i \in 1 .. m : x = Cell((n - 1) + i, t[i])
      BY <2>2
    <3>2. (n - 1) + i \in 0 .. (n + m) - 1 /\ g[(n - 1) + i] = t[i]
      OBVIOUS
    <3> QED BY <3>1, <3>2 DEF Cells
  <2> QED BY <1>2, <2>1, <2>2
<1>3. ASSUME NEW x \in Cells(n + m, g) PROVE x \in Cells(n, f) \cup new
  <2>1. PICK p \in 0 .. (n + m) - 1 : x = Cell(p, g[p])
    BY DEF Cells
  <2>2. CASE p < n
    <3>1. p \in 0 .. n - 1 /\ g[p] = f[p]
      BY <2>2
    <3> QED BY <2>1, <3>1 DEF Cells
  <2>3. CASE p >= n
    <3>1. (p - n) + 1 \in 1 .. m /\ (n - 1) + ((p - n) + 1) = p
      BY <2>3
    <3>2. g[p] = t[(p - n) + 1]
      BY <3>1
    <3>3. Cell((n - 1) + ((p - n) + 1), t[(p - n) + 1]) \in new
      BY <3>1
    <3> QED BY <2>1, <3>1, <3>2, <3>3
  <2> QED BY <2>2, <2>3
<1> QED BY <1>1, <1>2, <1>3

LEMMA DecodeMirrors ==
  ASSUME NEW c, NEW s \in Seq(Nat), NEW bad, NEW m \in Nat, Increasing(s), Mirrors(c, s, bad)
  PROVE  Mirrors(Decoded(c, Batch(s, m)), s \o Batch(s, m), bad)
<1>0. PICK n \in Nat : \E f \in [0 .. n - 1 -> Nat] : c = Cells(n, f) /\ Matches(n, f, s, bad)
  BY DEF Mirrors
<1>1. PICK f \in [0 .. n - 1 -> Nat] : c = Cells(n, f) /\ Matches(n, f, s, bad)
  BY <1>0
<1> DEFINE l == Len(s)
           u == s \o Batch(s, m)
           z == LastOf(s)
           g == [p \in 0 .. (n + m) - 1 |-> IF p < n THEN f[p] ELSE z + ((p - n) + 1)]
<1>2. /\ Len(u) = l + m /\ l \in Nat /\ z \in Nat
      /\ \A i \in 1 .. l : u[i] = s[i] /\ s[i] <= z /\ s[i] \in Nat
      /\ \A i \in 1 .. m : u[l + i] = z + i
  BY RecordGrows, BatchIs, OrderGrows, ElementOfSeq
<1>3. /\ n <= l
      /\ bad \/ (n = l /\ \A p \in 0 .. n - 1 : f[p] = s[p + 1])
      /\ \A p \in 0 .. n - 1 : \E i \in 1 .. l : i > p /\ s[i] = f[p]
      /\ \A p, q \in 0 .. n - 1 : p < q => f[p] < f[q]
  BY <1>1 DEF Matches
<1> HIDE DEF l, u, z
<1>4. g \in [0 .. (n + m) - 1 -> Nat]
  BY <1>2
<1>5. /\ \A p \in 0 .. n - 1 : g[p] = f[p]
      /\ \A i \in 1 .. m : g[(n - 1) + i] = z + i
      /\ \A p \in 0 .. (n + m) - 1 : p >= n => g[p] = z + ((p - n) + 1) /\ (p - n) + 1 \in 1 .. m
  BY <1>2
<1> HIDE DEF g
<1>6. Decoded(c, Batch(s, m)) = Cells(n + m, g)
  <2> DEFINE t == Batch(s, m)
  <2>1. Len(t) = m
    BY BatchIs
  <2>2. \A i \in 1 .. m : g[(n - 1) + i] = t[i]
    BY <1>5, BatchIs DEF z
  <2>3. \A p \in 0 .. n - 1 : g[p] = f[p]
    BY <1>5
  <2> HIDE DEF t
  <2>4. Decoded(Cells(n, f), t) = Cells(n + m, g)
    <3>1. Extended(n, m, f, g, t)
      BY <2>1, <2>2, <2>3 DEF Extended
    <3> QED BY <3>1, DecodedCells
  <2> QED BY <1>1, <2>4 DEF t
<1>7. \A p \in 0 .. n - 1 : f[p] <= z
  <2> SUFFICES ASSUME NEW p \in 0 .. n - 1 PROVE f[p] <= z
    OBVIOUS
  <2>1. PICK i \in 1 .. l : s[i] = f[p]
    BY <1>3
  <2> QED BY <1>2, <2>1
<1>8. ASSUME ~bad, NEW p \in 0 .. (n + m) - 1 PROVE g[p] = u[p + 1]
  <2>1. n = l /\ \A q \in 0 .. n - 1 : f[q] = s[q + 1]
    BY <1>3, <1>8
  <2>2. CASE p < n
    <3>1. p \in 0 .. n - 1 /\ p + 1 \in 1 .. l
      BY <1>2, <2>1, <2>2
    <3> QED BY <1>2, <1>5, <2>1, <3>1
  <2>3. CASE p >= n
    <3>1. l + ((p - n) + 1) = p + 1
      BY <1>2, <2>1
    <3>2. u[l + ((p - n) + 1)] = z + ((p - n) + 1)
      BY <1>2, <1>5, <2>3
    <3> QED BY <1>5, <2>3, <3>1, <3>2
  <2> QED BY <2>2, <2>3
<1>9. ASSUME NEW p \in 0 .. (n + m) - 1 PROVE \E i \in 1 .. l + m : i > p /\ u[i] = g[p]
  <2>1. CASE p < n
    <3>0. p \in 0 .. n - 1
      BY <2>1
    <3>1. PICK i \in 1 .. l : i > p /\ s[i] = f[p]
      BY <1>3, <3>0, Zenon
    <3>2. i \in 1 .. l + m /\ u[i] = g[p]
      BY <1>2, <1>5, <2>1, <3>1
    <3> QED BY <3>1, <3>2
  <2>2. CASE p >= n
    <3>1. (p - n) + 1 \in 1 .. m /\ g[p] = z + ((p - n) + 1)
      BY <1>5, <2>2
    <3>2. l + ((p - n) + 1) \in 1 .. l + m /\ l + ((p - n) + 1) > p
      BY <1>2, <1>3, <3>1
    <3>3. u[l + ((p - n) + 1)] = g[p]
      BY <1>2, <3>1
    <3> QED BY <3>2, <3>3
  <2> QED BY <2>1, <2>2
<1>10. ASSUME NEW p \in 0 .. (n + m) - 1, NEW q \in 0 .. (n + m) - 1, p < q PROVE g[p] < g[q]
  <2>1. CASE q < n
    BY <1>3, <1>5, <1>10, <2>1
  <2>2. CASE q >= n
    <3>1. g[q] = z + ((q - n) + 1)
      BY <1>5, <2>2
    <3>2. CASE p < n
      <4>1. g[p] = f[p] /\ f[p] <= z /\ f[p] \in Nat
        BY <1>5, <1>7, <3>2
      <4> QED BY <1>2, <2>2, <3>1, <4>1
    <3>3. CASE p >= n
      <4>1. g[p] = z + ((p - n) + 1)
        BY <1>5, <3>3
      <4> QED BY <1>2, <1>10, <3>1, <4>1
    <3> QED BY <3>2, <3>3
  <2> QED BY <2>1, <2>2
<1>11. Matches(n + m, g, u, bad)
  <2>1. n + m <= l + m /\ (n = l => n + m = l + m)
    BY <1>2, <1>3
  <2> QED BY <1>2, <1>3, <1>8, <1>9, <1>10, <2>1 DEF Matches
<1>12. n + m \in Nat
  OBVIOUS
<1>13. Mirrors(Decoded(c, Batch(s, m)), u, bad)
  BY <1>4, <1>6, <1>11, <1>12 DEF Mirrors
<1> QED BY <1>13 DEF u

(* A record may also grow without its cache, once a decode has failed.     *)
LEMMA FailureMirrors ==
  ASSUME NEW c, NEW s \in Seq(Nat), NEW bad, NEW m \in Nat, Mirrors(c, s, bad)
  PROVE  Mirrors(c, s \o Batch(s, m), TRUE)
<1>0. PICK n \in Nat : \E f \in [0 .. n - 1 -> Nat] : c = Cells(n, f) /\ Matches(n, f, s, bad)
  BY DEF Mirrors
<1>1. PICK f \in [0 .. n - 1 -> Nat] : c = Cells(n, f) /\ Matches(n, f, s, bad)
  BY <1>0
<1> DEFINE u == s \o Batch(s, m)
<1>2. Len(u) = Len(s) + m /\ Len(s) \in Nat /\ \A i \in 1 .. Len(s) : u[i] = s[i]
  BY RecordGrows
<1> HIDE DEF u
<1>3. n <= Len(u)
  BY <1>1, <1>2 DEF Matches
<1>4. ASSUME NEW p \in 0 .. n - 1 PROVE \E i \in 1 .. Len(u) : i > p /\ u[i] = f[p]
  <2>1. PICK i \in 1 .. Len(s) : i > p /\ s[i] = f[p]
    BY <1>1 DEF Matches
  <2>2. i \in 1 .. Len(u) /\ u[i] = f[p]
    BY <1>2, <2>1
  <2> QED BY <2>1, <2>2
<1>5. Matches(n, f, u, TRUE)
  BY <1>1, <1>3, <1>4 DEF Matches
<1>6. Mirrors(c, u, TRUE)
  BY <1>1, <1>5 DEF Mirrors
<1> QED BY <1>6 DEF u

-----------------------------------------------------------------------------
(* Pruning: the r oldest cells go, and the others move down by r.          *)

(* The k tokens g are the n tokens f without the first r.                  *)
Shifted(n, r, k, f, g) ==
  /\ k = IF r < n THEN n - r ELSE 0
  /\ \A p \in 0 .. k - 1 : g[p] = f[p + r]

LEMMA PrunedCells ==
  ASSUME NEW n \in Nat, NEW r \in Nat \ {0}, NEW k \in Nat, NEW f, NEW g, Shifted(n, r, k, f, g)
  PROVE  seq_add(seq_rm(Cells(n, f), 0, r), r, -1, -r) = Cells(k, g)
<1>0. /\ k = IF r < n THEN n - r ELSE 0
      /\ \A p \in 0 .. k - 1 : g[p] = f[p + r]
  BY DEF Shifted
<1> USE <1>0
<1> DEFINE rest == seq_rm(Cells(n, f), 0, r)
<1>1. rest = {Cell(p, f[p]) : p \in {q \in 0 .. n - 1 : q >= r}}
  <2>1. ASSUME NEW x \in rest PROVE \E p \in {q \in 0 .. n - 1 : q >= r} : x = Cell(p, f[p])
    <3>1. PICK p \in 0 .. n - 1 : x = Cell(p, f[p])
      BY DEF seq_rm, Cells
    <3>2. x.pos = p /\ ~InRange(x.pos, 0, r)
      BY <3>1, CellIs DEF seq_rm
    <3>3. p >= r
      BY <3>2 DEF InRange
    <3> QED BY <3>1, <3>3
  <2>2. ASSUME NEW p \in 0 .. n - 1, p >= r PROVE Cell(p, f[p]) \in rest
    <3>1. Cell(p, f[p]).pos = p /\ Cell(p, f[p]) \in Cells(n, f)
      BY CellIs DEF Cells
    <3>2. ~InRange(p, 0, r)
      BY <2>2 DEF InRange
    <3> QED BY <3>1, <3>2 DEF seq_rm
  <2> QED BY <2>1, <2>2
<1> HIDE DEF rest
<1>2. seq_add(rest, r, -1, -r) = {Cell(c.pos + (-r), c.tok) : c \in rest}
  <2>1. \A c \in rest : InRange(c.pos, r, -1)
    <3> SUFFICES ASSUME NEW c \in rest PROVE InRange(c.pos, r, -1)
      OBVIOUS
    <3>1. PICK p \in {q \in 0 .. n - 1 : q >= r} : c = Cell(p, f[p])
      BY <1>1
    <3>2. c.pos = p
      BY <3>1, CellIs
    <3> QED BY <3>2 DEF InRange
  <2> QED BY <2>1 DEF seq_add
<1>3. ASSUME NEW x \in seq_add(rest, r, -1, -r) PROVE x \in Cells(k, g)
  <2>1. PICK c \in rest : x = Cell(c.pos + (-r), c.tok)
    BY <1>2
  <2>2. PICK p \in {q \in 0 .. n - 1 : q >= r} : c = Cell(p, f[p])
    BY <1>1
  <2>3. c.pos = p /\ c.tok = f[p]
    BY <2>2, CellIs
  <2>4. p - r \in 0 .. k - 1 /\ (p - r) + r = p /\ p + (-r) = p - r
    OBVIOUS
  <2>5. g[p - r] = f[p]
    BY <2>4
  <2> QED BY <2>1, <2>3, <2>4, <2>5 DEF Cells
<1>4. ASSUME NEW x \in Cells(k, g) PROVE x \in seq_add(rest, r, -1, -r)
  <2>1. PICK p \in 0 .. k - 1 : x = Cell(p, g[p])
    BY DEF Cells
  <2>2. p + r \in {q \in 0 .. n - 1 : q >= r} /\ (p + r) + (-r) = p /\ g[p] = f[p + r]
    OBVIOUS
  <2>3. Cell(p + r, f[p + r]) \in rest
    BY <1>1, <2>2
  <2>4. Cell(p + r, f[p + r]).pos = p + r /\ Cell(p + r, f[p + r]).tok = f[p + r]
    BY CellIs
  <2> QED BY <1>2, <2>1, <2>2, <2>3, <2>4
<1>5. seq_add(rest, r, -1, -r) = Cells(k, g)
  BY <1>3, <1>4
<1> QED BY <1>5 DEF rest

LEMMA RecordPruned ==
  ASSUME NEW s \in Seq(Nat), NEW r \in Nat \ {0}, r < Len(s)
  PROVE  /\ SubSeq(s, r + 1, Len(s)) \in Seq(Nat)
         /\ Len(SubSeq(s, r + 1, Len(s))) = Len(s) - r
         /\ \A i \in 1 .. Len(s) - r : SubSeq(s, r + 1, Len(s))[i] = s[i + r]
<1>1. Len(s) \in Nat /\ r + 1 \in Int /\ Len(s) \in Int /\ r + 1 <= Len(s)
  BY LenProperties
<1>2. \A i \in r + 1 .. Len(s) : s[i] \in Nat
  BY <1>1, ElementOfSeq
<1> DEFINE t == SubSeq(s, r + 1, Len(s))
<1>3. /\ t \in Seq(Nat)
      /\ Len(t) = IF r + 1 <= Len(s) THEN Len(s) - (r + 1) + 1 ELSE 0
      /\ \A i \in 1 .. Len(s) - (r + 1) + 1 : t[i] = s[(r + 1) + i - 1]
  BY <1>1, <1>2, SubSeqProperties
<1> HIDE DEF t
<1>4. Len(t) = Len(s) - r
  BY <1>1, <1>3
<1>5. ASSUME NEW i \in 1 .. Len(s) - r PROVE t[i] = s[i + r]
  <2>1. i \in 1 .. Len(s) - (r + 1) + 1 /\ (r + 1) + i - 1 = i + r
    BY <1>1
  <2> QED BY <1>3, <2>1
<1> QED BY <1>3, <1>4, <1>5 DEF t

LEMMA PruneMirrors ==
  ASSUME NEW c, NEW s \in Seq(Nat), NEW bad, NEW r \in Nat \ {0}, r < Len(s),
         Increasing(s), Mirrors(c, s, bad)
  PROVE  LET cc == seq_add(seq_rm(c, 0, r), r, -1, -r)
             ss == SubSeq(s, r + 1, Len(s))
         IN  /\ ss \in Seq(Nat) /\ Len(ss) = Len(s) - r
             /\ Increasing(ss) /\ Mirrors(cc, ss, bad)
             /\ Cardinality(cc) = IF r < Cardinality(c) THEN Cardinality(c) - r ELSE 0
<1>0. PICK n \in Nat : \E f \in [0 .. n - 1 -> Nat] : c = Cells(n, f) /\ Matches(n, f, s, bad)
  BY DEF Mirrors
<1>1. PICK f \in [0 .. n - 1 -> Nat] : c = Cells(n, f) /\ Matches(n, f, s, bad)
  BY <1>0
<1> DEFINE l == Len(s)
           k == IF r < n THEN n - r ELSE 0
           g == [p \in 0 .. k - 1 |-> f[p + r]]
           cc == seq_add(seq_rm(c, 0, r), r, -1, -r)
           ss == SubSeq(s, r + 1, Len(s))
<1>2. /\ ss \in Seq(Nat) /\ Len(ss) = l - r /\ l \in Nat /\ r < l
      /\ \A i \in 1 .. l - r : ss[i] = s[i + r]
  BY RecordPruned, LenProperties
<1>3. /\ n <= l
      /\ bad \/ (n = l /\ \A p \in 0 .. n - 1 : f[p] = s[p + 1])
      /\ \A p \in 0 .. n - 1 : \E i \in 1 .. l : i > p /\ s[i] = f[p]
      /\ \A p, q \in 0 .. n - 1 : p < q => f[p] < f[q]
  BY <1>1 DEF Matches
<1>4. k \in Nat /\ (\A p \in 0 .. k - 1 : p + r \in 0 .. n - 1)
  OBVIOUS
<1>5. g \in [0 .. k - 1 -> Nat] /\ \A p \in 0 .. k - 1 : g[p] = f[p + r]
  BY <1>4
<1>6. cc = Cells(k, g)
  <2>1. seq_add(seq_rm(Cells(n, f), 0, r), r, -1, -r) = Cells(k, g)
    <3>1. Shifted(n, r, k, f, g)
      BY <1>5 DEF Shifted
    <3> HIDE DEF k, g
    <3> QED BY <1>4, <3>1, PrunedCells
  <2> QED BY <1>1, <2>1
<1>7. Cardinality(c) = n /\ Cardinality(cc) = k
  <2> HIDE DEF k, g, cc
  <2> QED BY <1>1, <1>4, <1>6, CellsCount
<1>8. Increasing(ss)
  <2> SUFFICES ASSUME NEW i \in 1 .. l - r, NEW j \in 1 .. l - r, i < j PROVE ss[i] < ss[j]
    BY <1>2 DEF Increasing
  <2>1. i + r \in 1 .. l /\ j + r \in 1 .. l /\ i + r < j + r
    BY <1>2
  <2>2. s[i + r] < s[j + r]
    BY <2>1 DEF Increasing
  <2> QED BY <1>2, <2>2
<1>9. Matches(k, g, ss, bad)
  <2>1. k <= l - r
    BY <1>2, <1>3
  <2>2. ASSUME ~bad PROVE k = l - r /\ \A p \in 0 .. k - 1 : g[p] = ss[p + 1]
    <3>1. n = l /\ \A p \in 0 .. n - 1 : f[p] = s[p + 1]
      BY <1>3, <2>2
    <3>2. k = l - r
      BY <1>2, <3>1
    <3>3. ASSUME NEW p \in 0 .. k - 1 PROVE g[p] = ss[p + 1]
      <4>1. p + 1 \in 1 .. l - r /\ p + r \in 0 .. n - 1 /\ (p + 1) + r = (p + r) + 1
        BY <1>2, <1>4, <3>1, <3>2
      <4>2. g[p] = f[p + r] /\ f[p + r] = s[(p + r) + 1] /\ ss[p + 1] = s[(p + 1) + r]
        BY <1>2, <1>5, <3>1, <4>1
      <4> QED BY <4>1, <4>2
    <3> QED BY <3>2, <3>3
  <2>3. ASSUME NEW p \in 0 .. k - 1 PROVE \E i \in 1 .. Len(ss) : i > p /\ ss[i] = g[p]
    <3>1. p + r \in 0 .. n - 1 /\ g[p] = f[p + r]
      BY <1>4, <1>5
    <3>2. PICK i \in 1 .. l : i > p + r /\ s[i] = f[p + r]
      BY <1>3, <3>1
    <3>3. i - r \in 1 .. l - r /\ i - r > p /\ (i - r) + r = i
      BY <1>2, <3>2
    <3>4. ss[i - r] = g[p]
      BY <1>2, <3>1, <3>2, <3>3
    <3> QED BY <1>2, <3>3, <3>4
  <2>4. ASSUME NEW p \in 0 .. k - 1, NEW q \in 0 .. k - 1, p < q PROVE g[p] < g[q]
    <3>1. p + r \in 0 .. n - 1 /\ q + r \in 0 .. n - 1 /\ p + r < q + r
      BY <1>4, <2>4
    <3>2. f[p + r] < f[q + r]
      BY <1>3, <3>1
    <3> QED BY <1>5, <3>2
  <2> HIDE DEF k, g, ss
  <2> QED BY <1>2, <2>1, <2>2, <2>3, <2>4 DEF Matches
<1>10. Mirrors(cc, ss, bad)
  <2> HIDE DEF k, g, ss, cc
  <2> QED BY <1>4, <1>5, <1>6, <1>9 DEF Mirrors
<1> QED BY <1>2, <1>7, <1>8, <1>10

-----------------------------------------------------------------------------
(* The invariant: the cache mirrors the record while there is a context,   *)
(* and the file does while the session is cold.                            *)

Record == tokens \o generated

KvTypeOK ==
  /\ mode \in {"new", "hot", "loop", "record", "saving", "saved", "cold"}
  /\ tokens \in Seq(Nat) /\ generated \in Seq(Nat) /\ failed \in BOOLEAN

KvInv ==
  /\ KvTypeOK
  /\ mode \notin {"loop", "record"} => generated = <<>>
  /\ mode = "new" => tokens = <<>> /\ cache = {}
  /\ HasContext => Increasing(Record) /\ Mirrors(cache, Record, failed)
  /\ mode = "saved" => file = SavedState(cache, tokens)
  /\ mode = "cold" => /\ file.tokens \in Seq(Nat) /\ Increasing(file.tokens)
                      /\ Mirrors(file.cells, file.tokens, failed)
                      /\ Cardinality(file.cells) = swapFileBytes

LEMMA RecordIs ==
  ASSUME KvTypeOK
  PROVE  /\ Record \in Seq(Nat) /\ Seen = LastOf(Record)
         /\ generated = <<>> => Record = tokens
         /\ \A n : NextTokens(n) = Batch(Record, n)
<1>1. Record \in Seq(Nat)
  BY ConcatProperties DEF KvTypeOK, Record
<1>2. generated = <<>> => Record = tokens
  BY ConcatEmptySeq DEF KvTypeOK, Record
<1>3. Seen = LastOf(Record)
  BY DEF Seen, LastOf, Record
<1>4. \A n : NextTokens(n) = Batch(Record, n)
  BY <1>3 DEF NextTokens, Batch
<1> QED BY <1>1, <1>2, <1>3, <1>4

LEMMA NothingMirrors == \A bad : Mirrors({}, <<>>, bad) /\ Increasing(<<>>)
<1> SUFFICES ASSUME NEW bad PROVE Mirrors({}, <<>>, bad) /\ Increasing(<<>>)
  OBVIOUS
<1>0. Len(<<>>) = 0 /\ 0 .. 0 - 1 = {} /\ 1 .. 0 = {} /\ 0 <= 0
  OBVIOUS
<1> DEFINE f == [p \in 0 .. 0 - 1 |-> 0]
<1>1. f \in [0 .. 0 - 1 -> Nat] /\ {} = Cells(0, f)
  BY <1>0 DEF Cells
<1> HIDE DEF f
<1>2. Matches(0, f, <<>>, bad)
  BY <1>0 DEF Matches
<1>3. 0 \in Nat
  OBVIOUS
<1>4. Mirrors({}, <<>>, bad)
  BY <1>1, <1>2, <1>3 DEF Mirrors
<1>5. Increasing(<<>>)
  BY <1>0 DEF Increasing
<1> QED BY <1>4, <1>5

LEMMA PrefillKept == ASSUME KvInv, NEW n \in 1 .. n_ctx, Prefill(n) PROVE KvInv'
<1>0. /\ n \in Nat /\ KvTypeOK /\ generated = <<>> /\ mode = "hot" /\ mode' = "loop"
      /\ UNCHANGED <<generated, file, swapFileBytes, failed>>
      /\ Increasing(Record) /\ Mirrors(cache, Record, failed)
  BY KvAssumption DEF KvInv, Prefill, HasContext
<1>1. /\ Record \in Seq(Nat) /\ Record = tokens /\ NextTokens(n) = Batch(Record, n)
  BY <1>0, RecordIs
<1>2. cache' = Decoded(cache, Batch(Record, n)) /\ tokens' = Record \o Batch(Record, n)
  BY <1>1 DEF Prefill
<1>3. tokens' \in Seq(Nat) /\ Increasing(tokens') /\ Mirrors(cache', tokens', failed)
  BY <1>0, <1>1, <1>2, RecordGrows, OrderGrows, DecodeMirrors
<1>4. KvTypeOK'
  BY <1>0, <1>3 DEF KvTypeOK
<1>5. Record' = tokens'
  BY <1>0, <1>3, ConcatEmptySeq DEF Record
<1> QED BY <1>0, <1>3, <1>4, <1>5 DEF KvInv

(* What c is when it is a \o b, index by index.                            *)
Joined(a, b, c) ==
  /\ c \in Seq(Nat) /\ Len(c) = Len(a) + Len(b)
  /\ \A i \in 1 .. Len(a) : c[i] = a[i]
  /\ \A i \in 1 .. Len(b) : c[Len(a) + i] = b[i]

LEMMA ConcatJoins ==
  ASSUME NEW a \in Seq(Nat), NEW b \in Seq(Nat)
  PROVE  Joined(a, b, a \o b)
<1>1. Len(a) \in Nat /\ Len(b) \in Nat
  BY LenProperties
<1>2. /\ a \o b \in Seq(Nat) /\ Len(a \o b) = Len(a) + Len(b)
      /\ \A i \in 1 .. Len(a) + Len(b) : (a \o b)[i] = IF i <= Len(a) THEN a[i] ELSE b[i - Len(a)]
  BY ConcatProperties
<1> DEFINE c == a \o b
<1> HIDE DEF c
<1>3. /\ c \in Seq(Nat) /\ Len(c) = Len(a) + Len(b)
      /\ \A i \in 1 .. Len(a) + Len(b) : c[i] = IF i <= Len(a) THEN a[i] ELSE b[i - Len(a)]
  BY <1>2 DEF c
<1>4. ASSUME NEW i \in 1 .. Len(a) PROVE c[i] = a[i]
  BY <1>1, <1>3
<1>5. ASSUME NEW i \in 1 .. Len(b) PROVE c[Len(a) + i] = b[i]
  <2>1. /\ Len(a) + i \in 1 .. Len(a) + Len(b) /\ ~(Len(a) + i <= Len(a))
        /\ (Len(a) + i) - Len(a) = i
    BY <1>1
  <2>2. c[Len(a) + i] = b[(Len(a) + i) - Len(a)]
    BY <1>3, <2>1
  <2> QED BY <2>1, <2>2
<1>6. Joined(a, b, c)
  BY <1>3, <1>4, <1>5 DEF Joined
<1> QED BY <1>6 DEF c

LEMMA JoinedRegrouped ==
  ASSUME NEW a \in Seq(Nat), NEW b \in Seq(Nat), NEW t \in Seq(Nat),
         NEW x, NEW y, NEW u, NEW v,
         Joined(a, b, x), Joined(b, t, y), Joined(x, t, u), Joined(a, y, v)
  PROVE  u = v
<1>1. /\ Len(a) \in Nat /\ Len(b) \in Nat /\ Len(t) \in Nat
      /\ Len(x) = Len(a) + Len(b) /\ Len(y) = Len(b) + Len(t)
      /\ Len(u) = Len(x) + Len(t) /\ Len(v) = Len(a) + Len(y)
      /\ u \in Seq(Nat) /\ v \in Seq(Nat)
  BY LenProperties DEF Joined
<1>2. Len(u) = Len(v)
  BY <1>1
<1>3. ASSUME NEW i \in 1 .. Len(u) PROVE u[i] = v[i]
  <2>1. CASE i \in 1 .. Len(a)
    <3>1. i \in 1 .. Len(x)
      BY <1>1, <2>1
    <3>2. u[i] = x[i] /\ x[i] = a[i] /\ v[i] = a[i]
      BY <2>1, <3>1 DEF Joined
    <3> QED BY <3>2
  <2>2. CASE i \notin 1 .. Len(a)
    <3> DEFINE j == i - Len(a)
    <3>1. j \in 1 .. Len(y) /\ Len(a) + j = i
      BY <1>1, <2>2
    <3> HIDE DEF j
    <3>2. v[i] = y[j]
      BY <3>1 DEF Joined
    <3>3. CASE j \in 1 .. Len(b)
      <4>1. i \in 1 .. Len(x)
        BY <1>1, <3>1, <3>3
      <4>2. u[i] = x[i] /\ x[i] = b[j] /\ y[j] = b[j]
        BY <3>1, <3>3, <4>1 DEF Joined
      <4> QED BY <3>2, <4>2
    <3>4. CASE j \notin 1 .. Len(b)
      <4> DEFINE k == j - Len(b)
      <4>0. \A la, lb, lt \in Nat : \A m \in 1 .. lb + lt :
              m \notin 1 .. lb =>
                m - lb \in 1 .. lt /\ lb + (m - lb) = m /\ (la + lb) + (m - lb) = la + m
        OBVIOUS
      <4>1. k \in 1 .. Len(t) /\ Len(b) + k = j /\ Len(x) + k = i
        <5>1. j \in 1 .. Len(b) + Len(t)
          BY <1>1, <3>1
        <5>2. /\ j - Len(b) \in 1 .. Len(t) /\ Len(b) + (j - Len(b)) = j
              /\ (Len(a) + Len(b)) + (j - Len(b)) = Len(a) + j
          <6>1. Len(a) \in Nat /\ Len(b) \in Nat /\ Len(t) \in Nat
            BY <1>1
          <6> QED BY <6>1, <3>4, <4>0, <5>1, Zenon
        <5> QED BY <1>1, <3>1, <5>2, Zenon DEF k
      <4> HIDE DEF k
      <4>2. u[i] = t[k] /\ y[j] = t[k]
        BY <4>1 DEF Joined
      <4> QED BY <3>2, <4>2
    <3> QED BY <3>3, <3>4
  <2> QED BY <2>1, <2>2
<1> QED BY <1>1, <1>2, <1>3, SeqEqual

LEMMA ConcatRegrouped ==
  ASSUME NEW a \in Seq(Nat), NEW b \in Seq(Nat), NEW t \in Seq(Nat)
  PROVE  (a \o b) \o t = a \o (b \o t)
<1> DEFINE x == a \o b
           y == b \o t
<1>1. Joined(a, b, x) /\ Joined(b, t, y)
  BY ConcatJoins
<1>2. x \in Seq(Nat) /\ y \in Seq(Nat)
  BY <1>1 DEF Joined
<1> HIDE DEF x, y
<1>3. Joined(x, t, x \o t) /\ Joined(a, y, a \o y)
  BY <1>2, ConcatJoins
<1>4. x \o t = a \o y
  <2> DEFINE u == x \o t
             v == a \o y
  <2>1. Joined(x, t, u) /\ Joined(a, y, v)
    BY <1>3
  <2> HIDE DEF u, v
  <2>2. u = v
    BY <1>1, <2>1, JoinedRegrouped
  <2> QED BY <2>2 DEF u, v
<1> QED BY <1>4 DEF x, y

LEMMA GenerateKept == KvInv /\ Generate => KvInv'
<1> SUFFICES ASSUME KvInv, Generate PROVE KvInv'
  OBVIOUS
<1>0. /\ KvTypeOK /\ mode = "loop" /\ UNCHANGED <<tokens, file, swapFileBytes>>
      /\ Increasing(Record) /\ Mirrors(cache, Record, failed)
  BY DEF KvInv, Generate, HasContext
<1>1. Record \in Seq(Nat) /\ NextTokens(1) = Batch(Record, 1) /\ 1 \in Nat
  BY <1>0, RecordIs
<1>2. generated' = generated \o Batch(Record, 1) /\ Batch(Record, 1) \in Seq(Nat)
  BY <1>1, BatchIs DEF Generate
<1>3. generated' \in Seq(Nat) /\ Record' = Record \o Batch(Record, 1)
  <2> DEFINE t == Batch(Record, 1)
  <2>1. t \in Seq(Nat) /\ tokens \in Seq(Nat) /\ generated \in Seq(Nat)
    BY <1>0, <1>2 DEF KvTypeOK
  <2> HIDE DEF t
  <2>2. generated \o t \in Seq(Nat)
    BY <2>1, ConcatProperties
  <2>3. (tokens \o generated) \o t = tokens \o (generated \o t)
    BY <2>1, ConcatRegrouped
  <2>4. generated' = generated \o t /\ tokens' = tokens
    BY <1>0, <1>2 DEF t
  <2>5. Record' = Record \o t
    BY <2>3, <2>4 DEF Record
  <2> QED BY <2>2, <2>4, <2>5 DEF t
<1>4. Increasing(Record)'
  <2>1. Increasing(Record \o Batch(Record, 1))
    BY <1>0, <1>1, OrderGrows
  <2> QED BY <1>3, <2>1 DEF Increasing
<1>5. CASE /\ HasSlot(cache, NextTokens(1), n_ctx)
           /\ cache' = Decoded(cache, NextTokens(1)) /\ UNCHANGED <<mode, failed>>
  <2>1. Mirrors(cache', Record', failed)
    BY <1>0, <1>1, <1>3, <1>5, DecodeMirrors
  <2>2. KvTypeOK'
    BY <1>0, <1>3, <1>5 DEF KvTypeOK
  <2>3. Mirrors(cache, Record, failed)' /\ mode' = "loop"
    BY <1>0, <1>5, <2>1
  <2> QED BY <1>4, <2>2, <2>3 DEF KvInv
<1>6. CASE mode' = "record" /\ failed' = TRUE /\ UNCHANGED cache
  <2>1. Mirrors(cache', Record', TRUE)
    BY <1>0, <1>1, <1>3, <1>6, FailureMirrors
  <2>2. KvTypeOK'
    BY <1>0, <1>3, <1>6 DEF KvTypeOK
  <2>3. Mirrors(cache', Record', failed')
    BY <1>6, <2>1
  <2> QED BY <1>4, <1>6, <2>2, <2>3 DEF KvInv
<1> QED BY <1>5, <1>6 DEF Generate

LEMMA RecordGeneratedKept == KvInv /\ RecordGenerated => KvInv'
<1> SUFFICES ASSUME KvInv, RecordGenerated PROVE KvInv'
  OBVIOUS
<1>0. /\ KvTypeOK /\ mode = "record" /\ mode' = "hot" /\ generated' = <<>>
      /\ UNCHANGED <<cache, file, swapFileBytes, failed>> /\ tokens' = Record
      /\ Increasing(Record) /\ Mirrors(cache, Record, failed)
  BY DEF KvInv, RecordGenerated, HasContext, Record
<1>1. tokens' \in Seq(Nat)
  BY <1>0, RecordIs
<1>2. KvTypeOK'
  BY <1>0, <1>1, EmptySeq DEF KvTypeOK
<1>3. Record' = Record
  <2>1. tokens' \o <<>> = tokens'
    BY <1>1, ConcatEmptySeq
  <2> QED BY <1>0, <2>1 DEF Record
<1>4. Increasing(Record)' /\ Mirrors(cache, Record, failed)'
  BY <1>0, <1>3
<1> QED BY <1>0, <1>2, <1>4 DEF KvInv

(* What pruning removes: some tokens, and as many as are over the minimum  *)
(* at most.                                                                *)
LEMMA RemovesSome ==
  ASSUME NEW n \in Nat, n > kMinKeepTokens
  PROVE  ToRemove(n) \in Nat \ {0} /\ n - ToRemove(n) >= kMinKeepTokens
<1>1. n \div 4 \in Nat /\ kMinKeepTokens \in Nat
  BY KvAssumption
<1> QED BY <1>1 DEF ToRemove

LEMMA PruneKept ==
  ASSUME KvInv, Prune
  PROVE  /\ KvInv'
         /\ Len(tokens') < Len(tokens) =>
              LET r == Len(tokens) - Len(tokens')
              IN  Cardinality(cache') = IF r < Cardinality(cache) THEN Cardinality(cache) - r ELSE 0
         /\ Len(tokens') >= kMinKeepTokens
<1>0. /\ KvTypeOK /\ mode = "saved" /\ mode' = "saving" /\ generated = <<>>
      /\ UNCHANGED <<generated, file, swapFileBytes, failed>>
      /\ Increasing(Record) /\ Mirrors(cache, Record, failed)
      /\ Record = tokens /\ tokens \in Seq(Nat) /\ Len(tokens) \in Nat
  BY RecordIs DEF KvInv, Prune, HasContext, KvTypeOK
<1> DEFINE r == ToRemove(Len(tokens))
<1>1. /\ r \in Nat \ {0} /\ Len(tokens) - r >= kMinKeepTokens
      /\ kMinKeepTokens \in Nat /\ Len(tokens) > kMinKeepTokens
  BY <1>0, RemovesSome, KvAssumption DEF Prune
<1>2. CASE r >= Len(tokens)
  <2>1. UNCHANGED <<cache, tokens>>
    BY <1>2 DEF Prune
  <2>2. KvTypeOK' /\ Record' = Record
    BY <1>0, <2>1 DEF KvTypeOK, Record
  <2>3. Increasing(Record)' /\ Mirrors(cache, Record, failed)'
    BY <1>0, <2>1, <2>2
  <2> QED BY <1>0, <1>1, <2>1, <2>2, <2>3 DEF KvInv
<1>3. CASE r < Len(tokens)
  <2>1. /\ cache' = seq_add(seq_rm(cache, 0, r), r, -1, -r)
        /\ tokens' = SubSeq(tokens, r + 1, Len(tokens))
    BY <1>0, <1>1, <1>3 DEF Prune, PrunedCache, PrunedTokens
  <2> HIDE DEF r
  <2>2. /\ tokens' \in Seq(Nat) /\ Len(tokens') = Len(tokens) - r
        /\ Increasing(tokens') /\ Mirrors(cache', tokens', failed)
        /\ Cardinality(cache') = IF r < Cardinality(cache) THEN Cardinality(cache) - r ELSE 0
    BY <1>0, <1>1, <1>3, <2>1, PruneMirrors
  <2>3. KvTypeOK' /\ Record' = tokens'
    BY <1>0, <2>2, ConcatEmptySeq DEF KvTypeOK, Record
  <2>4. Increasing(Record)' /\ Mirrors(cache, Record, failed)'
    BY <1>0, <2>2, <2>3
  <2>5. Len(tokens) - Len(tokens') = r
    BY <1>0, <1>1, <2>2
  <2> QED BY <1>0, <1>1, <2>2, <2>3, <2>4, <2>5 DEF KvInv
<1> QED BY <1>0, <1>1, <1>2, <1>3

(* The steps of a session that moves between hot and cold.                 *)
LEMMA MovesKept ==
  ASSUME KvInv, LoopEnds \/ SwapOut \/ Save \/ SaveFails \/ GoesCold
  PROVE  KvInv'
<1>0. /\ KvTypeOK /\ HasContext /\ UNCHANGED <<tokens, generated, failed>>
      /\ Increasing(Record) /\ Mirrors(cache, Record, failed)
      /\ mode' \in {"record", "saving", "saved", "hot", "cold"}
  BY DEF KvInv, LoopEnds, SwapOut, Save, SaveFails, GoesCold, HasContext
<1>1. KvTypeOK'
  BY <1>0 DEF KvTypeOK
<1>2. mode' \notin {"loop", "record"} => generated' = <<>>
  BY DEF KvInv, LoopEnds, SwapOut, Save, SaveFails, GoesCold
<1>3. Record' = Record
  BY <1>0 DEF Record
<1>4. CASE GoesCold
  <2>1. generated = <<>> /\ file' = file /\ file = SavedState(cache, tokens) /\ mode' = "cold"
    BY <1>4 DEF KvInv, GoesCold
  <2>2. Record = tokens /\ Record \in Seq(Nat)
    BY <1>0, <2>1, RecordIs
  <2>3. file'.cells = cache /\ file'.tokens = tokens
    BY <2>1 DEF SavedState
  <2>4. swapFileBytes' = Cardinality(cache)
    BY <1>4 DEF GoesCold
  <2>5. /\ file'.tokens \in Seq(Nat) /\ Increasing(file'.tokens)
        /\ Mirrors(file'.cells, file'.tokens, failed')
        /\ Cardinality(file'.cells) = swapFileBytes'
    BY <1>0, <2>2, <2>3, <2>4
  <2> QED BY <1>1, <1>2, <2>1, <2>5 DEF KvInv, HasContext
<1>5. CASE LoopEnds \/ SwapOut \/ Save \/ SaveFails
  <2>1. UNCHANGED cache /\ mode' \in {"record", "saving", "saved", "hot"}
    BY <1>5 DEF LoopEnds, SwapOut, Save, SaveFails
  <2>2. mode' = "saved" => file' = SavedState(cache', tokens')
    BY <1>0, <1>5, <2>1 DEF LoopEnds, SwapOut, Save, SaveFails
  <2>3. Increasing(Record)' /\ Mirrors(cache, Record, failed)'
    BY <1>0, <1>3, <2>1
  <2> QED BY <1>1, <1>2, <2>1, <2>2, <2>3 DEF KvInv
<1> QED BY <1>4, <1>5

LEMMA LoadsKept ==
  ASSUME KvInv, Activate \/ SwapIn \/ SwapInFails \/ UNCHANGED kvVars
  PROVE  KvInv'
<1>1. CASE Activate
  <2>1. /\ mode' = "hot" /\ UNCHANGED <<cache, tokens, generated, failed>>
        /\ tokens = <<>> /\ cache = {} /\ generated = <<>>
    BY <1>1 DEF KvInv, Activate
  <2>2. KvTypeOK'
    BY <2>1 DEF KvInv, KvTypeOK
  <2>3. Record' = <<>>
    <3>1. <<>> \o <<>> = <<>>
      BY EmptySeq, ConcatEmptySeq
    <3> QED BY <2>1, <3>1 DEF Record
  <2>4. Increasing(Record)' /\ Mirrors(cache, Record, failed)'
    <3>1. Mirrors({}, <<>>, failed') /\ Increasing(<<>>)
      BY NothingMirrors
    <3> QED BY <2>1, <2>3, <3>1
  <2> QED BY <2>1, <2>2, <2>4 DEF KvInv
<1>2. CASE SwapIn
  <2>1. /\ mode = "cold" /\ mode' = "hot" /\ UNCHANGED <<generated, failed>> /\ generated = <<>>
        /\ cache' = file.cells /\ tokens' = file.tokens
        /\ file.tokens \in Seq(Nat) /\ Increasing(file.tokens)
        /\ Mirrors(file.cells, file.tokens, failed)
    BY <1>2 DEF KvInv, SwapIn
  <2>2. KvTypeOK'
    BY <2>1 DEF KvInv, KvTypeOK
  <2>3. Record' = file.tokens
    BY <2>1, ConcatEmptySeq DEF Record
  <2>4. Increasing(Record)' /\ Mirrors(cache, Record, failed)'
    BY <2>1, <2>3
  <2> QED BY <2>1, <2>2, <2>4 DEF KvInv
<1>3. CASE SwapInFails
  <2>1. mode = "cold" /\ UNCHANGED <<mode, cache, generated, file, swapFileBytes, failed>>
    BY <1>3 DEF SwapInFails
  <2>2. tokens' \in Seq(Nat)
    <3>1. n_ctx \in Nat /\ tokens \in Seq(Nat) /\ Len(tokens) \in Nat
      BY KvAssumption DEF KvInv, KvTypeOK
    <3>2. \A i \in 1 .. Len(tokens) : tokens[i] \in Nat
      BY <3>1, ElementOfSeq
    <3>3. \A i \in 1 .. n_ctx : (IF i <= Len(tokens) THEN tokens[i] ELSE 0) \in Nat
      BY <3>1, <3>2
    <3> QED BY <1>3, <3>1, <3>3 DEF SwapInFails
  <2>3. KvTypeOK'
    BY <2>1, <2>2 DEF KvInv, KvTypeOK
  <2> QED BY <2>1, <2>3 DEF KvInv, HasContext
<1>4. CASE UNCHANGED kvVars
  <2>1. UNCHANGED <<mode, cache, tokens, generated, file, swapFileBytes, failed>>
    BY <1>4 DEF kvVars
  <2>2. Record' = Record
    BY <2>1 DEF Record
  <2> QED BY <2>1, <2>2 DEF KvInv, KvTypeOK, HasContext
<1> QED BY <1>1, <1>2, <1>3, <1>4

LEMMA KvInvKept == KvInv /\ [KvNext]_kvVars => KvInv'
  BY PrefillKept, GenerateKept, RecordGeneratedKept, PruneKept, MovesKept, LoadsKept DEF KvNext

LEMMA KvInvHolds == KvSpec => []KvInv
<1>1. KvInit => KvInv
  BY EmptySeq DEF KvInit, KvInv, KvTypeOK, HasContext
<1> QED BY <1>1, KvInvKept, PTL DEF KvSpec

(* Whatever is decoded, pruned, saved and loaded, and in whatever order,   *)
(* the cache holds the recorded conversation.                              *)
THEOREM CacheAlwaysFollowsRecord == KvSpec => []CacheFollowsRecord
<1>1. KvInv => CacheFollowsRecord
  <2> SUFFICES ASSUME KvInv, HasContext PROVE Follows(cache, tokens \o generated)
    BY DEF CacheFollowsRecord
  <2>1. Record \in Seq(Nat) /\ Mirrors(cache, Record, failed) /\ failed \in BOOLEAN
    BY RecordIs DEF KvInv, KvTypeOK
  <2>2. Follows(cache, Record)
    BY <2>1, MirrorsFollow
  <2> QED BY <2>2 DEF Record
<1> QED BY <1>1, KvInvHolds, PTL

(* A cold session has a file that follows its record, and is charged its   *)
(* size.                                                                   *)
THEOREM FileIsAlwaysCurrent == KvSpec => []FileIsCurrent
<1>1. KvInv => FileIsCurrent
  BY MirrorsFollow DEF KvInv, KvTypeOK, FileIsCurrent
<1> QED BY <1>1, KvInvHolds, PTL

(* With a context at hand, only pruning makes the record shorter.          *)
LEMMA OnlyPruningShortens ==
  ASSUME KvInv, [KvNext]_kvVars, Len(tokens') < Len(tokens), HasContext
  PROVE  Prune
<1>1. ASSUME NEW n \in 1 .. n_ctx, Prefill(n) PROVE FALSE
  <2>1. KvTypeOK /\ n \in Nat /\ generated = <<>>
    BY <1>1, KvAssumption DEF KvInv, Prefill
  <2>2. Record = tokens /\ Record \in Seq(Nat) /\ tokens' = Record \o Batch(Record, n)
    BY <1>1, <2>1, RecordIs DEF Prefill
  <2>3. Len(tokens) \in Nat /\ Len(tokens') = Len(tokens) + n
    BY <2>1, <2>2, RecordGrows
  <2> QED BY <2>1, <2>3
<1>2. CASE RecordGenerated
  <2>1. tokens \in Seq(Nat) /\ generated \in Seq(Nat) /\ tokens' = tokens \o generated
    BY <1>2 DEF KvInv, KvTypeOK, RecordGenerated
  <2>2. Len(tokens) \in Nat /\ Len(generated) \in Nat /\ Len(tokens') = Len(tokens) + Len(generated)
    BY <2>1, ConcatProperties, LenProperties
  <2> QED BY <2>2
<1>3. CASE Generate \/ LoopEnds \/ SwapOut \/ Save \/ SaveFails \/ GoesCold \/ Activate \/ UNCHANGED kvVars
  <2>1. tokens' = tokens /\ Len(tokens) \in Nat
    BY <1>3 DEF Generate, LoopEnds, SwapOut, Save, SaveFails, GoesCold, Activate, kvVars, KvInv, KvTypeOK
  <2> QED BY <2>1
<1>4. CASE SwapIn \/ SwapInFails
  BY <1>4 DEF SwapIn, SwapInFails, HasContext
<1> QED BY <1>1, <1>2, <1>3, <1>4 DEF KvNext

(* Pruning r tokens frees r cells, or all if there are fewer.              *)
THEOREM PruningAlwaysFreesCells == KvSpec => PruningFreesCells
<1> DEFINE Frees ==
      Len(tokens') < Len(tokens) /\ HasContext =>
        LET r == Len(tokens) - Len(tokens')
        IN  Cardinality(cache') = IF r < Cardinality(cache) THEN Cardinality(cache) - r ELSE 0
<1>1. ASSUME KvInv, [KvNext]_kvVars PROVE [Frees]_kvVars
  BY <1>1, OnlyPruningShortens, PruneKept
<1> QED BY <1>1, KvInvHolds, PTL DEF KvSpec, PruningFreesCells

(* However long a conversation and however many rounds of pruning, at      *)
(* least kMinKeepTokens of it are left (session_manager.cpp:198-199).      *)
THEOREM PruningAlwaysKeepsMinimum == KvSpec => PruningKeepsMinimum
<1> DEFINE Keeps == Len(tokens') < Len(tokens) /\ HasContext => Len(tokens') >= kMinKeepTokens
<1>1. ASSUME KvInv, [KvNext]_kvVars PROVE [Keeps]_kvVars
  BY <1>1, OnlyPruningShortens, PruneKept
<1> QED BY <1>1, KvInvHolds, PTL DEF KvSpec, PruningKeepsMinimum

=============================================================================

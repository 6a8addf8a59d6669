------------------------ MODULE PublishProjectProofs ------------------------
(***************************************************************************)
(* Proofs about PublishProject, for any portals, canvases and environments:*)
(* type correctness; what was unticked stays out; what is shown is what is *)
(* published; what a map owes to the index is of its own portal; what was  *)
(* added is found again; and what came from the portal goes back to it.    *)
(***************************************************************************)
EXTENDS PublishProject, SequenceTheorems, FiniteSetTheorems, WellFoundedInduction, TLAPS

-----------------------------------------------------------------------------
(* Sequences                                                               *)

\* What holds of the empty sequence, and of s with x if of s, holds of all.
LEMMA SequenceInduction ==
    ASSUME NEW S, NEW P, <<>> \in P,
           \A s \in Seq(S), x \in S : s \in P => Append(s, x) \in P
    PROVE  Seq(S) \subseteq P
<1> DEFINE N == {n \in Nat : \E s \in Seq(S) : Len(s) = n /\ s \notin P}
<1> SUFFICES ASSUME N # {} PROVE FALSE
  OBVIOUS
<1> DEFINE R == OpToRel(<, Nat)
<1>1. IsWellFoundedOn(R, Nat)
  BY NatLessThanWellFounded
<1>2. PICK n \in N : \A m \in N : ~(<<m, n>> \in R)
  <2> HIDE DEF R
  <2> QED
    BY <1>1, WFMin, N \subseteq Nat
<1>3. PICK s \in Seq(S) : Len(s) = n /\ s \notin P
  BY <1>2
<1>4. PICK t \in Seq(S), x \in S : s = Append(t, x)
  BY <1>3, SequenceEmptyOrAppend
<1>5. Len(t) \in Nat /\ n = Len(t) + 1
  BY <1>3, <1>4
<1>6. <<Len(t), n>> \in R
  BY <1>5 DEF OpToRel
<1>7. t \in P
  <2> HIDE DEF R
  <2> QED
    BY <1>2, <1>4, <1>5, <1>6
<1> QED
  BY <1>3, <1>4, <1>7

\* g is the function Only reads its result from.
Build(s, keep, g) ==
    g = [n \in 0 .. Len(s) |->
            IF n = 0 THEN <<>>
            ELSE IF s[n] \in keep THEN Append(g[n - 1], s[n]) ELSE g[n - 1]]

LEMMA BuildExists == \A S, keep : \A s \in Seq(S) : \E g : Build(s, keep, g)
<1> SUFFICES ASSUME NEW S, NEW keep PROVE \A s \in Seq(S) : \E g : Build(s, keep, g)
  OBVIOUS
<1> DEFINE P == {s \in Seq(S) : \E g : Build(s, keep, g)}
<1>1. <<>> \in P
  <2> DEFINE g == [n \in {0} |-> <<>>]
  <2>1. Build(<<>>, keep, g)
    BY DEF Build
  <2> QED
    BY <2>1
<1>2. ASSUME NEW s \in Seq(S), NEW x \in S, s \in P PROVE Append(s, x) \in P
  <2>1. PICK g : Build(s, keep, g)
    BY <1>2
  <2> DEFINE t == Append(s, x)
             h == [n \in 0 .. Len(t) |->
                      IF n <= Len(s) THEN g[n]
                      ELSE IF x \in keep THEN Append(g[Len(s)], x) ELSE g[Len(s)]]
  <2>2. Len(t) = Len(s) + 1 /\ t[Len(s) + 1] = x /\ \A n \in 1 .. Len(s) : t[n] = s[n]
    OBVIOUS
  <2>3. ASSUME NEW n \in 0 .. Len(t)
        PROVE  h[n] = IF n = 0 THEN <<>>
                      ELSE IF t[n] \in keep THEN Append(h[n - 1], t[n]) ELSE h[n - 1]
    <3>1. CASE n = Len(s) + 1
      BY <2>2, <3>1
    <3>2. CASE n <= Len(s)
      <4>1. h[n] = g[n] /\ (n # 0 => h[n - 1] = g[n - 1] /\ t[n] = s[n])
        BY <2>2, <3>2
      <4>2. n \in 0 .. Len(s)
        BY <3>2
      <4>3. g[n] = IF n = 0 THEN <<>>
                   ELSE IF s[n] \in keep THEN Append(g[n - 1], s[n]) ELSE g[n - 1]
        BY <2>1, <4>2 DEF Build
      <4> QED
        BY <4>1, <4>3
    <3> QED
      BY <2>2, <3>1, <3>2
  <2> HIDE DEF t
  <2>4. Build(t, keep, h)
    BY <2>3 DEF Build
  <2> QED
    BY <2>4 DEF t
<1> HIDE DEF P
<1>3. Seq(S) \subseteq P
  BY <1>1, <1>2, SequenceInduction
<1> QED
  BY <1>3 DEF P

LEMMA BuildAt ==
    ASSUME NEW S, NEW s \in Seq(S), NEW keep, NEW g, Build(s, keep, g), NEW n \in 1 .. Len(s)
    PROVE  g[n] = IF s[n] \in keep THEN Append(g[n - 1], s[n]) ELSE g[n - 1]
<1>1. n \in 0 .. Len(s) /\ n # 0
  OBVIOUS
<1> QED
  BY <1>1 DEF Build

\* What is built of a sequence is built of its beginning first.
LEMMA BuildPrefix ==
    ASSUME NEW S, NEW keep, NEW s \in Seq(S), NEW t \in Seq(S),
           Len(s) <= Len(t), \A n \in 1 .. Len(s) : t[n] = s[n],
           NEW g, Build(s, keep, g), NEW h, Build(t, keep, h)
    PROVE  \A n \in 0 .. Len(s) : h[n] = g[n]
<1> DEFINE N == {n \in 0 .. Len(s) : h[n] # g[n]}
<1> SUFFICES ASSUME N # {} PROVE FALSE
  OBVIOUS
<1> DEFINE R == OpToRel(<, Nat)
<1>1. IsWellFoundedOn(R, Nat)
  BY NatLessThanWellFounded
<1>2. PICK n \in N : \A m \in N : ~(<<m, n>> \in R)
  <2> HIDE DEF R
  <2> QED
    BY <1>1, WFMin, N \subseteq Nat
<1>3. n # 0
  BY DEF Build
<1>4. n \in 1 .. Len(s) /\ n \in 1 .. Len(t) /\ n - 1 \in 0 .. Len(s)
  BY <1>3
<1>5. <<n - 1, n>> \in R
  BY <1>4 DEF OpToRel
<1>6. h[n - 1] = g[n - 1]
  <2> HIDE DEF R
  <2> QED
    BY <1>2, <1>4, <1>5
<1>7. /\ h[n] = IF t[n] \in keep THEN Append(h[n - 1], t[n]) ELSE h[n - 1]
      /\ g[n] = IF s[n] \in keep THEN Append(g[n - 1], s[n]) ELSE g[n - 1]
  <2> HIDE DEF N, R
  <2> QED
    BY <1>4, BuildAt
<1> QED
  BY <1>4, <1>6, <1>7

LEMMA OnlyIsBuilt ==
    \A S, keep : \A s \in Seq(S) : \A g : Build(s, keep, g) => Only(s, keep) = g[Len(s)]
<1> SUFFICES ASSUME NEW S, NEW keep, NEW s \in Seq(S), NEW g, Build(s, keep, g)
             PROVE  Only(s, keep) = g[Len(s)]
  OBVIOUS
<1> DEFINE upto == CHOOSE h : Build(s, keep, h)
<1>1. Only(s, keep) = upto[Len(s)]
  BY DEF Only, Build
<1>2. Build(s, keep, upto)
  OBVIOUS
<1> HIDE DEF upto
<1> QED
  BY <1>1, <1>2, BuildPrefix

LEMMA OnlyOfNone == \A keep : Only(<<>>, keep) = <<>>
<1> SUFFICES ASSUME NEW keep PROVE Only(<<>>, keep) = <<>>
  OBVIOUS
<1>1. <<>> \in Seq({})
  OBVIOUS
<1>2. PICK g : Build(<<>>, keep, g)
  BY <1>1, BuildExists
<1> QED
  BY <1>1, <1>2, OnlyIsBuilt DEF Build

LEMMA OnlyAppend ==
    ASSUME NEW S, NEW s \in Seq(S), NEW x \in S, NEW keep
    PROVE  Only(Append(s, x), keep)
               = IF x \in keep THEN Append(Only(s, keep), x) ELSE Only(s, keep)
<1> DEFINE t == Append(s, x)
<1>1. t \in Seq(S) /\ Len(t) = Len(s) + 1 /\ t[Len(t)] = x /\ \A n \in 1 .. Len(s) : t[n] = s[n]
  OBVIOUS
<1> HIDE DEF t
<1>2. PICK g : Build(s, keep, g)
  BY BuildExists
<1>3. PICK h : Build(t, keep, h)
  BY <1>1, BuildExists
<1>4. h[Len(s)] = g[Len(s)]
  <2>1. Len(s) \in 0 .. Len(s) /\ Len(s) <= Len(t)
    BY <1>1
  <2>2. \A n \in 0 .. Len(s) : h[n] = g[n]
    BY <1>1, <1>2, <1>3, <2>1, BuildPrefix
  <2> QED
    BY <2>1, <2>2
<1>5. h[Len(t)] = IF x \in keep THEN Append(h[Len(s)], x) ELSE h[Len(s)]
  <2>1. Len(t) \in 1 .. Len(t) /\ Len(t) - 1 = Len(s)
    BY <1>1
  <2> QED
    BY <1>1, <1>3, <2>1, BuildAt
<1>6. Only(s, keep) = g[Len(s)] /\ Only(t, keep) = h[Len(t)]
  BY <1>1, <1>2, <1>3, OnlyIsBuilt
<1> QED
  BY <1>4, <1>5, <1>6 DEF t

LEMMA ToSetAppend ==
    ASSUME NEW S, NEW s \in Seq(S), NEW x \in S
    PROVE  Append(s, x) \in Seq(S) /\ ToSet(Append(s, x)) = ToSet(s) \cup {x}
<1> DEFINE t == Append(s, x)
<1>1. t \in Seq(S)
  OBVIOUS
<1>2. DOMAIN s = 1 .. Len(s) /\ DOMAIN t = 1 .. Len(s) + 1 /\ Len(s) \in Nat
  OBVIOUS
<1>3. (\A n \in 1 .. Len(s) : t[n] = s[n]) /\ t[Len(s) + 1] = x
  OBVIOUS
<1> HIDE DEF t
<1>4. \A y : (\E n \in DOMAIN t : t[n] = y) <=> (\E n \in DOMAIN s : s[n] = y) \/ y = x
  <2> SUFFICES ASSUME NEW y
               PROVE (\E n \in DOMAIN t : t[n] = y) <=> (\E n \in DOMAIN s : s[n] = y) \/ y = x
    OBVIOUS
  <2>1. ASSUME NEW n \in DOMAIN t, t[n] = y PROVE (\E k \in DOMAIN s : s[k] = y) \/ y = x
    BY <1>2, <1>3, <2>1
  <2>2. ASSUME NEW n \in DOMAIN s, s[n] = y PROVE \E k \in DOMAIN t : t[k] = y
    BY <1>2, <1>3, <2>2
  <2>3. y = x => \E n \in DOMAIN t : t[n] = y
    BY <1>2, <1>3
  <2> QED
    BY <2>1, <2>2, <2>3
<1>5. ToSet(t) = ToSet(s) \cup {x}
  BY <1>4 DEF ToSet
<1> QED
  BY <1>1, <1>5 DEF t

\* What is kept is what was there and is wanted.
LEMMA OnlyMembers ==
    ASSUME NEW S, NEW s \in Seq(S), NEW keep
    PROVE  Only(s, keep) \in Seq(S) /\ ToSet(Only(s, keep)) = ToSet(s) \cap keep
<1> DEFINE P == {q \in Seq(S) : Only(q, keep) \in Seq(S)
                                /\ ToSet(Only(q, keep)) = ToSet(q) \cap keep}
<1>1. <<>> \in P
  <2>1. ToSet(<<>>) = {}
    BY DEF ToSet
  <2>2. <<>> \in Seq(S) /\ {} = {} \cap keep
    OBVIOUS
  <2>3. Only(<<>>, keep) = <<>>
    BY OnlyOfNone
  <2> QED
    BY <2>1, <2>2, <2>3
<1>2. ASSUME NEW q \in Seq(S), NEW x \in S, q \in P PROVE Append(q, x) \in P
  <2>1. \A r \in Seq(S) : Append(r, x) \in Seq(S) /\ ToSet(Append(r, x)) = ToSet(r) \cup {x}
    BY ToSetAppend
  <2> DEFINE r == Only(q, keep)
  <2>2. r \in Seq(S) /\ ToSet(r) = ToSet(q) \cap keep
    BY <1>2
  <2>3. Only(Append(q, x), keep) = IF x \in keep THEN Append(r, x) ELSE r
    BY OnlyAppend
  <2> HIDE DEF r
  <2> QED
    BY <2>1, <2>2, <2>3
<1> HIDE DEF P
<1>3. Seq(S) \subseteq P
  BY <1>1, <1>2, SequenceInduction
<1> QED
  BY <1>3 DEF P

\* Keeping twice is keeping once what both keep.
LEMMA OnlyTwice ==
    ASSUME NEW S, NEW s \in Seq(S), NEW A, NEW B
    PROVE  Only(Only(s, A), B) = Only(s, A \cap B)
<1> DEFINE C == A \cap B
<1>0. \A x : x \in C <=> x \in A /\ x \in B
  OBVIOUS
<1> HIDE DEF C
<1> DEFINE P == {q \in Seq(S) : Only(Only(q, A), B) = Only(q, C)}
<1>1. <<>> \in P
  BY OnlyOfNone
<1>2. ASSUME NEW q \in Seq(S), NEW x \in S, q \in P PROVE Append(q, x) \in P
  <2> DEFINE r == Only(q, A)
  <2>1. r \in Seq(S)
    BY OnlyMembers
  <2>2. Only(Append(q, x), A) = IF x \in A THEN Append(r, x) ELSE r
    BY OnlyAppend
  <2>3. Only(Append(r, x), B) = IF x \in B THEN Append(Only(r, B), x) ELSE Only(r, B)
    BY <2>1, OnlyAppend
  <2>4. Only(Append(q, x), C)
            = IF x \in C THEN Append(Only(q, C), x) ELSE Only(q, C)
    BY OnlyAppend
  <2>5. Only(r, B) = Only(q, C)
    BY <1>2
  <2>6. Append(q, x) \in Seq(S)
    OBVIOUS
  <2> HIDE DEF r
  <2>7. Only(Only(Append(q, x), A), B) = Only(Append(q, x), C)
    <3>1. CASE x \in A
      BY <1>0, <2>2, <2>3, <2>4, <2>5, <3>1
    <3>2. CASE x \notin A
      <4>1. Only(Append(q, x), A) = r /\ Only(Append(q, x), C) = Only(q, C)
        BY <1>0, <2>2, <2>4, <3>2
      <4> QED
        BY <2>5, <4>1
    <3> QED
      BY <3>1, <3>2
  <2> QED
    BY <2>6, <2>7
<1> HIDE DEF P
<1>3. Seq(S) \subseteq P
  BY <1>1, <1>2, SequenceInduction
<1> QED
  BY <1>3 DEF P, C

\* Only what is there counts.
LEMMA OnlySame ==
    ASSUME NEW S, NEW s \in Seq(S), NEW A, NEW B, \A x \in S : x \in A <=> x \in B
    PROVE  Only(s, A) = Only(s, B)
<1> DEFINE P == {q \in Seq(S) : Only(q, A) = Only(q, B)}
<1>1. <<>> \in P
  BY OnlyOfNone
<1>2. ASSUME NEW q \in Seq(S), NEW x \in S, q \in P PROVE Append(q, x) \in P
  <2>1. Append(q, x) \in Seq(S)
    OBVIOUS
  <2>2. Only(Append(q, x), A) = IF x \in A THEN Append(Only(q, A), x) ELSE Only(q, A)
    BY OnlyAppend
  <2>3. Only(Append(q, x), B) = IF x \in B THEN Append(Only(q, B), x) ELSE Only(q, B)
    BY OnlyAppend
  <2>4. Only(q, A) = Only(q, B) /\ (x \in A <=> x \in B)
    BY <1>2
  <2>5. Only(Append(q, x), A) = Only(Append(q, x), B)
    BY <2>2, <2>3, <2>4
  <2> QED
    BY <2>1, <2>5
<1> HIDE DEF P
<1>3. Seq(S) \subseteq P
  BY <1>1, <1>2, SequenceInduction
<1> QED
  BY <1>3 DEF P

Mapped(f, s) == [k \in DOMAIN s |-> f[s[k]]]

\* B keeps the images of what A keeps.
Agree(S, f, A, B) == \A x \in S : x \in A <=> f[x] \in B

\* Keeping some and mapping them is mapping all and keeping their images.
LEMMA OnlyMapped ==
    ASSUME NEW S, NEW s \in Seq(S), NEW f, NEW A, NEW B, Agree(S, f, A, B)
    PROVE  Mapped(f, Only(s, A)) = Only(Mapped(f, s), B)
<1> DEFINE T == {f[x] : x \in S}
<1>0. \A m, y : m \in Seq(T) /\ y \in T =>
          Only(Append(m, y), B) = IF y \in B THEN Append(Only(m, B), y) ELSE Only(m, B)
  <2> HIDE DEF T
  <2> SUFFICES ASSUME NEW m \in Seq(T), NEW y \in T
               PROVE  Only(Append(m, y), B) = IF y \in B THEN Append(Only(m, B), y) ELSE Only(m, B)
    OBVIOUS
  <2> QED
    BY OnlyAppend
<1> DEFINE P == {q \in Seq(S) : Mapped(f, Only(q, A)) = Only(Mapped(f, q), B)}
<1>1. <<>> \in P
  <2>1. Mapped(f, <<>>) = <<>>
    BY DEF Mapped
  <2> QED
    BY <2>1, OnlyOfNone
<1>2. \A q \in Seq(S) : Mapped(f, q) \in Seq(T)
  BY DEF Mapped
<1>3. \A q \in Seq(S), x \in S : Mapped(f, Append(q, x)) = Append(Mapped(f, q), f[x])
  BY DEF Mapped
<1>4. ASSUME NEW q \in Seq(S), NEW x \in S, q \in P PROVE Append(q, x) \in P
  <2>1. Only(q, A) \in Seq(S)
    BY OnlyMembers
  <2>2. Only(Append(q, x), A) = IF x \in A THEN Append(Only(q, A), x) ELSE Only(q, A)
    BY OnlyAppend
  <2>3. Mapped(f, Append(q, x)) = Append(Mapped(f, q), f[x])
    BY <1>3
  <2>4. Mapped(f, q) \in Seq(T) /\ f[x] \in T
    BY <1>2
  <2>5. Only(Append(Mapped(f, q), f[x]), B)
            = IF f[x] \in B THEN Append(Only(Mapped(f, q), B), f[x]) ELSE Only(Mapped(f, q), B)
    <3> HIDE DEF T
    <3> QED
      BY <2>4, <1>0
  <2>6. Mapped(f, Append(Only(q, A), x)) = Append(Mapped(f, Only(q, A)), f[x])
    BY <1>3, <2>1
  <2>7. Mapped(f, Only(q, A)) = Only(Mapped(f, q), B)
    BY <1>4
  <2>8. x \in A <=> f[x] \in B
    BY DEF Agree
  <2>9. Mapped(f, Only(Append(q, x), A)) = Only(Mapped(f, Append(q, x)), B)
    BY <2>2, <2>3, <2>5, <2>6, <2>7, <2>8
  <2>10. Append(q, x) \in Seq(S)
    OBVIOUS
  <2> QED
    BY <2>9, <2>10
<1> HIDE DEF P
<1>5. Seq(S) \subseteq P
  BY <1>1, <1>4, SequenceInduction
<1> QED
  BY <1>5 DEF P

LEMMA MembersOf ==
    ASSUME NEW S, NEW s \in Seq(S)
    PROVE  IsSequence(s) /\ ToSet(s) \subseteq S
<1>1. DOMAIN s = 1 .. Len(s) /\ Len(s) \in Nat /\ s = [k \in 1 .. Len(s) |-> s[k]]
  OBVIOUS
<1>2. \A k \in 1 .. Len(s) : s[k] \in ToSet(s) /\ s[k] \in S
  BY <1>1 DEF ToSet
<1>3. s \in Seq(ToSet(s))
  BY <1>1, <1>2
<1> QED
  BY <1>1, <1>2, <1>3 DEF IsSequence, ToSet

LEMMA OnlySequence ==
    ASSUME NEW s, IsSequence(s), NEW keep
    PROVE  /\ IsSequence(Only(s, keep))
           /\ ToSet(Only(s, keep)) = ToSet(s) \cap keep
           /\ Only(s, keep) \in Seq(ToSet(s) \cap keep)
<1>1. Only(s, keep) \in Seq(ToSet(s)) /\ ToSet(Only(s, keep)) = ToSet(s) \cap keep
  BY OnlyMembers DEF IsSequence
<1>2. IsSequence(Only(s, keep))
  BY <1>1, MembersOf
<1> QED
  BY <1>1, <1>2 DEF IsSequence

LEMMA Sequenced ==
    ASSUME NEW n \in Nat, NEW s, s = [k \in 1 .. n |-> s[k]]
    PROVE  IsSequence(s) /\ Len(s) = n /\ ToSet(s) = {s[k] : k \in 1 .. n}
<1>1. DOMAIN s = 1 .. n
  OBVIOUS
<1>2. ToSet(s) = {s[k] : k \in 1 .. n}
  BY <1>1 DEF ToSet
<1>3. \A k \in 1 .. n : s[k] \in ToSet(s)
  BY <1>2
<1>4. s \in Seq(ToSet(s))
  BY <1>3
<1> QED
  BY <1>1, <1>2, <1>4 DEF IsSequence

-----------------------------------------------------------------------------
(* The translation                                                         *)

\* An entry has the id of its layer, is no basemap's, and names an item of the
\* index unless it stands for a portal layer.
LEMMA Entries ==
    ASSUME NEW l, NEW ix, Resolves(l, ix)
    PROVE  /\ EntryFor(l, ix).id = l.id
           /\ l.origin # None \/ l.src.shape # "xyz"
           /\ EntryFor(l, ix).kind # "data-layer" /\ EntryFor(l, ix).item # None =>
                 \/ EntryFor(l, ix).item \in ix.tiles
                 \/ \E x \in ix.services : EntryFor(l, ix).item = x.item
<1>1. CASE l.origin # None
  BY <1>1 DEF EntryFor, DocEntry
<1>2. CASE l.origin = None /\ parse_tile_layer_uri(l.src)
  <2>1. /\ ~parse_portal_layer_source(l.src) /\ ~ResolvesAsService(l.src)
        /\ l.src.shape # "xyz"
    BY <1>2 DEF parse_tile_layer_uri, parse_portal_layer_source, parse_oapif_uri,
                parse_vector_tile_uri, ResolvesAsService
  <2>2. l.src.item \in ix.tiles /\ EntryFor(l, ix) = DocEntry(l.id, "tile", l.src.item, None, None)
    BY <1>2, <2>1 DEF Resolves, EntryFor
  <2> QED
    BY <2>1, <2>2 DEF DocEntry
<1>3. CASE l.origin = None /\ parse_portal_layer_source(l.src) /\ ~parse_tile_layer_uri(l.src)
  <2>1. EntryFor(l, ix) = DocEntry(l.id, "data-layer", l.src.item, l.src.layer, None)
    BY <1>3 DEF EntryFor, parse_portal_layer_source, parse_oapif_uri, parse_vector_tile_uri,
                ResolvesAsService
  <2>2. l.src.shape # "xyz"
    BY <1>3 DEF parse_portal_layer_source, parse_oapif_uri, parse_vector_tile_uri
  <2> QED
    BY <2>1, <2>2 DEF DocEntry
<1>4. CASE /\ l.origin = None /\ ResolvesAsService(l.src)
           /\ ~parse_tile_layer_uri(l.src) /\ ~parse_portal_layer_source(l.src)
  <2> DEFINE of == {x \in ix.services : x.kind = l.src.shape}
             i == ServiceItem(l.src, ix)
  <2>1. i # None => \E x \in ix.services : i = x.item
    BY DEF ServiceItem, ItemFor
  <2>2. EntryFor(l, ix) = DocEntry(l.id, l.src.shape, i, l.src.layer, l.src.url)
    BY <1>4 DEF EntryFor
  <2> HIDE DEF i
  <2> QED
    BY <1>4, <2>1, <2>2 DEF DocEntry, ResolvesAsService
<1> QED
  BY <1>1, <1>2, <1>3, <1>4 DEF Resolves

\* Every entry is one of a layer.
OfLayers(entries, s, ix) ==
    \A e \in ToSet(entries) : \E l \in ToSet(s) : Resolves(l, ix) /\ e = EntryFor(l, ix)

LEMMA Translated ==
    ASSUME NEW s, IsSequence(s), NEW ix, NEW view
    PROVE  /\ IsSequence(Translate(s, ix, view).entries)
           /\ OfLayers(Translate(s, ix, view).entries, s, ix)
<1> DEFINE kept == Included(s, ix)
           all == [k \in DOMAIN kept |-> EntryFor(kept[k], ix)]
<1>1. Translate(s, ix, view).entries = all
  BY DEF Translate, MapDoc
<1>2. IsSequence(kept) /\ ToSet(kept) = ToSet(s) \cap {l \in ToSet(s) : Resolves(l, ix)}
  BY OnlySequence DEF Included
<1>3. Len(kept) \in Nat /\ DOMAIN kept = 1 .. Len(kept)
  BY <1>2 DEF IsSequence
<1>4. IsSequence(all) /\ ToSet(all) = {EntryFor(kept[k], ix) : k \in 1 .. Len(kept)}
  <2> HIDE DEF kept
  <2>1. all = [k \in 1 .. Len(kept) |-> all[k]]
    BY <1>3
  <2>2. \A k \in 1 .. Len(kept) : all[k] = EntryFor(kept[k], ix)
    BY <1>3
  <2> HIDE DEF all
  <2> QED
    BY <1>3, <2>1, <2>2, Sequenced
<1>5. \A k \in 1 .. Len(kept) : kept[k] \in ToSet(s) /\ Resolves(kept[k], ix)
  <2> HIDE DEF kept
  <2> QED
    BY <1>2, <1>3 DEF ToSet
<1> HIDE DEF kept, all
<1> QED
  BY <1>1, <1>4, <1>5 DEF OfLayers

LEMMA SkippedOf ==
    ASSUME NEW s, IsSequence(s), NEW ix
    PROVE  IsSequence(Skipped(s, ix)) /\ ToSet(Skipped(s, ix)) \subseteq ToSet(s)
<1> DEFINE keep == {l \in ToSet(s) : ~Resolves(l, ix) /\ BasemapFor(l, ix) = None}
<1>1. Skipped(s, ix) = Only(s, keep)
  BY DEF Skipped
<1> HIDE DEF keep
<1>2. IsSequence(Only(s, keep)) /\ ToSet(Only(s, keep)) = ToSet(s) \cap keep
  BY OnlySequence
<1> QED
  BY <1>1, <1>2

LEMMA OnlyOfOnly ==
    ASSUME NEW s, IsSequence(s), NEW A, NEW B, NEW C,
           \A l \in ToSet(s) : l \in C <=> l \in A /\ l \in B
    PROVE  Only(Only(s, A), B) = Only(s, C)
<1> DEFINE D == A \cap B
<1>1. \A l \in ToSet(s) : l \in C <=> l \in D
  OBVIOUS
<1>2. Only(Only(s, A), B) = Only(s, D)
  BY OnlyTwice DEF IsSequence
<1> HIDE DEF D
<1>3. Only(s, D) = Only(s, C)
  BY <1>1, OnlySame DEF IsSequence
<1> QED
  BY <1>2, <1>3

\* Whatever is left out of the layers is left out of those that resolve...
LEMMA IncludedOfOnly ==
    ASSUME NEW s, IsSequence(s), NEW X, NEW ix
    PROVE  Included(Only(s, X), ix) = Only(Included(s, ix), X)
<1> DEFINE t == Only(s, X)
           E == {l \in ToSet(s) : Resolves(l, ix)}
           Et == {l \in ToSet(t) : Resolves(l, ix)}
           C == ToSet(s) \cap X \cap E
<1>1. Included(s, ix) = Only(s, E) /\ Included(t, ix) = Only(t, Et)
  BY DEF Included
<1>2. ToSet(t) = ToSet(s) \cap X
  BY OnlySequence
<1>3. \A l \in ToSet(s) : (l \in C <=> l \in X /\ l \in Et) /\ (l \in C <=> l \in E /\ l \in X)
  BY <1>2
<1> HIDE DEF E, Et, C
<1>4. Only(t, Et) = Only(s, C)
  BY <1>3, OnlyOfOnly
<1>5. Only(Only(s, E), X) = Only(s, C)
  BY <1>3, OnlyOfOnly
<1> QED
  BY <1>1, <1>4, <1>5

\* ... and, if it is no basemap, leaves the basemaps as they are.
LEMMA BasemapsOfOnly ==
    ASSUME NEW s, IsSequence(s), NEW X, NEW ix,
           \A l \in ToSet(s) : BasemapFor(l, ix) # None => l \in X
    PROVE  BasemapsOf(Only(s, X), ix) = BasemapsOf(s, ix)
<1> DEFINE t == Only(s, X)
           B == {l \in ToSet(s) : BasemapFor(l, ix) # None}
           Bt == {l \in ToSet(t) : BasemapFor(l, ix) # None}
<1>1. BasemapsOf(s, ix) = Only(s, B) /\ BasemapsOf(t, ix) = Only(t, Bt)
  BY DEF BasemapsOf
<1>2. ToSet(t) = ToSet(s) \cap X
  BY OnlySequence
<1>3. \A l \in ToSet(s) : l \in B <=> l \in X /\ l \in Bt
  BY <1>2
<1> HIDE DEF B, Bt
<1>4. Only(t, Bt) = Only(s, B)
  BY <1>3, OnlyOfOnly
<1> QED
  BY <1>1, <1>4

Resolved(kept, ix) == \A l \in ToSet(kept) : Resolves(l, ix)

LeavesOut(kept, X, out) == \A l \in ToSet(kept) : l \in X <=> l.id \notin out

LEMMA EntriesOfOnly ==
    ASSUME NEW kept, IsSequence(kept), NEW ix, Resolved(kept, ix),
           NEW X, NEW out, LeavesOut(kept, X, out),
           NEW entries, entries = [k \in DOMAIN kept |-> EntryFor(kept[k], ix)],
           NEW rest, rest = Only(kept, X),
           NEW K, K = {e \in ToSet(entries) : e.id \notin out}
    PROVE  [k \in DOMAIN rest |-> EntryFor(rest[k], ix)] = Only(entries, K)
<1> DEFINE S == ToSet(kept)
           f == [l \in S |-> EntryFor(l, ix)]
<1>1. IsSequence(rest) /\ ToSet(rest) = S \cap X
  BY OnlySequence
<1>2. (\A k \in DOMAIN kept : kept[k] \in S) /\ \A k \in DOMAIN rest : rest[k] \in S
  <2>1. \A k \in DOMAIN rest : rest[k] \in ToSet(rest)
    BY DEF ToSet
  <2>2. \A k \in DOMAIN kept : kept[k] \in S
    BY DEF ToSet
  <2> QED
    BY <1>1, <2>1, <2>2
<1>3. entries = Mapped(f, kept)
  BY <1>2 DEF Mapped
<1>4. [k \in DOMAIN rest |-> EntryFor(rest[k], ix)] = Mapped(f, rest)
  BY <1>2 DEF Mapped
<1>5. Agree(S, f, X, K)
  <2> SUFFICES ASSUME NEW l \in S PROVE l \in X <=> f[l] \in K
    BY DEF Agree
  <2>1. f[l].id = l.id
    BY Entries DEF Resolved
  <2>2. f[l] \in ToSet(entries)
    <3>1. PICK k \in DOMAIN kept : kept[k] = l
      BY DEF ToSet
    <3>2. k \in DOMAIN entries /\ entries[k] = f[l]
      BY <3>1
    <3> HIDE DEF f
    <3> QED
      BY <3>2 DEF ToSet
  <2>3. l \in X <=> l.id \notin out
    BY DEF LeavesOut
  <2> HIDE DEF f
  <2> QED
    BY <2>1, <2>2, <2>3
<1>6. kept \in Seq(S)
  BY DEF IsSequence
<1> HIDE DEF f, S
<1>7. Mapped(f, Only(kept, X)) = Only(Mapped(f, kept), K)
  BY <1>5, <1>6, OnlyMapped
<1> QED
  BY <1>3, <1>4, <1>7

SparesBasemaps(s, out) ==
    \A l \in ToSet(s) : l.id \in out => l.origin # None \/ l.src.shape # "xyz"

\* The one document is the other, less the entries that are out.
IsLess(some, all, out) ==
    /\ some.basemap = all.basemap
    /\ some.entries = Only(all.entries, {e \in ToSet(all.entries) : e.id \notin out})

\* Leaving out layers that are no basemaps leaves out their entries, and nothing else.
LEMMA LeftOut ==
    ASSUME NEW s, IsSequence(s), NEW ix, NEW view, NEW out, SparesBasemaps(s, out),
           NEW X, X = {l \in ToSet(s) : l.id \notin out}
    PROVE  IsLess(Translate(Only(s, X), ix, view), Translate(s, ix, view), out)
<1> DEFINE t == Only(s, X)
           kept == Included(s, ix)
           entries == [k \in DOMAIN kept |-> EntryFor(kept[k], ix)]
           rest == Only(kept, X)
           K == {e \in ToSet(entries) : e.id \notin out}
<1>1. \A l \in ToSet(s) : (BasemapFor(l, ix) # None => l \in X) /\ (l \in X <=> l.id \notin out)
  BY DEF BasemapFor, SparesBasemaps
<1>2. BasemapsOf(t, ix) = BasemapsOf(s, ix) /\ Included(t, ix) = rest
  BY <1>1, BasemapsOfOnly, IncludedOfOnly
<1>3. /\ IsSequence(kept) /\ \A l \in ToSet(kept) : l \in ToSet(s) /\ Resolves(l, ix)
  BY OnlySequence DEF Included
<1>4. Translate(s, ix, view).entries = entries
  BY DEF Translate, MapDoc
<1>5. Translate(t, ix, view).entries = [k \in DOMAIN rest |-> EntryFor(rest[k], ix)]
  <2>1. Translate(t, ix, view).entries
            = [k \in DOMAIN Included(t, ix) |-> EntryFor(Included(t, ix)[k], ix)]
    BY DEF Translate, MapDoc
  <2> HIDE DEF rest, t, kept
  <2> QED
    BY <1>2, <2>1
<1>6. Translate(t, ix, view).basemap = Translate(s, ix, view).basemap
  <2> HIDE DEF t
  <2> QED
    BY <1>2 DEF Translate, MapDoc
<1>7. Resolved(kept, ix) /\ LeavesOut(kept, X, out)
  BY <1>1, <1>3 DEF Resolved, LeavesOut
<1>8. /\ entries = [k \in DOMAIN kept |-> EntryFor(kept[k], ix)] /\ rest = Only(kept, X)
      /\ K = {e \in ToSet(entries) : e.id \notin out}
  OBVIOUS
<1> HIDE DEF kept, entries, rest, K
<1>9. [k \in DOMAIN rest |-> EntryFor(rest[k], ix)] = Only(entries, K)
  BY <1>3, <1>7, <1>8, EntriesOfOnly
<1> HIDE DEF t
<1> QED
  BY <1>4, <1>5, <1>6, <1>8, <1>9 DEF t, IsLess

-----------------------------------------------------------------------------
(* What holds of the canvas, the portals and the dialog                    *)

StoreInv == store = [i \in Items |-> store[i]] /\ \A i \in Items : ItemOK(store[i])

\* No basemap is made of such a layer.
NoBasemap(l) == l.origin # None \/ l.src.shape # "xyz"

CanvasInv ==
    /\ IsSequence(canvas)
    /\ \A k \in DOMAIN canvas :
          canvas[k].id \in 1 .. Len(canvas) /\ canvas[k].src.shape \in SourceShapes
    /\ \A k, n \in DOMAIN canvas : canvas[k].id = canvas[n].id => k = n

OpeningInv ==
    /\ opening = [state |-> opening.state, portal |-> opening.portal, item |-> opening.item,
                  plan |-> opening.plan]
    /\ opening.state \in {"none", "sent", "planned"}
    /\ opening.state = "sent" => opening.item \in Items /\ store[opening.item].kind = "map"
                                 /\ store[opening.item].portal # None
    /\ IsSequence(opening.plan)
    /\ \A p \in ToSet(opening.plan) : p.src.shape \in SourceShapes

\* The list is that of the canvas as it was drawn, whose layers have kept their
\* ids and their sources.
DrawnInv ==
    /\ IsSequence(drawn)
    /\ dlg = "open" => /\ translation.doc = Translate(drawn, index, View)
                       /\ translation.skipped = Skipped(drawn, index)
    /\ \A d \in ToSet(drawn) :
          /\ d.id \in 1 .. Len(canvas)
          /\ \A l \in ToSet(canvas) :
                l.id = d.id => l.src = d.src /\ (NoBasemap(d) => NoBasemap(l))

\* No box but those of entries is unticked, and unticked it stays.
TickInv ==
    /\ excluded = unticked /\ excluded \subseteq 1 .. Len(canvas)
    /\ \A l \in ToSet(canvas) : l.id \in excluded => NoBasemap(l)

\* What an index names is of its portal.
IndexOf(ix, items) ==
    /\ ix.of \in Portals \cup {None}
    /\ \A x \in ix.basemaps \cup ix.services : x.item \in Items /\ items[x.item].portal = ix.of
    /\ \A i \in ix.tiles : i \in Items /\ items[i].portal = ix.of
    /\ ix.of = None => ix.basemaps = {} /\ ix.services = {} /\ ix.tiles = {}

\* A task is of the portal that is chosen while the dialog is open, and nothing
\* takes up the ids a create was begun with.
TaskInv ==
    /\ task = [kind |-> task.kind, state |-> task.state, portal |-> task.portal,
               arg |-> task.arg, out |-> task.out]
    /\ task.kind \in {"none", "index", "create", "bulk", "publish"}
    /\ task.state \in {"none", "sent", "done", "failed"}
    /\ task.kind = "none" <=> task.state = "none"
    /\ dlg = "none" => task.kind = "none" /\ busy = FALSE
    /\ dlg = "open" => (busy <=> task.kind # "none") /\ (busy => task.portal = chosen)
    /\ task.kind # "none" => task.portal \in Portals
    /\ task.kind \in {"create", "bulk"} => IsSequence(task.arg)
    /\ task.kind \in {"create", "bulk"} /\ task.state = "sent" => Room(Len(task.arg))
    /\ task.kind = "publish" => IsSequence(task.arg.entries)
    /\ task.kind = "index" /\ task.state = "done" => IndexOf(task.out, store) /\ task.out.of = task.portal

IndexInv ==
    /\ IndexOf(index, store)
    /\ chosen \in Portals \cup {None} /\ connections \subseteq Portals
    /\ dlg = "open" /\ task.kind # "index" => index.of \in {None, chosen}

DialogOK ==
    env \in Envs /\ dlg \in {"none", "open", "closed", "published"} /\ busy \in BOOLEAN

MapsInv ==
    DialogOK /\ StoreInv /\ CanvasInv /\ OpeningInv /\ DrawnInv /\ TickInv /\ TaskInv /\ IndexInv

\* What is on a portal stays on it, and stays what it is.
StoreKept ==
    \A i \in Items : store[i].portal # None =>
        /\ store'[i].portal = store[i].portal /\ store'[i].kind = store[i].kind
        /\ store'[i].url = store[i].url /\ store'[i].layers = store[i].layers
        /\ store'[i].doc = store[i].doc
        /\ store'[i].live => store[i].live
        /\ store[i].live => store'[i].live \/ May("delete")

\* New layers have new ids; an old one keeps its source.
CanvasGrows ==
    /\ Len(canvas') >= Len(canvas)
    /\ \A l \in ToSet(canvas') :
          \/ l.id > Len(canvas)
          \/ \E k \in ToSet(canvas) :
                k.id = l.id /\ k.src = l.src /\ (NoBasemap(k) => NoBasemap(l))

-----------------------------------------------------------------------------
(* The portals                                                             *)

\* What the dialog creates is an item as a portal has it.
LEMMA MadeOK ==
    \A p \in Portals : \A u, d :
        /\ ItemOK(NewBasemap(p, u)) /\ NewBasemap(p, u).portal = p
        /\ IsSequence(d.entries) => ItemOK(NewMap(p, d))
        /\ NewMap(p, d).portal = p
        /\ \A kind \in {"tile_layer", "data_layer"} :
              ItemOK([BlankItem EXCEPT !.live = TRUE, !.portal = p, !.kind = kind])
<1> SUFFICES ASSUME NEW p \in Portals, NEW u, NEW d
             PROVE  /\ ItemOK(NewBasemap(p, u)) /\ NewBasemap(p, u).portal = p
                    /\ IsSequence(d.entries) => ItemOK(NewMap(p, d))
                    /\ NewMap(p, d).portal = p
                    /\ \A kind \in {"tile_layer", "data_layer"} :
                          ItemOK([BlankItem EXCEPT !.live = TRUE, !.portal = p, !.kind = kind])
  OBVIOUS
<1>1. ASSUME NEW x, NEW kind \in Consumable, kind = "map" => IsSequence(x.doc.entries),
             x = [live |-> x.live, portal |-> x.portal, kind |-> x.kind, access |-> x.access,
                  mine |-> x.mine, url |-> x.url, layers |-> x.layers, doc |-> x.doc],
             x.live = TRUE, x.portal = p, x.kind = kind, x.layers = <<>>
      PROVE  ItemOK(x)
  <2>1. x \in [live : BOOLEAN, portal : Portals \cup {None}, kind : Consumable \cup {"none", "other"},
               access : {x.access}, mine : {x.mine}, url : {x.url}, layers : {x.layers}, doc : {x.doc}]
    BY <1>1
  <2>2. x.portal # None /\ IsSequence(x.layers)
    BY <1>1, NoneAssumption DEF IsSequence
  <2> QED
    BY <1>1, <2>1, <2>2 DEF ItemOK
<1>2. ASSUME NEW b, b = BlankItem, NEW kind \in Consumable, NEW x, NEW url, NEW doc,
             \/ x = [b EXCEPT !.live = TRUE, !.portal = p, !.kind = kind]
             \/ x = [b EXCEPT !.live = TRUE, !.portal = p, !.kind = kind, !.url = url]
             \/ x = [b EXCEPT !.live = TRUE, !.portal = p, !.kind = kind, !.doc = doc],
             kind = "map" => /\ IsSequence(doc.entries)
                             /\ x = [b EXCEPT !.live = TRUE, !.portal = p, !.kind = kind, !.doc = doc]
      PROVE  ItemOK(x)
  <2>1. b = [live |-> FALSE, portal |-> None, kind |-> "none", access |-> "private", mine |-> TRUE,
             url |-> None, layers |-> <<>>, doc |-> None]
    BY <1>2 DEF BlankItem
  <2>2. /\ x = [live |-> x.live, portal |-> x.portal, kind |-> x.kind, access |-> x.access,
                mine |-> x.mine, url |-> x.url, layers |-> x.layers, doc |-> x.doc]
        /\ x.live = TRUE /\ x.portal = p /\ x.kind = kind
    BY <1>2, <2>1
  <2>3. kind = "map" => x.doc = doc
    BY <1>2, <2>1
  <2>4. b.layers = <<>>
    BY <2>1
  <2>5. x.layers = <<>>
    <3>1. \A e : b.layers = e => x.layers = e
      BY <1>2, <2>1
    <3> QED
      BY <2>4, <3>1
  <2> QED
    BY <1>1, <1>2, <2>2, <2>3, <2>5
<1> QED
  BY <1>2 DEF NewBasemap, NewMap, BlankItem, Consumable

LEMMA DeletedOK ==
    \A x : ItemOK(x) => LET y == [x EXCEPT !.live = FALSE]
                        IN /\ ItemOK(y) /\ ~y.live
                           /\ y.portal = x.portal /\ y.kind = x.kind
                           /\ y.url = x.url /\ y.layers = x.layers /\ y.doc = x.doc
<1> SUFFICES ASSUME NEW x, ItemOK(x), NEW y, y = [x EXCEPT !.live = FALSE]
             PROVE  /\ ItemOK(y) /\ ~y.live
                    /\ y.portal = x.portal /\ y.kind = x.kind
                    /\ y.url = x.url /\ y.layers = x.layers /\ y.doc = x.doc
  OBVIOUS
<1>1. /\ y = [live |-> FALSE, portal |-> x.portal, kind |-> x.kind, access |-> x.access,
              mine |-> x.mine, url |-> x.url, layers |-> x.layers, doc |-> x.doc]
      /\ x.portal \in Portals \cup {None} /\ x.kind \in Consumable \cup {"none", "other"}
      /\ x.kind = "map" => IsSequence(x.doc.entries)
      /\ IsSequence(x.layers)
  BY DEF ItemOK
<1> QED
  BY <1>1 DEF ItemOK

\* There are ids for the rows of a create.
LEMMA EnoughFresh ==
    ASSUME NEW s, IsSequence(s), Room(Len(s)), NEW done \in SUBSET DOMAIN s
    PROVE  Injection(done, FreshItems) # {}
<1>1. IsFiniteSet(FreshItems)
  BY ItemsAssumption, FS_Subset DEF FreshItems
<1>2. Len(s) \in Nat /\ DOMAIN s = 1 .. Len(s) /\ Cardinality(FreshItems) >= Len(s)
  BY DEF IsSequence, Room
<1>3. PICK b : b \in Bijection(1 .. Cardinality(FreshItems), FreshItems)
  BY <1>1, FS_NatBijection, FS_CardinalityType DEF ExistsBijection
<1>4. Cardinality(FreshItems) \in Nat /\ done \subseteq 1 .. Cardinality(FreshItems)
  BY <1>1, <1>2, FS_CardinalityType
<1> DEFINE f == [k \in done |-> b[k]]
<1>5. f \in Injection(done, FreshItems)
  BY <1>3, <1>4 DEF Bijection, Injection, IsInjective
<1> QED
  BY <1>5

LEMMA StoreStep ==
    MapsInv /\ [Next]_vars =>
        /\ StoreInv' /\ StoreKept
        /\ task.kind \in {"create", "bulk"} /\ task.state = "sent" /\ task' = task
              => FreshItems' = FreshItems
<1> DEFINE Kept == task.kind \in {"create", "bulk"} /\ task.state = "sent" /\ task' = task
                       => FreshItems' = FreshItems
<1> SUFFICES ASSUME MapsInv, [Next]_vars PROVE StoreInv' /\ StoreKept /\ Kept
  OBVIOUS
<1>1. ASSUME store' = store PROVE StoreInv' /\ StoreKept /\ Kept
  BY <1>1 DEF MapsInv, StoreInv, StoreKept, FreshItems
<1>2. ASSUME NEW l, NEW p \in Portals, NEW i \in Items, PublishLocal(l, p, i)
      PROVE  StoreInv' /\ StoreKept /\ Kept
  <2> DEFINE x == [BlankItem EXCEPT !.live = TRUE, !.portal = p,
                       !.kind = IF l.src.shape = "local-raster" THEN "tile_layer" ELSE "data_layer"]
  <2>1. Kept
    BY <1>2 DEF PublishLocal, MapsInv, TaskInv
  <2>2. store' = store \/ store' = [store EXCEPT ![i] = x]
    BY <1>2 DEF PublishLocal
  <2>3. ItemOK(x)
    BY MadeOK
  <2>4. store[i].portal = None
    BY <1>2 DEF PublishLocal
  <2> HIDE DEF x
  <2> QED
    BY <1>1, <2>1, <2>2, <2>3, <2>4 DEF MapsInv, StoreInv, StoreKept
<1>3. ASSUME RunCreate, task.portal \in Portals PROVE StoreInv' /\ StoreKept /\ Kept
  <2>1. PICK done \in SUBSET DOMAIN task.arg :
           LET id == CHOOSE f \in Injection(done, FreshItems) : TRUE
               row(i) == CHOOSE k \in done : id[k] = i
           IN Create([i \in {id[k] : k \in done} |-> NewBasemap(task.portal, task.arg[row(i)])])
    BY <1>3 DEF RunCreate
  <2> DEFINE id == CHOOSE f \in Injection(done, FreshItems) : TRUE
             row(i) == CHOOSE k \in done : id[k] = i
  <2>2. id \in Injection(done, FreshItems)
    <3>1. IsSequence(task.arg) /\ Room(Len(task.arg))
      BY <1>3 DEF RunCreate, MapsInv, TaskInv
    <3>2. Injection(done, FreshItems) # {}
      BY <3>1, EnoughFresh
    <3> QED
      BY <3>2
  <2> DEFINE taken == {id[k] : k \in done}
             url(i) == task.arg[row(i)]
  <2>3. taken \subseteq FreshItems
    <3> HIDE DEF id
    <3> QED
      BY <2>2 DEF Injection
  <2>4. store' = [i \in Items |-> IF i \in taken THEN NewBasemap(task.portal, url(i)) ELSE store[i]]
    BY <2>1 DEF Create
  <2>5. \A i \in taken : ItemOK(NewBasemap(task.portal, url(i)))
    <3> HIDE DEF taken, url
    <3> QED
      BY <1>3, MadeOK
  <2>6. task' # task
    <3>1. \A out : [task EXCEPT !.state = "done", !.out = out] # task
                   /\ [task EXCEPT !.state = "failed", !.out = out] # task
      <4>1. task.state = "sent"
        BY <1>3 DEF RunCreate
      <4>2. task = [kind |-> task.kind, state |-> task.state, portal |-> task.portal,
                    arg |-> task.arg, out |-> task.out]
        BY DEF MapsInv, TaskInv
      <4> QED
        BY <4>1, <4>2
    <3> HIDE DEF MapsInv
    <3>2. (\E out : Finish("done", out)) \/ Finish("failed", None)
      BY <1>3 DEF RunCreate
    <3> QED
      BY <3>1, <3>2 DEF Finish
  <2>7. \A i \in taken : i \in Items /\ store[i].portal = None
    <3> HIDE DEF taken
    <3> QED
      BY <2>3 DEF FreshItems
  <2> HIDE DEF taken, url
  <2>8. StoreInv'
    BY <2>4, <2>5 DEF MapsInv, StoreInv
  <2>9. StoreKept
    BY <2>4, <2>7 DEF StoreKept
  <2> QED
    BY <2>6, <2>8, <2>9
<1>4. ASSUME RunPublish, task.portal \in Portals PROVE StoreInv' /\ StoreKept /\ Kept
  <2> DEFINE i == CHOOSE x \in FreshItems : TRUE
  <2>1. CASE UNCHANGED store
    BY <1>1, <2>1
  <2>2. CASE FreshItems # {} /\ Create([x \in {i} |-> NewMap(task.portal, task.arg)])
    <3>1. i \in Items /\ store[i].portal = None
      BY <2>2 DEF FreshItems
    <3> HIDE DEF i
    <3>2. store' = [x \in Items |-> IF x = i THEN NewMap(task.portal, task.arg) ELSE store[x]]
      BY <2>2 DEF Create
    <3>3. ItemOK(NewMap(task.portal, task.arg))
      BY <1>4, MadeOK DEF RunPublish, MapsInv, TaskInv
    <3>4. Kept
      BY <1>4 DEF RunPublish
    <3> QED
      BY <3>1, <3>2, <3>3, <3>4 DEF MapsInv, StoreInv, StoreKept
  <2> QED
    BY <1>4, <2>1, <2>2 DEF RunPublish
<1>5. ASSUME NEW i \in Items, DeleteItem(i) PROVE StoreInv' /\ StoreKept /\ Kept
  <2> DEFINE y == [store[i] EXCEPT !.live = FALSE]
  <2>1. store' = [store EXCEPT ![i] = y]
    BY <1>5 DEF DeleteItem
  <2>2. ItemOK(store[i]) /\ store[i].live
    BY <1>5 DEF DeleteItem, MapsInv, StoreInv
  <2>3. /\ ItemOK(y) /\ ~y.live
        /\ y.portal = store[i].portal /\ y.kind = store[i].kind
        /\ y.url = store[i].url /\ y.layers = store[i].layers /\ y.doc = store[i].doc
    BY <2>2, DeletedOK
  <2>4. store[i].portal # None /\ May("delete")
    BY <1>5, <2>2 DEF ItemOK, DeleteItem
  <2> HIDE DEF y
  <2>5. FreshItems' = FreshItems
    BY <2>1, <2>3, <2>4 DEF MapsInv, StoreInv, FreshItems
  <2> QED
    BY <2>1, <2>2, <2>3, <2>4, <2>5 DEF MapsInv, StoreInv, StoreKept
<1>6. CASE Worker
  <2>1. RunCreate \/ RunPublish => task.portal \in Portals
    BY DEF RunCreate, RunPublish, MapsInv, TaskInv
  <2>2. RunFetchIndex => store' = store
    BY DEF RunFetchIndex
  <2> QED
    BY <1>1, <1>3, <1>4, <1>6, <2>1, <2>2 DEF Worker
<1>7. CASE Callback \/ OpenMapStep \/ UNCHANGED vars
  BY <1>1, <1>7 DEF Callback, CallbackWhenClosed, IndexLanded, CreateLanded, PublishLanded, OpenMapStep,
                    FetchMap, BuildMap, vars
<1>8. CASE User
  BY <1>1, <1>2, <1>5, <1>8
     DEF User, AddFromBrowser, LaunchOpenMap, AddFeatureTwin, AddOutside, OpenDialog, ChoosePortal, Tick,
         AddBasemap, BulkAddMissing, PressPublish, Close, RemoveConnection
<1> QED
  BY <1>6, <1>7, <1>8 DEF Next

-----------------------------------------------------------------------------
(* The canvas                                                              *)

\* New layers go on top.
LEMMA TopKept ==
    ASSUME CanvasInv, NEW sources, IsSequence(sources),
           \A x \in ToSet(sources) : x.src.shape \in SourceShapes,
           PutOnTop(sources)
    PROVE  CanvasInv' /\ CanvasGrows
<1> DEFINE n == Len(sources)
           m == Len(canvas)
           top == [k \in DOMAIN sources |-> Layer(m + k, sources[k].src, sources[k].origin, sources[k].from)]
<1>1. /\ n \in Nat /\ DOMAIN sources = 1 .. n
      /\ m \in Nat /\ DOMAIN canvas = 1 .. m /\ canvas \in Seq(ToSet(canvas))
  BY DEF CanvasInv, IsSequence
<1>2. \A k \in 1 .. n : sources[k].src.shape \in SourceShapes
  BY <1>1 DEF ToSet
<1>3. canvas' = top \o canvas
  BY DEF PutOnTop
<1>4. \A k \in 1 .. n : top[k].id = m + k /\ top[k].src.shape \in SourceShapes
  BY <1>1, <1>2 DEF Layer
<1>5. IsSequence(top) /\ Len(top) = n /\ DOMAIN top = 1 .. n
  <2>1. top = [k \in 1 .. n |-> top[k]]
    BY <1>1
  <2> HIDE DEF top, n
  <2> QED
    BY <1>1, <2>1, Sequenced
<1> DEFINE all == ToSet(top) \cup ToSet(canvas)
<1>6. top \in Seq(all) /\ canvas \in Seq(all)
  <2>1. top \in Seq(ToSet(top)) /\ canvas \in Seq(ToSet(canvas))
    BY <1>1, <1>5 DEF IsSequence
  <2> HIDE DEF top
  <2> QED
    BY <2>1
<1> HIDE DEF n, m, top, all
<1>7. /\ canvas' \in Seq(all) /\ Len(canvas') = n + m /\ DOMAIN canvas' = 1 .. n + m
      /\ \A k \in 1 .. n + m : canvas'[k] = IF k <= n THEN top[k] ELSE canvas[k - n]
  <2>1. Len(canvas) = m /\ Len(top) = n
    BY <1>5 DEF m
  <2> DEFINE c == top \o canvas
  <2>2. /\ c \in Seq(all) /\ Len(c) = Len(top) + Len(canvas)
        /\ \A k \in 1 .. Len(top) + Len(canvas) :
              c[k] = IF k <= Len(top) THEN top[k] ELSE canvas[k - Len(top)]
    BY <1>6, ConcatProperties
  <2> HIDE DEF c
  <2>3. DOMAIN c = 1 .. Len(c)
    BY <2>2
  <2>4. canvas' = c
    BY <1>3 DEF c
  <2> QED
    BY <2>1, <2>2, <2>3, <2>4
<1>8. IsSequence(canvas')
  BY <1>7, MembersOf
<1>9. \A k \in 1 .. n + m :
         \/ k <= n /\ k \in 1 .. n /\ canvas'[k].id = m + k /\ canvas'[k].src.shape \in SourceShapes
         \/ k > n /\ k - n \in 1 .. m /\ canvas'[k] = canvas[k - n]
                  /\ canvas'[k].id \in 1 .. m /\ canvas'[k].src.shape \in SourceShapes
  <2> SUFFICES ASSUME NEW k \in 1 .. n + m
               PROVE
         \/ k <= n /\ k \in 1 .. n /\ canvas'[k].id = m + k /\ canvas'[k].src.shape \in SourceShapes
         \/ k > n /\ k - n \in 1 .. m /\ canvas'[k] = canvas[k - n]
                  /\ canvas'[k].id \in 1 .. m /\ canvas'[k].src.shape \in SourceShapes
    OBVIOUS
  <2>1. CASE k <= n
    <3>1. k \in 1 .. n
      BY <1>1, <2>1
    <3> QED
      BY <1>4, <1>7, <2>1, <3>1
  <2>2. CASE k > n
    <3>1. k - n \in 1 .. m /\ ~(k <= n)
      BY <1>1, <2>2
    <3>2. canvas[k - n].id \in 1 .. m /\ canvas[k - n].src.shape \in SourceShapes
      BY <1>1, <3>1 DEF CanvasInv, m
    <3> QED
      BY <1>7, <2>2, <3>1, <3>2
  <2> QED
    BY <1>1, <2>1, <2>2
<1>10. CanvasInv'
  <2>1. \A k \in DOMAIN canvas' :
           canvas'[k].id \in 1 .. Len(canvas') /\ canvas'[k].src.shape \in SourceShapes
    BY <1>1, <1>7, <1>9
  <2>2. ASSUME NEW j \in DOMAIN canvas', NEW k \in DOMAIN canvas', canvas'[j].id = canvas'[k].id
        PROVE  j = k
    <3>1. CASE j <= n
      BY <1>1, <1>7, <1>9, <2>2, <3>1
    <3>2. CASE j > n
      <4>1. k > n
        BY <1>1, <1>7, <1>9, <2>2, <3>2
      <4>2. j - n \in DOMAIN canvas /\ k - n \in DOMAIN canvas /\ canvas[j - n].id = canvas[k - n].id
        BY <1>1, <1>7, <1>9, <2>2, <3>2, <4>1
      <4>3. j - n = k - n
        BY <4>2 DEF CanvasInv
      <4> QED
        BY <1>1, <1>7, <4>3
    <3> QED
      BY <1>1, <1>7, <3>1, <3>2
  <2> QED
    BY <1>8, <2>1, <2>2 DEF CanvasInv
<1>11. CanvasGrows
  <2>1. Len(canvas') >= Len(canvas)
    BY <1>1, <1>7 DEF m
  <2>2. ASSUME NEW l \in ToSet(canvas'), ~(l.id > Len(canvas))
        PROVE  l \in ToSet(canvas)
    <3>1. PICK k \in 1 .. n + m : canvas'[k] = l
      BY <1>7 DEF ToSet
    <3>2. k > n
      BY <1>1, <1>9, <2>2, <3>1 DEF m
    <3>3. k - n \in DOMAIN canvas /\ canvas[k - n] = l
      BY <1>1, <1>9, <3>1, <3>2
    <3> QED
      BY <3>3 DEF ToSet
  <2> QED
    BY <2>1, <2>2 DEF CanvasGrows
<1> QED
  BY <1>10, <1>11

\* What the tree, a twin and an opened map draw are layers QGIS knows.
LEMMA Shapes ==
    /\ \A p, i, item, keyed : \A src \in RoutedSources(p, i, item, keyed) : src.shape \in SourceShapes
    /\ \A src : parse_portal_layer_source(src) => feature_twin_uri(src).shape \in SourceShapes
    /\ \A e, referenced, p, keyed : LET src == PlanOne(e, referenced, p, keyed)
                                    IN src # None => src.shape \in SourceShapes
    /\ \A doc, referenced : LET src == PlanBasemap(doc, referenced)
                            IN src # None => src.shape \in SourceShapes
<1>1. \A item, p, i, layer, keyed :
         /\ FeaturesUri(p, i, item, layer, keyed).shape \in SourceShapes
         /\ SpatialSublayerUri(p, i, item, layer, keyed).shape \in SourceShapes
  BY DEF FeaturesUri, SpatialSublayerUri, authed_oapif_uri, oapif_uri, authed_vector_tile_uri,
         vector_tile_uri, Source, SourceShapes
<1>2. \A kind \in {"xyz", "FeatureServer", "MapServer", "MapServer-by-layer"} : \A url, layer :
         Outside(kind, url, layer).shape \in SourceShapes
  BY DEF Outside, SourceShapes
<1>3. \A p, i : tile_layer_xyz_uri(p, i).shape \in SourceShapes
  BY DEF tile_layer_xyz_uri, Source, SourceShapes
<1>4. ASSUME NEW p, NEW i, NEW item, NEW keyed, NEW src \in RoutedSources(p, i, item, keyed)
      PROVE  src.shape \in SourceShapes
  <2>1. CASE item.kind = "data_layer"
    <3>1. src \in DataLayerSources(p, i, item, keyed)
      BY <2>1 DEF RoutedSources
    <3>2. PICK lyr : src \in SublayerSources(p, i, item, lyr, keyed)
      BY <3>1 DEF DataLayerSources
    <3>3. \/ src = FeaturesUri(p, i, item, lyr.id, keyed)
          \/ src = SpatialSublayerUri(p, i, item, lyr.id, keyed)
      BY <3>2 DEF SublayerSources
    <3> QED
      BY <1>1, <3>3
  <2>2. CASE item.kind = "tile_layer"
    BY <1>3, <2>2 DEF RoutedSources, TileLayerSources
  <2>3. CASE item.kind = "basemap"
    BY <1>2, <2>3 DEF RoutedSources, BasemapSources
  <2>4. CASE item.kind \in {"FeatureServer", "MapServer"}
    <3>1. src \in ServiceSources(item)
      BY <2>4 DEF RoutedSources
    <3>2. \E k : src = ServiceSublayer(item, k)
      BY <3>1 DEF ServiceSources
    <3> QED
      BY <1>2, <2>4, <3>2 DEF ServiceSublayer
  <2> QED
    BY <2>1, <2>2, <2>3, <2>4 DEF RoutedSources
<1>5. ASSUME NEW src, parse_portal_layer_source(src)
      PROVE  feature_twin_uri(src).shape \in SourceShapes
  BY <1>5 DEF feature_twin_uri, authed_oapif_uri, oapif_uri, Source, SourceShapes
<1>6. ASSUME NEW e, NEW referenced, NEW p, NEW keyed, PlanOne(e, referenced, p, keyed) # None
      PROVE  PlanOne(e, referenced, p, keyed).shape \in SourceShapes
  <2>1. CASE e.kind = "data-layer" /\ referenced[e.item] # None
    <3> DEFINE lyr == MatchedLayer(referenced[e.item], e.layer)
    <3>1. PlanOne(e, referenced, p, keyed)
              = DataLayerSource(e.item, e.layer, referenced[e.item], p, keyed)
      BY <2>1 DEF PlanOne
    <3>2. \/ PlanOne(e, referenced, p, keyed)
                 = FeaturesUri(p, e.item, referenced[e.item], lyr.id, keyed)
          \/ PlanOne(e, referenced, p, keyed)
                 = SpatialSublayerUri(p, e.item, referenced[e.item], lyr.id, keyed)
      BY <3>1 DEF DataLayerSource
    <3> QED
      BY <1>1, <3>2
  <2>2. CASE e.kind = "tile" /\ referenced[e.item] # None
    BY <1>3, <2>2 DEF PlanOne
  <2>3. CASE e.kind = "FeatureServer" \/ e.kind = "MapServer"
    BY <1>2, <2>3 DEF PlanOne
  <2> QED
    BY <1>6, <2>1, <2>2, <2>3 DEF PlanOne
<1>7. ASSUME NEW doc, NEW referenced, PlanBasemap(doc, referenced) # None
      PROVE  PlanBasemap(doc, referenced).shape \in SourceShapes
  BY <1>2, <1>7 DEF PlanBasemap
<1> QED
  BY <1>4, <1>5, <1>6, <1>7

LEMMA One == \A x : IsSequence(<<x>>) /\ ToSet(<<x>>) = {x} /\ Len(<<x>>) = 1
BY DEF IsSequence, ToSet

LEMMA CanvasStep == MapsInv /\ [Next]_vars => CanvasInv' /\ CanvasGrows
<1> SUFFICES ASSUME MapsInv, [Next]_vars PROVE CanvasInv' /\ CanvasGrows
  OBVIOUS
<1>1. CanvasInv
  BY DEF MapsInv
<1>2. ASSUME canvas' = canvas PROVE CanvasInv' /\ CanvasGrows
  <2>1. CanvasInv'
    BY <1>1, <1>2 DEF CanvasInv, IsSequence
  <2>2. Len(canvas') >= Len(canvas)
    BY <1>1, <1>2 DEF CanvasInv, IsSequence
  <2> QED
    BY <1>2, <2>1, <2>2 DEF CanvasGrows
<1>3. ASSUME NEW src, NEW origin, NEW from, src.shape \in SourceShapes,
             PutOnTop(<<[src |-> src, origin |-> origin, from |-> from]>>)
      PROVE  CanvasInv' /\ CanvasGrows
  <2> DEFINE x == [src |-> src, origin |-> origin, from |-> from]
  <2>1. x.src = src
    OBVIOUS
  <2> HIDE DEF x
  <2>2. IsSequence(<<x>>) /\ \A y \in ToSet(<<x>>) : y.src.shape \in SourceShapes
    BY <1>3, <2>1, One
  <2>3. PutOnTop(<<x>>)
    BY <1>3 DEF x
  <2> QED
    BY <1>1, <2>2, <2>3, TopKept
<1>4. ASSUME NEW p \in Portals, NEW i \in Items, AddFromBrowser(p, i) PROVE CanvasInv' /\ CanvasGrows
  <2>1. PICK src \in RoutedSources(p, i, store[i], Keyed) :
           PutOnTop(<<[src |-> src, origin |-> None,
                       from |-> [portal |-> p, entry |-> Reference(i, src)]]>>)
    BY <1>4 DEF AddFromBrowser
  <2>2. src.shape \in SourceShapes
    BY Shapes
  <2> QED
    BY <1>3, <2>1, <2>2
<1>5. ASSUME NEW l, AddFeatureTwin(l) PROVE CanvasInv' /\ CanvasGrows
  <2>1. PutOnTop(<<[src |-> feature_twin_uri(l.src), origin |-> None, from |-> l.from]>>)
    BY <1>5 DEF AddFeatureTwin
  <2>2. parse_portal_layer_source(l.src)
    BY <1>5 DEF AddFeatureTwin, feature_twin_uri
  <2>3. feature_twin_uri(l.src).shape \in SourceShapes
    BY <2>2, Shapes
  <2> QED
    BY <1>3, <2>1, <2>3
<1>6. ASSUME NEW l \in Palette, AddOutside(l) PROVE CanvasInv' /\ CanvasGrows
  <2>1. PutOnTop(<<[src |-> l.src, origin |-> l.origin, from |-> None]>>)
    BY <1>6 DEF AddOutside
  <2> QED
    BY <1>3, <2>1, PaletteAssumption DEF LoneOK
<1>7. ASSUME BuildMap PROVE CanvasInv' /\ CanvasGrows
  <2> DEFINE plan == opening.plan
             sources == [k \in DOMAIN plan |->
                            [src |-> plan[k].src, origin |-> None,
                             from |-> [portal |-> opening.portal, entry |-> plan[k].entry]]]
  <2>1. IsSequence(plan) /\ \A x \in ToSet(plan) : x.src.shape \in SourceShapes
    BY DEF MapsInv, OpeningInv
  <2> HIDE DEF plan
  <2>2. Len(plan) \in Nat /\ DOMAIN plan = 1 .. Len(plan)
    BY <2>1 DEF IsSequence
  <2>3. \A k \in 1 .. Len(plan) : sources[k].src = plan[k].src /\ plan[k].src.shape \in SourceShapes
    BY <2>1, <2>2 DEF ToSet
  <2>4. sources = [k \in 1 .. Len(plan) |-> sources[k]]
    BY <2>2
  <2>5. PutOnTop(sources)
    BY <1>7 DEF BuildMap, plan
  <2> HIDE DEF sources
  <2>6. IsSequence(sources) /\ ToSet(sources) = {sources[k] : k \in 1 .. Len(plan)}
    BY <2>2, <2>4, Sequenced
  <2>7. \A x \in ToSet(sources) : x.src.shape \in SourceShapes
    BY <2>3, <2>6
  <2> QED
    BY <1>1, <2>5, <2>6, <2>7, TopKept
<1>8. ASSUME NEW l \in ToSet(translation.skipped), NEW p \in Portals, NEW i \in Items, PublishLocal(l, p, i)
      PROVE  CanvasInv' /\ CanvasGrows
  <2> DEFINE raster == l.src.shape = "local-raster"
             Same(k) == /\ canvas'[k].id = canvas[k].id /\ canvas'[k].src = canvas[k].src
                        /\ NoBasemap(canvas[k]) => NoBasemap(canvas'[k])
  <2>1. CASE UNCHANGED canvas
    BY <1>2, <2>1
  <2>2. CASE canvas' = [k \in DOMAIN canvas |->
                           IF raster /\ canvas[k].id = l.id
                           THEN [canvas[k] EXCEPT !.origin = [item |-> i, layer |-> None]]
                           ELSE canvas[k]]
    <3>1. Len(canvas) \in Nat /\ DOMAIN canvas = 1 .. Len(canvas)
      BY <1>1 DEF CanvasInv, IsSequence
    <3>2. ASSUME NEW k \in DOMAIN canvas PROVE Same(k)
      <4>1. CASE ~(raster /\ canvas[k].id = l.id)
        BY <2>2, <4>1
      <4>2. CASE raster /\ canvas[k].id = l.id
        <5>1. l \in ToSet(drawn)
          <6>1. translation.skipped = Skipped(drawn, index) /\ IsSequence(drawn)
            BY <1>8 DEF PublishLocal, MapsInv, DrawnInv
          <6> QED
            BY <6>1, SkippedOf
        <5>2. canvas[k] \in ToSet(canvas)
          BY DEF ToSet
        <5>3. canvas[k].src.shape = "local-raster"
          BY <4>2, <5>1, <5>2 DEF MapsInv, DrawnInv
        <5>4. canvas'[k] = [canvas[k] EXCEPT !.origin = [item |-> i, layer |-> None]]
          BY <2>2, <4>2
        <5>5. canvas'[k].id = canvas[k].id /\ canvas'[k].src = canvas[k].src
          BY <5>4
        <5> QED
          BY <5>3, <5>5 DEF NoBasemap
      <4> QED
        BY <4>1, <4>2
    <3>3. canvas' = [k \in 1 .. Len(canvas) |-> canvas'[k]]
      BY <2>2, <3>1
    <3>4. IsSequence(canvas') /\ Len(canvas') = Len(canvas) /\ DOMAIN canvas' = 1 .. Len(canvas)
      BY <3>1, <3>3, Sequenced
    <3> HIDE DEF raster, Same
    <3>5. CanvasInv'
      <4>1. \A k \in DOMAIN canvas : canvas'[k].id = canvas[k].id /\ canvas'[k].src = canvas[k].src
        BY <3>2 DEF Same
      <4> QED
        BY <1>1, <3>1, <3>4, <4>1 DEF CanvasInv
    <3>6. \A j \in ToSet(canvas') : \E k \in ToSet(canvas) :
             k.id = j.id /\ k.src = j.src /\ (NoBasemap(k) => NoBasemap(j))
      <4> SUFFICES ASSUME NEW j \in ToSet(canvas')
                   PROVE  \E k \in ToSet(canvas) :
                             k.id = j.id /\ k.src = j.src /\ (NoBasemap(k) => NoBasemap(j))
        OBVIOUS
      <4>1. PICK n \in DOMAIN canvas : j = canvas'[n]
        BY <3>1, <3>4 DEF ToSet
      <4>2. canvas[n] \in ToSet(canvas)
        BY DEF ToSet
      <4> QED
        BY <3>2, <4>1, <4>2 DEF Same
    <3> QED
      BY <3>1, <3>4, <3>5, <3>6 DEF CanvasGrows
  <2> QED
    BY <1>8, <2>1, <2>2 DEF PublishLocal
<1>9. CASE Worker \/ Callback \/ FetchMap \/ UNCHANGED vars
  BY <1>2, <1>9 DEF Worker, Callback, CallbackWhenClosed, IndexLanded, CreateLanded, PublishLanded,
                    FetchMap, vars, canvasVars
<1>10. CASE User
  BY <1>2, <1>4, <1>5, <1>6, <1>8, <1>10
     DEF User, LaunchOpenMap, OpenDialog, ChoosePortal, Tick, AddBasemap, BulkAddMissing, PressPublish,
         Close, DeleteItem, RemoveConnection, canvasVars
<1> QED
  BY <1>7, <1>9, <1>10 DEF Next, OpenMapStep

LEMMA PlanShapes ==
    ASSUME NEW doc, IsSequence(doc.entries), NEW referenced, NEW p, NEW keyed
    PROVE  LET plan == PlanMapOpen(doc, referenced, p, keyed)
           IN IsSequence(plan) /\ \A x \in ToSet(plan) : x.src.shape \in SourceShapes
<1> DEFINE Step(e) == [src |-> PlanOne(e, referenced, p, keyed), entry |-> e]
           base == [src |-> PlanBasemap(doc, referenced),
                    entry |-> DocEntry(0, "basemap", doc.basemap, None, None)]
           steps == [k \in DOMAIN doc.entries |-> Step(doc.entries[k])]
           all == Append(steps, base)
           n == Len(doc.entries)
           sound == {x \in ToSet(all) : x.src # None}
<1>1. PlanMapOpen(doc, referenced, p, keyed) = Only(all, sound)
  BY DEF PlanMapOpen
<1>2. n \in Nat /\ DOMAIN doc.entries = 1 .. n
  BY DEF IsSequence
<1>3. IsSequence(steps) /\ ToSet(steps) = {steps[k] : k \in 1 .. n}
  <2>1. steps = [k \in 1 .. n |-> steps[k]]
    BY <1>2
  <2> HIDE DEF steps, n
  <2> QED
    BY <1>2, <2>1, Sequenced
<1>4. \A x \in ToSet(steps) \cup {base} : x.src # None => x.src.shape \in SourceShapes
  <2>1. \A k \in 1 .. n : steps[k].src = PlanOne(doc.entries[k], referenced, p, keyed)
    BY <1>2
  <2>2. base.src = PlanBasemap(doc, referenced)
    OBVIOUS
  <2> HIDE DEF steps, n, base
  <2> QED
    BY <1>3, <2>1, <2>2, Shapes
<1> DEFINE either == ToSet(steps) \cup {base}
<1>5. IsSequence(all) /\ ToSet(all) \subseteq either
  <2>1. steps \in Seq(either) /\ base \in either
    BY <1>3 DEF IsSequence
  <2> HIDE DEF steps, base, either
  <2>2. all \in Seq(either)
    BY <2>1
  <2> HIDE DEF all
  <2> QED
    BY <2>2, MembersOf
<1> HIDE DEF all, steps, base
<1>6. \A x \in ToSet(all) \cap sound : x.src.shape \in SourceShapes
  BY <1>4, <1>5
<1> HIDE DEF sound
<1>7. IsSequence(Only(all, sound)) /\ ToSet(Only(all, sound)) = ToSet(all) \cap sound
  BY <1>5, OnlySequence
<1> QED
  BY <1>1, <1>6, <1>7

LEMMA OpeningStep == MapsInv /\ [Next]_vars => OpeningInv'
<1> SUFFICES ASSUME MapsInv, [Next]_vars PROVE OpeningInv'
  OBVIOUS
<1>1. StoreKept /\ OpeningInv
  BY StoreStep DEF MapsInv
<1>2. ASSUME opening' = opening PROVE OpeningInv'
  BY <1>1, <1>2 DEF OpeningInv, StoreKept
<1>3. IsSequence(<<>>) /\ ToSet(<<>>) = {}
  BY DEF IsSequence, ToSet
<1>4. /\ NoOpening.state = "none" /\ NoOpening.plan = <<>>
      /\ NoOpening = [state |-> NoOpening.state, portal |-> NoOpening.portal, item |-> NoOpening.item,
                      plan |-> NoOpening.plan]
  BY DEF NoOpening
<1>5. ASSUME NEW p \in Portals, NEW i \in Items, LaunchOpenMap(p, i) PROVE OpeningInv'
  <2>0. PICK o : o = [NoOpening EXCEPT !.state = "sent", !.portal = p, !.item = i]
    OBVIOUS
  <2>1. /\ o.state = "sent" /\ o.item = i /\ o.plan = <<>>
        /\ o = [state |-> o.state, portal |-> o.portal, item |-> o.item, plan |-> o.plan]
    BY <2>0 DEF NoOpening
  <2>2. opening' = o /\ store' = store /\ store[i].kind = "map"
    BY <1>5, <2>0 DEF LaunchOpenMap
  <2>3. store[i].portal = p
    BY <1>5 DEF LaunchOpenMap, Has
  <2> QED
    BY <1>3, <2>1, <2>2, <2>3, NoneAssumption DEF OpeningInv
<1>6. ASSUME FetchMap PROVE OpeningInv'
  <2>0. PICK unread \in SUBSET Items :
           LET p == opening.portal
               full == IF opening.item \in unread THEN None ELSE Lookup(store, p, opening.item)
               doc == IF full = None THEN MapDoc(None, <<>>, None, None) ELSE full.doc
               referenced == [i \in ReferencedItemIds(doc) |->
                                 IF i \in unread THEN None ELSE Lookup(store, p, i)]
           IN opening' = [opening EXCEPT !.state = "planned",
                                         !.plan = PlanMapOpen(doc, referenced, p, Keyed)]
    BY <1>6 DEF FetchMap
  <2> DEFINE full == IF opening.item \in unread THEN None ELSE Lookup(store, opening.portal, opening.item)
             doc == IF full = None THEN MapDoc(None, <<>>, None, None) ELSE full.doc
             referenced == [i \in ReferencedItemIds(doc) |->
                               IF i \in unread THEN None ELSE Lookup(store, opening.portal, i)]
  <2>1. /\ full = None \/ full = store[opening.item]
        /\ doc = IF full = None THEN MapDoc(None, <<>>, None, None) ELSE full.doc
        /\ opening' = [opening EXCEPT !.state = "planned",
                                      !.plan = PlanMapOpen(doc, referenced, opening.portal, Keyed)]
    BY <2>0 DEF Lookup, Has
  <2> HIDE DEF full, doc, referenced
  <2>2. IsSequence(doc.entries)
    <3>1. CASE full = None
      <4>1. doc.entries = <<>>
        BY <2>1, <3>1 DEF MapDoc
      <4> QED
        BY <1>3, <4>1
    <3>2. CASE full # None
      <4>1. opening.item \in Items /\ store[opening.item].kind = "map"
        BY <1>1, <1>6 DEF FetchMap, OpeningInv
      <4>2. ItemOK(store[opening.item])
        BY <4>1 DEF MapsInv, StoreInv
      <4> QED
        BY <2>1, <3>2, <4>1, <4>2 DEF ItemOK
    <3> QED
      BY <3>1, <3>2
  <2> DEFINE plan == PlanMapOpen(doc, referenced, opening.portal, Keyed)
  <2>3. IsSequence(plan) /\ \A x \in ToSet(plan) : x.src.shape \in SourceShapes
    BY <2>2, PlanShapes
  <2>4. opening' = [opening EXCEPT !.state = "planned", !.plan = plan]
    BY <2>1
  <2> HIDE DEF plan
  <2>5. /\ opening'.state = "planned" /\ opening'.plan = plan
        /\ opening' = [state |-> opening'.state, portal |-> opening'.portal,
                       item |-> opening'.item, plan |-> opening'.plan]
    BY <2>4 DEF MapsInv, OpeningInv
  <2> QED
    BY <2>3, <2>5 DEF OpeningInv
<1>7. ASSUME BuildMap PROVE OpeningInv'
  BY <1>3, <1>4, <1>7 DEF BuildMap, OpeningInv
<1>8. CASE Worker \/ Callback \/ UNCHANGED vars
  BY <1>2, <1>8 DEF Worker, Callback, CallbackWhenClosed, IndexLanded, CreateLanded, PublishLanded,
                    vars, canvasVars
<1>9. CASE User
  BY <1>2, <1>5, <1>9
     DEF User, AddFromBrowser, AddFeatureTwin, AddOutside, PublishLocal, OpenDialog, ChoosePortal, Tick,
         AddBasemap, BulkAddMissing, PressPublish, Close, DeleteItem, RemoveConnection, canvasVars
<1> QED
  BY <1>6, <1>7, <1>8, <1>9 DEF Next, OpenMapStep

-----------------------------------------------------------------------------
(* The list of the dialog                                                  *)

\* The list is left as it is, or drawn anew of the canvas.
LEMMA LeftOrDrawn ==
    [Next]_vars =>
        \/ /\ drawn' = drawn
           /\ dlg' = "open" => dlg = "open" /\ index' = index /\ translation' = translation
        \/ canvas' = canvas /\ Render(index')
<1> SUFFICES ASSUME [Next]_vars, ~(canvas' = canvas /\ Render(index'))
             PROVE  /\ drawn' = drawn
                    /\ dlg' = "open" => dlg = "open" /\ index' = index /\ translation' = translation
  OBVIOUS
<1>1. CASE OpenMapStep \/ Worker \/ CallbackWhenClosed \/ UNCHANGED vars
  BY <1>1 DEF OpenMapStep, FetchMap, BuildMap, Worker, CallbackWhenClosed, vars, canvasVars, dialogVars
<1>2. ASSUME NEW p, RefreshIndex(p), canvas' = canvas, dlg' = dlg
      PROVE  drawn' = drawn /\ index' = index /\ translation' = translation
  BY <1>2 DEF RefreshIndex
<1>3. CASE IndexLanded \/ CreateLanded \/ PublishLanded
  <2>1. ~IndexLanded
    BY DEF IndexLanded, canvasVars
  <2>2. CASE CreateLanded
    BY <1>2, <2>2 DEF CreateLanded, ReIndex, canvasVars
  <2>3. CASE PublishLanded
    BY <2>3 DEF PublishLanded, canvasVars
  <2> QED
    BY <1>3, <2>1, <2>2, <2>3
<1>4. CASE User
  <2>1. \A p : ~OpenDialog(p)
    BY DEF OpenDialog, canvasVars
  <2>2. ASSUME NEW p, ChoosePortal(p)
        PROVE  /\ drawn' = drawn
               /\ dlg' = "open" => dlg = "open" /\ index' = index /\ translation' = translation
    BY <1>2, <2>2 DEF ChoosePortal, canvasVars
  <2> QED
    BY <1>4, <2>1, <2>2
       DEF User, AddFromBrowser, LaunchOpenMap, AddFeatureTwin, AddOutside, Tick, AddBasemap,
           BulkAddMissing, PublishLocal, PressPublish, Close, DeleteItem, RemoveConnection, dialogVars
<1> QED
  BY <1>1, <1>3, <1>4 DEF Next, Callback

\* Two layers of the canvas with one id are one.
LEMMA OneLayer ==
    CanvasInv => \A l, d \in ToSet(canvas) : l.id = d.id => l = d
BY DEF CanvasInv, ToSet

LEMMA CanvasIds == CanvasInv => \A l \in ToSet(canvas) : l.id \in 1 .. Len(canvas)
BY DEF CanvasInv, ToSet

LEMMA DrawnStep == MapsInv /\ [Next]_vars => DrawnInv'
<1> SUFFICES ASSUME MapsInv, [Next]_vars PROVE DrawnInv'
  OBVIOUS
<1>1. CanvasInv /\ CanvasInv' /\ CanvasGrows /\ DrawnInv
  BY CanvasStep DEF MapsInv
<1>2. CASE canvas' = canvas /\ Render(index')
  <2>1. drawn' = canvas' /\ IsSequence(canvas)
    BY <1>1, <1>2 DEF Render, CanvasInv
  <2>2. translation'.doc = Translate(drawn', index', View) /\ translation'.skipped = Skipped(drawn', index')
    BY <1>2, <2>1 DEF Render
  <2>3. \A d \in ToSet(canvas') :
           /\ d.id \in 1 .. Len(canvas')
           /\ \A l \in ToSet(canvas') : l.id = d.id => l = d
    BY <1>1, <1>2, OneLayer, CanvasIds
  <2> QED
    BY <1>2, <2>1, <2>2, <2>3 DEF DrawnInv, View
<1>3. CASE /\ drawn' = drawn
           /\ dlg' = "open" => dlg = "open" /\ index' = index /\ translation' = translation
  <2>1. Len(canvas) \in Nat /\ Len(canvas') \in Nat /\ Len(canvas') >= Len(canvas)
    BY <1>1 DEF CanvasInv, IsSequence, CanvasGrows
  <2>2. ASSUME NEW d \in ToSet(drawn)
        PROVE  /\ d.id \in 1 .. Len(canvas')
               /\ \A l \in ToSet(canvas') :
                     l.id = d.id => l.src = d.src /\ (NoBasemap(d) => NoBasemap(l))
    <3>1. d.id \in 1 .. Len(canvas)
      BY <1>1 DEF DrawnInv
    <3>2. ASSUME NEW l \in ToSet(canvas'), l.id = d.id
          PROVE  l.src = d.src /\ (NoBasemap(d) => NoBasemap(l))
      <4>1. PICK k \in ToSet(canvas) : k.id = l.id /\ k.src = l.src /\ (NoBasemap(k) => NoBasemap(l))
        BY <1>1, <2>1, <3>1, <3>2 DEF CanvasGrows
      <4>2. k.src = d.src /\ (NoBasemap(d) => NoBasemap(k))
        BY <1>1, <3>2, <4>1 DEF DrawnInv
      <4> QED
        BY <4>1, <4>2
    <3> QED
      BY <2>1, <3>1, <3>2
  <2>3. IsSequence(drawn)
    BY <1>1 DEF DrawnInv
  <2>4. dlg' = "open" => /\ translation'.doc = Translate(drawn', index', View)
                         /\ translation'.skipped = Skipped(drawn', index')
    BY <1>1, <1>3 DEF DrawnInv
  <2> QED
    BY <1>3, <2>2, <2>3, <2>4 DEF DrawnInv, View
<1> QED
  BY <1>2, <1>3, LeftOrDrawn

\* Only the user ticks.
LEMMA TicksLeft ==
    [Next]_vars => (excluded' = excluded /\ unticked' = unticked) \/ \E k \in DOMAIN canvas : Tick(k)
<1> SUFFICES ASSUME [Next]_vars, ~ \E k \in DOMAIN canvas : Tick(k)
             PROVE  excluded' = excluded /\ unticked' = unticked
  OBVIOUS
<1>1. CASE OpenMapStep \/ Worker \/ CallbackWhenClosed \/ UNCHANGED vars
  BY <1>1 DEF OpenMapStep, FetchMap, BuildMap, Worker, CallbackWhenClosed, vars, canvasVars, dialogVars
<1>2. ASSUME NEW p, RefreshIndex(p) PROVE excluded' = excluded
  BY <1>2 DEF RefreshIndex, Render
<1>3. CASE IndexLanded \/ CreateLanded \/ PublishLanded
  BY <1>2, <1>3 DEF IndexLanded, CreateLanded, PublishLanded, ReIndex, Render
<1>4. CASE User
  <2>1. \A p : ChoosePortal(p) => excluded' = excluded /\ unticked' = unticked
    BY <1>2 DEF ChoosePortal
  <2> QED
    BY <1>4, <2>1
       DEF User, AddFromBrowser, LaunchOpenMap, AddFeatureTwin, AddOutside, OpenDialog, Render, AddBasemap,
           BulkAddMissing, PublishLocal, PressPublish, Close, DeleteItem, RemoveConnection, dialogVars
<1> QED
  BY <1>1, <1>3, <1>4 DEF Next, Callback

LEMMA TickStep == MapsInv /\ [Next]_vars => TickInv'
<1> SUFFICES ASSUME MapsInv, [Next]_vars PROVE TickInv'
  OBVIOUS
<1>1. CanvasInv /\ CanvasInv' /\ CanvasGrows /\ DrawnInv /\ TickInv
  BY CanvasStep DEF MapsInv
<1>2. Len(canvas) \in Nat /\ Len(canvas') \in Nat /\ Len(canvas') >= Len(canvas)
      /\ DOMAIN canvas = 1 .. Len(canvas)
  BY <1>1 DEF CanvasInv, IsSequence, CanvasGrows
<1>3. CASE excluded' = excluded /\ unticked' = unticked
  <2>1. ASSUME NEW l \in ToSet(canvas'), l.id \in excluded PROVE NoBasemap(l)
    <3>1. l.id \in 1 .. Len(canvas)
      BY <1>1, <2>1 DEF TickInv
    <3>2. PICK k \in ToSet(canvas) : k.id = l.id /\ k.src = l.src /\ (NoBasemap(k) => NoBasemap(l))
      BY <1>1, <1>2, <3>1 DEF CanvasGrows
    <3> QED
      BY <1>1, <2>1, <3>2 DEF TickInv
  <2> QED
    BY <1>1, <1>2, <1>3, <2>1 DEF TickInv
<1>4. ASSUME NEW id \in DOMAIN canvas, Tick(id) PROVE TickInv'
  <2>1. /\ dlg = "open" /\ canvas' = canvas
        /\ excluded' = IF id \in excluded THEN excluded \ {id} ELSE excluded \cup {id}
        /\ unticked' = IF id \in excluded THEN unticked \ {id} ELSE unticked \cup {id}
    BY <1>4 DEF Tick, canvasVars
  <2>2. \A l \in ToSet(canvas) : l.id = id => NoBasemap(l)
    <3>1. PICK e \in ToSet(translation.doc.entries) : e.id = id
      BY <1>4 DEF Tick
    <3>2. translation.doc = Translate(drawn, index, View) /\ IsSequence(drawn)
      BY <1>1, <2>1 DEF DrawnInv
    <3>3. OfLayers(Translate(drawn, index, View).entries, drawn, index)
      BY <3>2, Translated
    <3>4. PICK d \in ToSet(drawn) : Resolves(d, index) /\ e = EntryFor(d, index)
      BY <3>1, <3>2, <3>3 DEF OfLayers
    <3>5. d.id = id /\ NoBasemap(d)
      BY <3>1, <3>4, Entries DEF NoBasemap
    <3> QED
      BY <1>1, <3>5 DEF DrawnInv
  <2>3. excluded = unticked /\ excluded \subseteq 1 .. Len(canvas)
        /\ \A l \in ToSet(canvas) : l.id \in excluded => NoBasemap(l)
    BY <1>1 DEF TickInv
  <2> QED
    BY <1>2, <2>1, <2>2, <2>3 DEF TickInv
<1> QED
  BY <1>3, <1>4, TicksLeft

-----------------------------------------------------------------------------
(* The dialog's task and its index                                         *)

\* An index stays one of its portal.
LEMMA IndexKept == StoreKept => \A ix : IndexOf(ix, store) => IndexOf(ix, store')
<1> SUFFICES ASSUME StoreKept, NEW ix, IndexOf(ix, store) PROVE IndexOf(ix, store')
  OBVIOUS
<1>1. CASE ix.of = None
  BY <1>1 DEF IndexOf
<1>2. CASE ix.of # None
  <2>1. \A i \in Items : store[i].portal = ix.of => store'[i].portal = ix.of
    BY <1>2 DEF StoreKept
  <2> QED
    BY <1>2, <2>1 DEF IndexOf
<1> QED
  BY <1>1, <1>2

LEMMA NoIndexOK == \A items : IndexOf(NoIndex, items) /\ NoIndex.of = None
BY DEF IndexOf, NoIndex

\* _fetch_portal_index names items of the portal it asked.
LEMMA Fetched ==
    ASSUME NEW p \in Portals, NEW tiles, NEW readable, NEW ix,
           ix = PortalIndexOf(store, p, tiles, readable)
    PROVE  IndexOf(ix, store) /\ ix.of = p
<1> DEFINE of(kinds) == {i \in Items : Has(store, p, i) /\ store[i].kind \in kinds /\ store[i].url # None}
<1>1. \A kinds : \A i \in of(kinds) : i \in Items /\ store[i].portal = p
  BY DEF Has
<1>2. /\ ix.of = p
      /\ ix.basemaps = {[url |-> store[i].url, item |-> i] : i \in of({"basemap"})}
      /\ ix.services = {[url |-> store[i].url, kind |-> store[i].kind, item |-> i] :
                           i \in of({"FeatureServer", "MapServer"})}
      /\ ix.tiles = tiles \cap readable \cap of({"tile_layer"})
  BY DEF PortalIndexOf
<1> HIDE DEF of
<1>3. \A x \in ix.basemaps : x.item \in Items /\ store[x.item].portal = p
  BY <1>1, <1>2
<1>4. \A x \in ix.services : x.item \in Items /\ store[x.item].portal = p
  BY <1>1, <1>2
<1>5. \A i \in ix.tiles : i \in Items /\ store[i].portal = p
  BY <1>1, <1>2
<1> QED
  BY <1>2, <1>3, <1>4, <1>5, NoneAssumption DEF IndexOf

\* What a task may be begun with.
Begins(kind, arg) ==
    /\ kind \in {"index", "create", "bulk", "publish"}
    /\ kind \in {"create", "bulk"} => IsSequence(arg) /\ Room(Len(arg))
    /\ kind = "publish" => IsSequence(arg.entries)

LEMMA TaskStep == MapsInv /\ [Next]_vars => TaskInv'
<1> SUFFICES ASSUME MapsInv, [Next]_vars PROVE TaskInv'
  OBVIOUS
<1>1. TaskInv /\ IndexInv /\ CanvasInv /\ DrawnInv /\ StoreKept
      /\ (task.kind \in {"create", "bulk"} /\ task.state = "sent" /\ task' = task
             => FreshItems' = FreshItems)
  BY StoreStep DEF MapsInv
<1>2. ASSUME task' = task, chosen' = chosen, busy' = busy, dlg' \in {dlg, "closed"} PROVE TaskInv'
  <2>1. task.kind \in {"create", "bulk"} /\ task.state = "sent" => Room(Len(task.arg))'
    BY <1>1, <1>2 DEF TaskInv, Room
  <2>2. task.kind = "index" /\ task.state = "done" =>
           IndexOf(task.out, store') /\ task.out.of = task.portal
    BY <1>1, IndexKept DEF TaskInv
  <2>3. dlg' # "none" \/ dlg = "none"
    BY <1>2
  <2>4. dlg' = "open" => dlg = "open"
    BY <1>2
  <2> QED
    BY <1>1, <1>2, <2>1, <2>2, <2>3, <2>4 DEF TaskInv
<1>3. ASSUME task' = NoTask, busy' = FALSE \/ dlg' \notin {"none", "open"} PROVE TaskInv'
  <2>1. /\ NoTask.kind = "none" /\ NoTask.state = "none"
        /\ NoTask = [kind |-> NoTask.kind, state |-> NoTask.state, portal |-> NoTask.portal,
                     arg |-> NoTask.arg, out |-> NoTask.out]
    BY DEF NoTask
  <2> QED
    BY <1>3, <2>1 DEF TaskInv
<1>4. ASSUME NEW kind, NEW arg, NEW p \in Portals, Start(kind, p, arg), Begins(kind, arg),
             chosen' = p, dlg' = "open", store' = store \/ kind = "index"
      PROVE  TaskInv'
  <2>1. PICK t : t = [NoTask EXCEPT !.kind = kind, !.state = "sent", !.portal = p, !.arg = arg]
    OBVIOUS
  <2>2. /\ t.kind = kind /\ t.state = "sent" /\ t.portal = p /\ t.arg = arg
        /\ t = [kind |-> t.kind, state |-> t.state, portal |-> t.portal, arg |-> t.arg, out |-> t.out]
    BY <2>1 DEF NoTask
  <2>3. task' = t /\ busy' = TRUE
    BY <1>4, <2>1 DEF Start
  <2>4. kind \in {"create", "bulk"} => IsSequence(arg) /\ Room(Len(arg))'
    BY <1>4 DEF Begins, Room, FreshItems
  <2>5. kind # "none" /\ kind \in {"index", "create", "bulk", "publish"}
        /\ (kind = "publish" => IsSequence(arg.entries))
    BY <1>4 DEF Begins
  <2>6. kind \in {"create", "bulk"} => Room(Len(task.arg))'
    BY <2>2, <2>3, <2>4 DEF Room
  <2> QED
    BY <1>4, <2>2, <2>3, <2>4, <2>5, <2>6 DEF TaskInv
<1>5. ASSUME NEW state \in {"done", "failed"}, NEW out, Finish(state, out), task.kind # "none",
             busy' = busy, dlg' = dlg, chosen' = chosen,
             task.kind = "index" /\ state = "done" => IndexOf(out, store') /\ out.of = task.portal
      PROVE  TaskInv'
  <2>1. PICK t : t = [task EXCEPT !.state = state, !.out = out]
    OBVIOUS
  <2>2. task = [kind |-> task.kind, state |-> task.state, portal |-> task.portal,
                arg |-> task.arg, out |-> task.out]
    BY <1>1 DEF TaskInv
  <2>3. /\ t.kind = task.kind /\ t.state = state /\ t.portal = task.portal /\ t.arg = task.arg
        /\ t.out = out
        /\ t = [kind |-> t.kind, state |-> t.state, portal |-> t.portal, arg |-> t.arg, out |-> t.out]
    BY <2>1, <2>2
  <2>4. task' = t
    BY <1>5, <2>1 DEF Finish
  <2> QED
    BY <1>1, <1>5, <2>3, <2>4 DEF TaskInv
<1>6. ASSUME NEW p, RefreshIndex(p), chosen' = p, dlg' = "open" PROVE TaskInv'
  <2>1. CASE Profile(p) = None
    BY <1>3, <1>6, <2>1 DEF RefreshIndex
  <2>2. CASE Profile(p) # None
    <3>1. p \in Portals /\ Start("index", p, None)
      BY <1>1, <1>6, <2>2 DEF RefreshIndex, Profile, IndexInv
    <3>2. Begins("index", None)
      BY DEF Begins
    <3> QED
      BY <1>4, <1>6, <3>1, <3>2
  <2> QED
    BY <2>1, <2>2
<1>7. Profile(chosen) # None => chosen \in Portals
  BY <1>1 DEF Profile, IndexInv
<1>8. CASE Worker
  <2>1. task.kind # "none" /\ task.portal \in Portals /\ busy' = busy /\ dlg' = dlg /\ chosen' = chosen
    BY <1>1, <1>8 DEF Worker, RunFetchIndex, RunCreate, RunPublish, TaskInv
  <2>2. CASE RunFetchIndex
    <3> DEFINE tiles == TileLayersOn(canvas)
               ix(readable) == PortalIndexOf(store, task.portal, tiles, readable)
    <3>1. Finish("done", ix(tiles)) \/ Finish("done", ix({})) \/ Finish("failed", None)
      BY <2>2 DEF RunFetchIndex
    <3>2. store' = store
      BY <2>2 DEF RunFetchIndex
    <3>3. \A readable : IndexOf(ix(readable), store) /\ ix(readable).of = task.portal
      <4> HIDE DEF tiles
      <4> QED
        BY <2>1, Fetched
    <3> HIDE DEF ix, tiles
    <3> QED
      BY <1>5, <2>1, <3>1, <3>2, <3>3
  <2>3. CASE RunCreate \/ RunPublish
    <3>1. task.kind # "index"
      BY <2>3 DEF RunCreate, RunPublish
    <3>2. (\E out : Finish("done", out)) \/ Finish("failed", None)
      BY <2>3 DEF RunCreate, RunPublish
    <3> QED
      BY <1>5, <2>1, <3>1, <3>2
  <2> QED
    BY <1>8, <2>2, <2>3 DEF Worker
<1>9. CASE Callback
  <2>1. CASE CallbackWhenClosed
    <3>1. task.kind # "none" /\ dlg # "open" /\ dlg' = dlg /\ task' = NoTask
      BY <1>1, <2>1 DEF CallbackWhenClosed, Landed, TaskInv
    <3>2. dlg # "none"
      BY <1>1, <3>1 DEF TaskInv
    <3> QED
      BY <1>3, <3>1, <3>2
  <2>2. CASE IndexLanded \/ PublishLanded
    BY <1>3, <2>2 DEF IndexLanded, PublishLanded, NoLongerBusy
  <2>3. CASE CreateLanded
    <3>1. dlg' = "open" /\ chosen' = chosen
      BY <2>3 DEF CreateLanded
    <3>2. RefreshIndex(chosen) \/ (task' = NoTask /\ busy' = FALSE)
      BY <2>3 DEF CreateLanded, ReIndex
    <3> QED
      BY <1>3, <1>6, <3>1, <3>2
  <2> QED
    BY <1>9, <2>1, <2>2, <2>3 DEF Callback
<1>10. CASE OpenMapStep \/ UNCHANGED vars
  BY <1>2, <1>10 DEF OpenMapStep, FetchMap, BuildMap, vars, dialogVars
<1>11. ASSUME NEW p, OpenDialog(p) PROVE TaskInv'
  <2>1. chosen' = p /\ dlg' = "open" /\ dlg = "none" /\ store' = store
    BY <1>11 DEF OpenDialog
  <2>2. CASE p = None
    <3>1. task' = task /\ busy' = busy
      BY <1>11, <2>2 DEF OpenDialog
    <3>2. task.kind = "none" /\ busy = FALSE
      BY <1>1, <2>1 DEF TaskInv
    <3> QED
      BY <1>1, <2>1, <3>1, <3>2 DEF TaskInv
  <2>3. CASE p # None
    <3>1. Start("index", p, None) /\ p \in connections
      BY <1>11, <2>3 DEF OpenDialog
    <3>2. p \in Portals
      BY <1>1, <3>1 DEF IndexInv
    <3>3. Begins("index", None)
      BY DEF Begins
    <3> QED
      BY <1>4, <2>1, <3>1, <3>2, <3>3
  <2> QED
    BY <2>2, <2>3
<1>12. ASSUME NEW p, ChoosePortal(p) PROVE TaskInv'
  BY <1>6, <1>12 DEF ChoosePortal
<1>13. ASSUME NEW l, AddBasemap(l) PROVE TaskInv'
  <2>1. Begins("create", <<l.src.url>>)
    BY <1>13, One DEF AddBasemap, Begins
  <2> QED
    BY <1>4, <1>7, <1>13, <2>1 DEF AddBasemap
<1>14. ASSUME BulkAddMissing PROVE TaskInv'
  <2> DEFINE candidates == Only(translation.skipped, {l \in ToSet(translation.skipped) : Hint(l) = "basemap"})
             urls == [k \in DOMAIN candidates |-> candidates[k].src.url]
  <2>1. Room(Len(candidates)) /\ Start("bulk", chosen, urls)
    BY <1>14 DEF BulkAddMissing
  <2>2. dlg' = "open" /\ dlg = "open" /\ chosen' = chosen /\ chosen \in Portals /\ store' = store
    BY <1>7, <1>14 DEF BulkAddMissing
  <2>3. IsSequence(candidates)
    <3>1. translation.skipped = Skipped(drawn, index) /\ IsSequence(drawn)
      BY <1>1, <2>2 DEF DrawnInv
    <3>2. IsSequence(translation.skipped)
      BY <3>1, SkippedOf
    <3> DEFINE keep == {l \in ToSet(translation.skipped) : Hint(l) = "basemap"}
    <3> HIDE DEF keep
    <3>3. IsSequence(Only(translation.skipped, keep))
      BY <3>2, OnlySequence
    <3> QED
      BY <3>3 DEF keep
  <2> HIDE DEF candidates
  <2>4. Len(candidates) \in Nat /\ DOMAIN candidates = 1 .. Len(candidates)
    BY <2>3 DEF IsSequence
  <2>5. urls = [k \in 1 .. Len(candidates) |-> urls[k]]
    BY <2>4
  <2> HIDE DEF urls
  <2>6. IsSequence(urls) /\ Len(urls) = Len(candidates)
    BY <2>4, <2>5, Sequenced
  <2>7. Begins("bulk", urls)
    BY <2>1, <2>6 DEF Begins
  <2> QED
    BY <1>4, <2>1, <2>2, <2>7
<1>15. ASSUME NEW l, NEW p, NEW i, PublishLocal(l, p, i) PROVE TaskInv'
  <2>1. Begins("index", None)
    BY DEF Begins
  <2> QED
    BY <1>4, <1>7, <1>15, <2>1 DEF PublishLocal
<1>16. ASSUME PressPublish PROVE TaskInv'
  <2> DEFINE kept == Only(canvas, {l \in ToSet(canvas) : l.id \notin excluded})
  <2>1. IsSequence(kept)
    <3> DEFINE keep == {l \in ToSet(canvas) : l.id \notin excluded}
    <3> HIDE DEF keep
    <3>1. IsSequence(Only(canvas, keep))
      BY <1>1, OnlySequence DEF CanvasInv
    <3> QED
      BY <3>1 DEF keep
  <2> HIDE DEF kept
  <2>2. IsSequence(Translate(kept, index, View).entries)
    BY <2>1, Translated
  <2>3. Begins("publish", PublishTranslation)
    BY <2>2 DEF Begins, PublishTranslation, kept
  <2> QED
    BY <1>4, <1>7, <1>16, <2>3 DEF PressPublish
<1>17. CASE User
  <2>1. CASE \/ \E p \in Portals, i \in Items : AddFromBrowser(p, i) \/ LaunchOpenMap(p, i)
             \/ \E l \in ToSet(canvas) : AddFeatureTwin(l)
             \/ \E l \in Palette : AddOutside(l)
             \/ \E k \in DOMAIN canvas : Tick(k)
             \/ Close
             \/ \E i \in Items : DeleteItem(i)
             \/ \E p \in Portals : RemoveConnection(p)
    BY <1>2, <2>1 DEF AddFromBrowser, LaunchOpenMap, AddFeatureTwin, AddOutside, Tick, Close, DeleteItem,
                      RemoveConnection, dialogVars
  <2> QED
    BY <1>11, <1>12, <1>13, <1>14, <1>15, <1>16, <1>17, <2>1 DEF User
<1> QED
  BY <1>8, <1>9, <1>10, <1>17 DEF Next

LEMMA IndexStep == MapsInv /\ [Next]_vars => IndexInv'
<1> SUFFICES ASSUME MapsInv, [Next]_vars PROVE IndexInv'
  OBVIOUS
<1>1. TaskInv /\ TaskInv' /\ IndexInv /\ StoreKept
  BY StoreStep, TaskStep DEF MapsInv
<1>2. connections' \subseteq Portals
  <2>1. connections' = connections \/ \E p \in Portals : RemoveConnection(p)
    BY DEF Next, User, OpenMapStep, Worker, Callback, AddFromBrowser, LaunchOpenMap, AddFeatureTwin,
           AddOutside, OpenDialog, ChoosePortal, Tick, AddBasemap, BulkAddMissing, PublishLocal,
           PressPublish, Close, DeleteItem, FetchMap, BuildMap, CallbackWhenClosed, IndexLanded,
           CreateLanded, PublishLanded, vars
  <2> QED
    BY <1>1, <2>1 DEF RemoveConnection, IndexInv
<1>3. \A ix : IndexOf(ix, store) => IndexOf(ix, store')
  BY <1>1, IndexKept
<1>4. ASSUME index' = index, chosen' = chosen,
             \/ dlg' # "open" \/ task'.kind = "index"
             \/ dlg = "open" /\ task.kind # "index"
      PROVE  IndexInv'
  BY <1>1, <1>2, <1>3, <1>4 DEF IndexInv
<1>5. ASSUME index' = NoIndex, chosen' \in Portals \cup {None} PROVE IndexInv'
  BY <1>2, <1>5, NoIndexOK DEF IndexInv
<1>6. ASSUME NEW p, NEW kind, NEW arg, Start(kind, p, arg) PROVE task'.kind = kind
  BY <1>6 DEF Start, NoTask
<1>7. ASSUME NEW p \in Portals \cup {None}, RefreshIndex(p), chosen' = p PROVE IndexInv'
  <2>1. CASE Profile(p) = None
    BY <1>5, <1>7, <2>1 DEF RefreshIndex
  <2>2. CASE Profile(p) # None
    <3>1. index' = index /\ task'.kind = "index"
      BY <1>6, <1>7, <2>2 DEF RefreshIndex
    <3> QED
      BY <1>1, <1>2, <1>3, <1>7, <3>1 DEF IndexInv
  <2> QED
    BY <2>1, <2>2
<1>8. ASSUME index' = index, chosen' = chosen, task' = task \/ task'.kind = task.kind, dlg' = dlg
      PROVE  IndexInv'
  BY <1>1, <1>2, <1>3, <1>8 DEF IndexInv
<1>9. CASE Worker
  <2>1. index' = index /\ chosen' = chosen /\ dlg' = dlg
    BY <1>9 DEF Worker
  <2>2. \E state, out : Finish(state, out)
    BY <1>9 DEF Worker, RunFetchIndex, RunCreate, RunPublish
  <2>3. task'.kind = task.kind
    <3>1. task = [kind |-> task.kind, state |-> task.state, portal |-> task.portal,
                  arg |-> task.arg, out |-> task.out]
      BY <1>1 DEF TaskInv
    <3> QED
      BY <2>2, <3>1 DEF Finish
  <2> QED
    BY <1>8, <2>1, <2>3
<1>10. CASE Callback
  <2>1. CASE CallbackWhenClosed
    BY <1>4, <2>1 DEF CallbackWhenClosed
  <2>2. CASE IndexLanded
    <3>1. chosen' = chosen /\ dlg = "open" /\ task.kind = "index" /\ index' = NewIndex
      BY <2>2 DEF IndexLanded
    <3>2. CASE task.state = "done"
      <4>1. IndexOf(task.out, store) /\ task.out.of = chosen /\ index' = task.out
        BY <1>1, <3>1, <3>2 DEF TaskInv, NewIndex
      <4> QED
        BY <1>1, <1>2, <1>3, <3>1, <4>1 DEF IndexInv
    <3>3. CASE task.state # "done"
      BY <1>1, <1>5, <3>1, <3>3 DEF NewIndex, IndexInv
    <3> QED
      BY <3>2, <3>3
  <2>3. CASE CreateLanded
    <3>1. chosen' = chosen /\ dlg = "open" /\ task.kind # "index" /\ chosen \in Portals \cup {None}
      BY <1>1, <2>3 DEF CreateLanded, IndexInv
    <3>2. RefreshIndex(chosen) \/ index' = index
      BY <2>3 DEF CreateLanded, ReIndex
    <3> QED
      BY <1>4, <1>7, <3>1, <3>2
  <2>4. CASE PublishLanded
    BY <1>4, <2>4 DEF PublishLanded
  <2> QED
    BY <1>10, <2>1, <2>2, <2>3, <2>4 DEF Callback
<1>11. CASE OpenMapStep \/ UNCHANGED vars
  BY <1>8, <1>11 DEF OpenMapStep, FetchMap, BuildMap, vars, dialogVars
<1>12. CASE User
  <2>1. CASE \/ \E p \in Portals, i \in Items : AddFromBrowser(p, i) \/ LaunchOpenMap(p, i)
             \/ \E l \in ToSet(canvas) : AddFeatureTwin(l)
             \/ \E l \in Palette : AddOutside(l)
             \/ \E k \in DOMAIN canvas : Tick(k)
             \/ \E i \in Items : DeleteItem(i)
             \/ \E p \in Portals : RemoveConnection(p)
    BY <1>8, <2>1 DEF AddFromBrowser, LaunchOpenMap, AddFeatureTwin, AddOutside, Tick, DeleteItem,
                      RemoveConnection, dialogVars
  <2>2. CASE Close
    BY <1>4, <2>2 DEF Close
  <2>3. ASSUME NEW p \in Portals \cup {None}, OpenDialog(p) PROVE IndexInv'
    BY <1>5, <2>3 DEF OpenDialog
  <2>4. ASSUME NEW p \in Portals, ChoosePortal(p) PROVE IndexInv'
    BY <1>7, <2>4 DEF ChoosePortal
  <2>5. ASSUME NEW l, AddBasemap(l) PROVE IndexInv'
    <3>1. task.kind = "none" /\ dlg = "open"
      BY <1>1, <2>5 DEF AddBasemap, TaskInv
    <3> QED
      BY <1>4, <2>5, <3>1 DEF AddBasemap
  <2>6. CASE BulkAddMissing
    <3>1. task.kind = "none" /\ dlg = "open"
      BY <1>1, <2>6 DEF BulkAddMissing, TaskInv
    <3> QED
      BY <1>4, <2>6, <3>1 DEF BulkAddMissing
  <2>7. CASE PressPublish
    <3>1. task.kind = "none" /\ dlg = "open"
      BY <1>1, <2>7 DEF PressPublish, TaskInv
    <3> QED
      BY <1>4, <2>7, <3>1 DEF PressPublish
  <2>8. ASSUME NEW l, NEW p, NEW i, PublishLocal(l, p, i) PROVE IndexInv'
    <3>1. task'.kind = "index" /\ index' = index /\ chosen' = chosen
      BY <1>6, <2>8 DEF PublishLocal
    <3> QED
      BY <1>4, <3>1
  <2> QED
    BY <1>12, <2>1, <2>2, <2>3, <2>4, <2>5, <2>6, <2>7, <2>8 DEF User
<1> QED
  BY <1>9, <1>10, <1>11, <1>12 DEF Next

LEMMA DialogStep == MapsInv /\ [Next]_vars => DialogOK'
<1> SUFFICES ASSUME MapsInv, [Next]_vars PROVE DialogOK'
  OBVIOUS
<1>1. DialogOK
  BY DEF MapsInv
<1>2. env' = env /\ dlg' \in {dlg, "open", "closed", "published"}
  BY DEF Next, User, OpenMapStep, Worker, Callback, AddFromBrowser, LaunchOpenMap, AddFeatureTwin,
         AddOutside, OpenDialog, ChoosePortal, Tick, AddBasemap, BulkAddMissing, PublishLocal,
         PressPublish, Close, DeleteItem, RemoveConnection, FetchMap, BuildMap, CallbackWhenClosed,
         IndexLanded, CreateLanded, PublishLanded, vars, dialogVars
<1>3. busy' \in {busy, TRUE, FALSE}
  BY DEF Next, User, OpenMapStep, Worker, Callback, AddFromBrowser, LaunchOpenMap, AddFeatureTwin,
         AddOutside, OpenDialog, ChoosePortal, Tick, AddBasemap, BulkAddMissing, PublishLocal,
         PressPublish, Close, DeleteItem, RemoveConnection, FetchMap, BuildMap, CallbackWhenClosed,
         IndexLanded, CreateLanded, PublishLanded, vars, dialogVars, RefreshIndex, ReIndex, Start,
         NoLongerBusy
<1> QED
  BY <1>1, <1>2, <1>3 DEF DialogOK

-----------------------------------------------------------------------------
(* The theorems                                                            *)

LEMMA MapsInit == Init => MapsInv
<1> SUFFICES ASSUME Init PROVE MapsInv
  OBVIOUS
<1>1. IsSequence(<<>>) /\ ToSet(<<>>) = {} /\ Len(<<>>) = 0
  BY DEF IsSequence, ToSet
<1>2. DialogOK /\ CanvasInv
  <2>1. DialogOK
    BY DEF Init, DialogOK
  <2>2. canvas = <<>> /\ DOMAIN canvas = {}
    BY DEF Init
  <2> QED
    BY <1>1, <2>1, <2>2 DEF CanvasInv
<1>3. StoreInv
  <2>1. store \in Seeds
    BY DEF Init
  <2> QED
    BY <2>1, SeedsAssumption DEF StoreInv
<1>4. OpeningInv
  BY <1>1 DEF Init, OpeningInv, NoOpening
<1>5. DrawnInv /\ TickInv
  BY <1>1 DEF Init, DrawnInv, TickInv
<1>6. TaskInv
  BY DEF Init, TaskInv, NoTask
<1>7. IndexInv
  BY NoIndexOK DEF Init, IndexInv
<1> QED
  BY <1>2, <1>4, <1>5, <1>6, <1>7, <1>3 DEF MapsInv

\* The inductive invariant: the portals, the canvas, the opened map, the list and
\* its ticks, the task and the index, which need one another.
THEOREM MapsInvariant == Spec => []MapsInv
<1>1. MapsInv /\ [Next]_vars => MapsInv'
  BY DialogStep, StoreStep, CanvasStep, OpeningStep, DrawnStep, TickStep, TaskStep, IndexStep DEF MapsInv
<1> QED
  BY <1>1, MapsInit, PTL DEF Spec

\* The type invariant of the canvas, the opened map and the dialog.
THEOREM MapsTypes == Spec => []MapsTypeOK
<1>1. MapsInv => MapsTypeOK
  <2> SUFFICES ASSUME MapsInv PROVE MapsTypeOK
    OBVIOUS
  <2>1. \A i \in Items : store[i].kind \in Consumable \cup {"none", "other"}
    BY DEF MapsInv, StoreInv, ItemOK
  <2>2. \A l \in ToSet(canvas) : l.id \in 1 .. Len(canvas) /\ l.src.shape \in SourceShapes
    BY DEF MapsInv, CanvasInv, ToSet
  <2> QED
    BY <2>1, <2>2 DEF MapsTypeOK, MapsInv, DialogOK, CanvasInv, OpeningInv, TickInv, TaskInv, IndexInv, IndexOf
<1> QED
  BY <1>1, MapsInvariant, PTL

LEMMA SentLeft == [Next]_vars => sent' = sent \/ PressPublish
BY DEF Next, User, OpenMapStep, Worker, Callback, AddFromBrowser, LaunchOpenMap, AddFeatureTwin,
       AddOutside, OpenDialog, ChoosePortal, Tick, AddBasemap, BulkAddMissing, PublishLocal,
       Close, DeleteItem, RemoveConnection, FetchMap, BuildMap, CallbackWhenClosed,
       IndexLanded, CreateLanded, PublishLanded, vars, dialogVars

\* What a publish takes: the layers of the canvas that are not unticked.
LEMMA Taken ==
    ASSUME MapsInv, PressPublish
    PROVE  \E keep, kept :
              /\ keep = {l \in ToSet(canvas) : l.id \notin excluded}
              /\ kept = Only(canvas, keep) /\ IsSequence(kept)
              /\ ToSet(kept) = ToSet(canvas) \cap keep
              /\ PublishTranslation = Translate(kept, index, View)
              /\ sent' = [doc |-> Translate(kept, index, View), on |-> chosen, drawn |-> drawn = canvas,
                          shown |-> translation.doc, unticked |-> unticked, index |-> index,
                          layers |-> ToSet(canvas)]
<1> DEFINE keep == {l \in ToSet(canvas) : l.id \notin excluded}
           kept == Only(canvas, keep)
<1>1. IsSequence(kept) /\ ToSet(kept) = ToSet(canvas) \cap keep
  <2> HIDE DEF keep
  <2> QED
    BY OnlySequence DEF MapsInv, CanvasInv
<1>2. PublishTranslation = Translate(kept, index, View)
  BY DEF PublishTranslation
<1>3. sent' = [doc |-> Translate(kept, index, View), on |-> chosen, drawn |-> drawn = canvas,
               shown |-> translation.doc, unticked |-> unticked, index |-> index,
               layers |-> ToSet(canvas)]
  BY <1>2 DEF PressPublish
<1> QED
  BY <1>1, <1>2, <1>3

\* A layer the user unticked is in no map that is published, on any canvas and
\* whatever was refreshed, added or chosen in between.
THEOREM UntickedIsLeftOut == Spec => []UntickedStaysOut
<1>1. Init => UntickedStaysOut
  BY DEF Init, UntickedStaysOut, Pressed
<1>2. MapsInv /\ [Next]_vars /\ UntickedStaysOut => UntickedStaysOut'
  <2> SUFFICES ASSUME MapsInv, [Next]_vars, UntickedStaysOut PROVE UntickedStaysOut'
    OBVIOUS
  <2>1. CASE sent' = sent
    BY <2>1 DEF UntickedStaysOut, Pressed
  <2>2. CASE PressPublish
    <3>1. PICK keep, kept :
             /\ keep = {l \in ToSet(canvas) : l.id \notin excluded}
             /\ IsSequence(kept) /\ ToSet(kept) = ToSet(canvas) \cap keep
             /\ sent' = [doc |-> Translate(kept, index, View), on |-> chosen, drawn |-> drawn = canvas,
                         shown |-> translation.doc, unticked |-> unticked, index |-> index,
                         layers |-> ToSet(canvas)]
      BY <2>2, Taken
    <3>2. OfLayers(Translate(kept, index, View).entries, kept, index)
      BY <3>1, Translated
    <3>3. \A e \in ToSet(Translate(kept, index, View).entries) : e.id \notin excluded
      BY <3>1, <3>2, Entries DEF OfLayers
    <3>4. unticked = excluded
      BY DEF MapsInv, TickInv
    <3>5. sent'.doc = Translate(kept, index, View) /\ sent'.unticked = unticked
      BY <3>1
    <3> QED
      BY <3>3, <3>4, <3>5 DEF UntickedStaysOut
  <2> QED
    BY <2>1, <2>2, SentLeft
<1> QED
  BY <1>1, <1>2, MapsInvariant, PTL DEF Spec

\* What the list shows is what is published, less what was unticked, unless a map
\* landed on the canvas after the list was drawn.
THEOREM ShownIsPublished == Spec => []ShownIsShipped
<1>1. Init => ShownIsShipped
  BY DEF Init, ShownIsShipped, Pressed
<1>2. MapsInv /\ [Next]_vars /\ ShownIsShipped => ShownIsShipped'
  <2> SUFFICES ASSUME MapsInv, [Next]_vars, ShownIsShipped PROVE ShownIsShipped'
    OBVIOUS
  <2>1. CASE sent' = sent
    BY <2>1 DEF ShownIsShipped, Pressed
  <2>2. CASE PressPublish /\ drawn = canvas
    <3>1. PICK keep, kept :
             /\ keep = {l \in ToSet(canvas) : l.id \notin excluded} /\ kept = Only(canvas, keep)
             /\ sent' = [doc |-> Translate(kept, index, View), on |-> chosen, drawn |-> drawn = canvas,
                         shown |-> translation.doc, unticked |-> unticked, index |-> index,
                         layers |-> ToSet(canvas)]
      BY <2>2, Taken
    <3>2. translation.doc = Translate(canvas, index, View) /\ unticked = excluded
      BY <2>2 DEF PressPublish, MapsInv, DrawnInv, TickInv
    <3>3. SparesBasemaps(canvas, excluded)
      BY DEF MapsInv, TickInv, NoBasemap, SparesBasemaps
    <3> DEFINE all == Translate(canvas, index, View)
               some == Translate(kept, index, View)
    <3>4. IsSequence(canvas)
      BY DEF MapsInv, CanvasInv
    <3>5. IsLess(some, all, excluded)
      BY <3>1, <3>3, <3>4, LeftOut
    <3> HIDE DEF all, some
    <3>6. sent'.doc = some /\ sent'.shown = all /\ sent'.unticked = excluded
      BY <3>1, <3>2 DEF all, some
    <3> QED
      BY <3>5, <3>6 DEF ShownIsShipped, IsLess
  <2>3. CASE PressPublish /\ drawn # canvas
    BY <2>3 DEF PressPublish, ShownIsShipped
  <2> QED
    BY <2>1, <2>2, <2>3, SentLeft
<1> QED
  BY <1>1, <1>2, MapsInvariant, PTL DEF Spec

\* The invariant behind the next theorem: what a map owes to the index exists.
OwedInv ==
    Pressed =>
        /\ sent.on \in Portals
        /\ sent.doc.basemap # None =>
              sent.doc.basemap \in Items /\ store[sent.doc.basemap].portal = sent.on
        /\ \A e \in ToSet(sent.doc.entries) :
              e.kind # "data-layer" /\ e.item # None =>
                  e.item \in Items /\ store[e.item].portal = sent.on

LEMMA BasemapOf ==
    ASSUME NEW s, NEW ix, NEW view, Translate(s, ix, view).basemap # None
    PROVE  \E x \in ix.basemaps : Translate(s, ix, view).basemap = x.item
<1> DEFINE l == BasemapsOf(s, ix)[1]
<1>1. Translate(s, ix, view).basemap = BasemapFor(l, ix)
  BY DEF Translate, MapDoc
<1> HIDE DEF l
<1>2. BasemapFor(l, ix) = ItemFor(ix.basemaps, l.src.url)
  BY <1>1 DEF BasemapFor
<1> QED
  BY <1>1, <1>2 DEF ItemFor

\* The items a published map owes to the index are of the portal it is published
\* on, whatever portals were chosen and whichever indexes failed before.
THEOREM BackrefsAreOwn == Spec => []BackrefsAreOfThisPortal
<1>1. Init => OwedInv
  BY DEF Init, OwedInv, Pressed
<1>2. MapsInv /\ [Next]_vars /\ OwedInv => OwedInv'
  <2> SUFFICES ASSUME MapsInv, [Next]_vars, OwedInv PROVE OwedInv'
    OBVIOUS
  <2>1. StoreKept
    BY StoreStep
  <2>2. CASE sent' = sent
    <3>1. sent.on # None \/ ~Pressed
      BY NoneAssumption DEF OwedInv
    <3>2. Pressed' <=> Pressed
      BY <2>2 DEF Pressed
    <3> QED
      BY <2>1, <2>2, <3>1, <3>2 DEF OwedInv, StoreKept
  <2>3. CASE PressPublish
    <3>1. PICK kept :
             /\ IsSequence(kept)
             /\ sent' = [doc |-> Translate(kept, index, View), on |-> chosen, drawn |-> drawn = canvas,
                         shown |-> translation.doc, unticked |-> unticked, index |-> index,
                         layers |-> ToSet(canvas)]
      BY <2>3, Taken
    <3> DEFINE doc == Translate(kept, index, View)
    <3>2. store' = store /\ chosen \in Portals /\ index.of \in {None, chosen} /\ IndexOf(index, store)
      <4>1. dlg = "open" /\ ~busy /\ store' = store /\ chosen \in connections
        BY <2>3 DEF PressPublish, Profile
      <4>2. task.kind = "none"
        BY <4>1 DEF MapsInv, TaskInv
      <4> QED
        BY <4>1, <4>2 DEF MapsInv, IndexInv
    <3>3. /\ \A x \in index.basemaps \cup index.services : x.item \in Items /\ store[x.item].portal = chosen
          /\ \A i \in index.tiles : i \in Items /\ store[i].portal = chosen
      BY <3>2 DEF IndexOf
    <3>4. doc.basemap # None => doc.basemap \in Items /\ store[doc.basemap].portal = chosen
      <4>1. doc.basemap # None => \E x \in index.basemaps : doc.basemap = x.item
        BY BasemapOf
      <4> HIDE DEF doc
      <4> QED
        BY <3>3, <4>1
    <3>5. \A e \in ToSet(doc.entries) :
             e.kind # "data-layer" /\ e.item # None => e.item \in Items /\ store[e.item].portal = chosen
      <4>1. OfLayers(doc.entries, kept, index)
        BY <3>1, Translated
      <4> HIDE DEF doc
      <4> QED
        BY <3>3, <4>1, Entries DEF OfLayers
    <3> HIDE DEF doc
    <3>6. sent'.doc = doc /\ sent'.on = chosen
      BY <3>1 DEF doc
    <3> QED
      BY <3>2, <3>4, <3>5, <3>6 DEF OwedInv
  <2> QED
    BY <2>2, <2>3, SentLeft
<1>3. OwedInv => BackrefsAreOfThisPortal
  BY DEF OwedInv, BackrefsAreOfThisPortal
<1> QED
  BY <1>1, <1>2, <1>3, MapsInvariant, PTL DEF Spec

-----------------------------------------------------------------------------
(* What the dialog has added                                               *)

\* The basemap is on the portal.
OnPortal(p, u, items) ==
    \E i \in Items : /\ items[i].live /\ items[i].kind = "basemap"
                     /\ items[i].portal = p /\ items[i].url = u

\* What was added and is there, the index has.
Recognised(ix, items, made) ==
    \A p, u : <<p, u>> \in made /\ p = ix.of /\ p # None /\ u # None /\ OnPortal(p, u, items) =>
        \E x \in ix.basemaps : x.url = u

\* XYZ layers have their template.
Templates(layers) == \A l \in layers : l.src.shape = "xyz" => l.src.url # None

TemplatesInv == Templates(ToSet(canvas)) /\ Templates(ToSet(drawn)) /\ Templates(ToSet(opening.plan))

Making == task.kind \in {"create", "bulk"} /\ task.state = "done"

\* Without deletions what was added stays; without lost answers all that is made
\* is known to be.
AddedInv ==
    /\ ~May("delete") =>
          /\ \A p, u : <<p, u>> \in added => OnPortal(p, u, store)
          /\ Making => \A u \in task.out : OnPortal(task.portal, u, store)
    /\ ~May("delete") \/ ~May("lost") =>
          /\ dlg = "open" /\ task.kind # "index" /\ ~Making => Recognised(index, store, added)
          /\ task.kind = "index" /\ task.state = "done" => Recognised(task.out, store, added)

-----------------------------------------------------------------------------
(* Where the layers of the canvas come from                                *)

\* The layer is the one the reference means.
Named(layer, f, items) ==
    \/ layer = f.layer
    \/ f.layer = None /\ items[f.item].layers # <<>> /\ layer = items[f.item].layers[1].id
    \/ f.layer # None /\ \A lyr \in ToSet(items[f.item].layers) : lyr.id # f.layer

LayerShapes == {"features", "signed-features", "tiles", "signed-tiles"}

\* The source is one the reference leads to.
TiedLayer(src, f, items) ==
    /\ f.kind = "data-layer" /\ f.url = None
    /\ src.shape \in LayerShapes
    /\ src.item = f.item /\ f.item \in Items /\ items[f.item].portal # None
    /\ Named(src.layer, f, items)

TiedRaster(src, f) ==
    f.kind = "tile" /\ src.shape = "raster" /\ src.item = f.item /\ f.layer = None /\ f.url = None

TiedBasemap(src, f) == f.kind = "basemap" /\ src.shape = "xyz"

TiedService(src, f) ==
    /\ f.kind \in {"FeatureServer", "MapServer"} /\ src.shape \in {f.kind, "MapServer-by-layer"}
    /\ src.layer = f.layer /\ src.url = f.url

Tied(src, f, items) ==
    TiedLayer(src, f, items) \/ TiedRaster(src, f) \/ TiedBasemap(src, f) \/ TiedService(src, f)

AllTied(layers, items) ==
    \A l \in layers : l.from # None => l.origin = None /\ Tied(l.src, l.from.entry, items)

\* A service of the index is where the index has it.
ServicesAt(ix, items) ==
    \A x \in ix.services :
        x.item \in Items /\ items[x.item].portal # None /\ items[x.item].url = x.url /\ x.url # None

OriginInv ==
    /\ dlg = "none" => \A i \in Items : store[i].kind = "map" => DocOK(store[i].doc)
    /\ opening.state = "sent" => DocOK(store[opening.item].doc)
    /\ \A x \in ToSet(opening.plan) : Tied(x.src, x.entry, store)
    /\ AllTied(ToSet(canvas), store)
    /\ ServicesAt(index, store)
    /\ task.kind = "index" /\ task.state = "done" => ServicesAt(task.out, store)

\* What a published map makes of a layer that was not unticked.
Carried(l) ==
    l.id \notin sent.unticked =>
        /\ Resolves(l, sent.index) => EntryFor(l, sent.index) \in ToSet(sent.doc.entries)
        /\ BasemapFor(l, sent.index) # None => sent.doc.basemap # None

SentInv ==
    Pressed =>
        /\ AllTied(sent.layers, store)
        /\ \A l \in sent.layers : Carried(l)
        /\ \A x \in sent.index.basemaps : x.item \in Items
        /\ ServicesAt(sent.index, store)

\* What a create makes, and what it says it made.
LEMMA CreateMakes ==
    ASSUME MapsInv, RunCreate
    PROVE  \E made :
              /\ \A u \in made : \E i \in Items : store'[i] = NewBasemap(task.portal, u)
              /\ \A i \in Items :
                    \/ store'[i] = store[i]
                    \/ store[i].portal = None /\ \E u \in made : store'[i] = NewBasemap(task.portal, u)
              /\ task'.kind = task.kind /\ task'.portal = task.portal
              /\ \/ task'.state = "done" /\ task'.out \subseteq made
                 \/ task'.state = "failed" /\ (made = {} \/ May("lost"))
<1>1. PICK done \in SUBSET DOMAIN task.arg :
         /\ LET id == CHOOSE f \in Injection(done, FreshItems) : TRUE
                row(i) == CHOOSE k \in done : id[k] = i
            IN Create([i \in {id[k] : k \in done} |-> NewBasemap(task.portal, task.arg[row(i)])])
         /\ \E told \in IF May("lost") THEN SUBSET done ELSE {done} :
               IF task.kind = "create" /\ told = {}
               THEN Finish("failed", None)
               ELSE Finish("done", {task.arg[k] : k \in told})
  BY DEF RunCreate
<1> DEFINE id == CHOOSE f \in Injection(done, FreshItems) : TRUE
           row(i) == CHOOSE k \in done : id[k] = i
           taken == {id[k] : k \in done}
           made == {task.arg[k] : k \in done}
<1>2. id \in Injection(done, FreshItems)
  <2>1. IsSequence(task.arg) /\ Room(Len(task.arg))
    BY DEF RunCreate, MapsInv, TaskInv
  <2>2. Injection(done, FreshItems) # {}
    BY <2>1, EnoughFresh
  <2> QED
    BY <2>2
<1>3. store' = [i \in Items |-> IF i \in taken THEN NewBasemap(task.portal, task.arg[row(i)]) ELSE store[i]]
  BY <1>1 DEF Create
<1>4. \/ \E out \in SUBSET made : Finish("done", out)
      \/ Finish("failed", None) /\ (made = {} \/ May("lost"))
  <2>1. PICK told \in SUBSET done :
           /\ May("lost") \/ told = done
           /\ \/ told = {} /\ Finish("failed", None)
              \/ Finish("done", {task.arg[k] : k \in told})
    BY <1>1
  <2>2. {task.arg[k] : k \in told} \in SUBSET made
    OBVIOUS
  <2> QED
    BY <2>1, <2>2
<1> HIDE DEF id
<1>5. (\A k \in done : id[k] \in FreshItems) /\ \A k, n \in done : id[k] = id[n] => k = n
  BY <1>2 DEF Injection, IsInjective
<1>6. \A k \in done : row(id[k]) = k
  BY <1>5
<1>7. \A i \in taken : i \in Items /\ store[i].portal = None /\ row(i) \in done
  BY <1>5, <1>6 DEF FreshItems
<1>8. \A k \in done : id[k] \in taken /\ task.arg[row(id[k])] = task.arg[k]
  BY <1>6
<1> HIDE DEF taken, row
<1>9. \A u \in made : \E i \in Items : store'[i] = NewBasemap(task.portal, u)
  <2> SUFFICES ASSUME NEW k \in done
               PROVE  \E i \in Items : store'[i] = NewBasemap(task.portal, task.arg[k])
    OBVIOUS
  <2>1. id[k] \in taken /\ id[k] \in Items /\ task.arg[row(id[k])] = task.arg[k]
    BY <1>7, <1>8
  <2> QED
    BY <1>3, <2>1
<1>10. \A i \in Items :
          \/ store'[i] = store[i]
          \/ store[i].portal = None /\ \E u \in made : store'[i] = NewBasemap(task.portal, u)
  <2> SUFFICES ASSUME NEW i \in Items, i \in taken
               PROVE  store[i].portal = None /\ \E u \in made : store'[i] = NewBasemap(task.portal, u)
    BY <1>3
  <2>1. store[i].portal = None /\ row(i) \in done
    BY <1>7
  <2>2. task.arg[row(i)] \in made
    BY <2>1
  <2>3. store'[i] = NewBasemap(task.portal, task.arg[row(i)])
    BY <1>3
  <2> HIDE DEF made
  <2> QED
    BY <2>1, <2>2, <2>3
<1> HIDE DEF made
<1>11. \A out : /\ Finish("done", out) => /\ task'.kind = task.kind /\ task'.portal = task.portal
                                          /\ task'.state = "done" /\ task'.out = out
                /\ Finish("failed", out) => /\ task'.kind = task.kind /\ task'.portal = task.portal
                                            /\ task'.state = "failed"
  BY DEF Finish, MapsInv, TaskInv
<1> QED
  BY <1>4, <1>9, <1>10, <1>11

\* No basemap is new but those of a create.
LEMMA BasemapsMade ==
    ASSUME MapsInv, [Next]_vars, NEW i \in Items, store'[i].live, store'[i].kind = "basemap"
    PROVE  \/ store[i].live /\ store[i].kind = "basemap" /\ store[i].portal # None
              /\ store'[i].portal = store[i].portal /\ store'[i].url = store[i].url
           \/ Worker /\ RunCreate
<1> SUFFICES ASSUME ~(Worker /\ RunCreate)
             PROVE  /\ store[i].live /\ store[i].kind = "basemap" /\ store[i].portal # None
                    /\ store'[i].portal = store[i].portal /\ store'[i].url = store[i].url
  OBVIOUS
<1>1. StoreKept /\ ItemOK(store[i])
  BY StoreStep DEF MapsInv, StoreInv
<1>2. ASSUME store'[i] = store[i] \/ store[i].portal # None
      PROVE  /\ store[i].live /\ store[i].kind = "basemap" /\ store[i].portal # None
             /\ store'[i].portal = store[i].portal /\ store'[i].url = store[i].url
  <2>1. CASE store[i].portal # None
    BY <1>1, <2>1 DEF StoreKept
  <2>2. CASE store'[i] = store[i]
    BY <1>1, <2>2 DEF ItemOK
  <2> QED
    BY <1>2, <2>1, <2>2
<1>3. ASSUME NEW x, NEW kind \in {"tile_layer", "data_layer"}, NEW p,
             x = [BlankItem EXCEPT !.live = TRUE, !.portal = p, !.kind = kind]
      PROVE  x.kind # "basemap"
  BY <1>3 DEF BlankItem
<1>4. \A p, d : NewMap(p, d).kind # "basemap"
  BY DEF NewMap, BlankItem
<1>5. ASSUME NEW l, NEW p, NEW k \in Items, PublishLocal(l, p, k) PROVE store'[i] = store[i]
  <2> DEFINE kind == IF l.src.shape = "local-raster" THEN "tile_layer" ELSE "data_layer"
             x == [BlankItem EXCEPT !.live = TRUE, !.portal = p, !.kind = kind]
  <2>1. store' = store \/ store' = [store EXCEPT ![k] = x]
    BY <1>5 DEF PublishLocal
  <2>2. x.kind # "basemap"
    <3>1. kind \in {"tile_layer", "data_layer"}
      OBVIOUS
    <3> HIDE DEF kind
    <3> QED
      BY <1>3, <3>1
  <2> HIDE DEF x
  <2> QED
    BY <2>1, <2>2 DEF MapsInv, StoreInv
<1>6. ASSUME RunPublish PROVE store'[i] = store[i]
  <2> DEFINE k == CHOOSE x \in FreshItems : TRUE
  <2>1. store' = store \/ Create([x \in {k} |-> NewMap(task.portal, task.arg)])
    BY <1>6 DEF RunPublish
  <2> HIDE DEF k
  <2> QED
    BY <1>4, <2>1 DEF Create
<1>7. ASSUME NEW k \in Items, DeleteItem(k) PROVE store'[i] = store[i] \/ store[i].portal # None
  <2>1. store' = [store EXCEPT ![k].live = FALSE] /\ store[k].live /\ ItemOK(store[k])
    BY <1>7 DEF DeleteItem, MapsInv, StoreInv
  <2> QED
    BY <2>1 DEF MapsInv, StoreInv, ItemOK
<1>8. CASE Worker
  <2>1. RunFetchIndex => store' = store
    BY DEF RunFetchIndex
  <2> QED
    BY <1>2, <1>6, <1>8, <2>1 DEF Worker
<1>9. CASE Callback \/ OpenMapStep \/ UNCHANGED vars
  BY <1>2, <1>9 DEF Callback, CallbackWhenClosed, IndexLanded, CreateLanded, PublishLanded, OpenMapStep,
                    FetchMap, BuildMap, vars
<1>10. CASE User
  BY <1>2, <1>5, <1>7, <1>10
     DEF User, AddFromBrowser, LaunchOpenMap, AddFeatureTwin, AddOutside, OpenDialog, ChoosePortal, Tick,
         AddBasemap, BulkAddMissing, PressPublish, Close, RemoveConnection
<1> QED
  BY <1>8, <1>9, <1>10 DEF Next

-----------------------------------------------------------------------------
(* Where a layer of the canvas can come from                               *)

WasThere(l) ==
    \E k \in ToSet(canvas) :
        k.src = l.src /\ k.from = l.from /\ (l.origin = k.origin \/ l.src.shape = "local-raster")

FromTheTree(l) ==
    \E p \in Portals, i \in Items :
        /\ Has(store, p, i) /\ l.src \in RoutedSources(p, i, store[i], Keyed)
        /\ l.origin = None /\ l.from = [portal |-> p, entry |-> Reference(i, l.src)]

IsTwin(l) ==
    \E k \in ToSet(canvas) :
        /\ k.src.shape \in {"tiles", "signed-tiles"} /\ l.src = feature_twin_uri(k.src)
        /\ l.origin = None /\ l.from = k.from

FromElsewhere(l) == LoneOK(l) /\ l.from = None

FromTheMap(l) ==
    \E x \in ToSet(opening.plan) :
        /\ l.src = x.src /\ l.origin = None
        /\ l.from = [portal |-> opening.portal, entry |-> x.entry]

Explained(l) == WasThere(l) \/ FromTheTree(l) \/ IsTwin(l) \/ FromElsewhere(l) \/ FromTheMap(l)

LEMMA ToSetConcat ==
    ASSUME NEW s, IsSequence(s), NEW t, IsSequence(t)
    PROVE  \A x \in ToSet(s \o t) : x \in ToSet(s) \/ x \in ToSet(t)
<1> DEFINE all == ToSet(s) \cup ToSet(t)
           c == s \o t
<1>1. s \in Seq(all) /\ t \in Seq(all)
  BY DEF IsSequence
<1>2. /\ Len(c) = Len(s) + Len(t) /\ c \in Seq(all)
      /\ \A k \in 1 .. Len(s) + Len(t) : c[k] = IF k <= Len(s) THEN s[k] ELSE t[k - Len(s)]
  <2> HIDE DEF all
  <2> QED
    BY <1>1, ConcatProperties
<1>3. /\ Len(s) \in Nat /\ DOMAIN s = 1 .. Len(s) /\ Len(t) \in Nat /\ DOMAIN t = 1 .. Len(t)
      /\ DOMAIN c = 1 .. Len(s) + Len(t)
  <2> HIDE DEF c, all
  <2> QED
    BY <1>1, <1>2
<1> HIDE DEF c, all
<1> SUFFICES ASSUME NEW x \in ToSet(c) PROVE x \in ToSet(s) \/ x \in ToSet(t)
  BY DEF c
<1>4. PICK k \in 1 .. Len(s) + Len(t) : c[k] = x
  BY <1>3 DEF ToSet
<1>5. CASE k <= Len(s)
  BY <1>2, <1>3, <1>4, <1>5 DEF ToSet
<1>6. CASE k > Len(s)
  <2>1. k - Len(s) \in DOMAIN t /\ t[k - Len(s)] = x
    BY <1>2, <1>3, <1>4, <1>6
  <2> QED
    BY <2>1 DEF ToSet
<1> QED
  BY <1>3, <1>5, <1>6

\* On top of the canvas are the layers that were put there.
LEMMA TopLayers ==
    ASSUME IsSequence(canvas), NEW sources, IsSequence(sources), PutOnTop(sources),
           NEW l \in ToSet(canvas')
    PROVE  \/ l \in ToSet(canvas)
           \/ \E x \in ToSet(sources) : l.src = x.src /\ l.origin = x.origin /\ l.from = x.from
<1> DEFINE m == Len(canvas)
           n == Len(sources)
           top == [k \in DOMAIN sources |-> Layer(m + k, sources[k].src, sources[k].origin, sources[k].from)]
<1>1. /\ n \in Nat /\ DOMAIN sources = 1 .. n /\ m \in Nat /\ DOMAIN canvas = 1 .. m
      /\ canvas \in Seq(ToSet(canvas))
  BY DEF IsSequence
<1>2. \A k \in 1 .. n : /\ top[k].src = sources[k].src /\ top[k].origin = sources[k].origin
                        /\ top[k].from = sources[k].from
  BY <1>1 DEF Layer
<1>3. IsSequence(top) /\ ToSet(top) = {top[k] : k \in 1 .. n}
  <2>1. top = [k \in 1 .. n |-> top[k]]
    BY <1>1
  <2> HIDE DEF top, n
  <2> QED
    BY <1>1, <2>1, Sequenced
<1>4. canvas' = top \o canvas
  BY DEF PutOnTop
<1> HIDE DEF top, m, n
<1>5. l \in ToSet(top) \/ l \in ToSet(canvas)
  BY <1>3, <1>4, ToSetConcat
<1>6. CASE l \in ToSet(top)
  <2>1. PICK k \in 1 .. n : l = top[k]
    BY <1>3, <1>6
  <2>2. sources[k] \in ToSet(sources)
    BY <1>1, <2>1 DEF ToSet
  <2> QED
    BY <1>2, <2>1, <2>2
<1> QED
  BY <1>5, <1>6

LEMMA OneOnTop ==
    ASSUME MapsInv, NEW x, PutOnTop(<<x>>), NEW l \in ToSet(canvas')
    PROVE  l \in ToSet(canvas) \/ (l.src = x.src /\ l.origin = x.origin /\ l.from = x.from)
<1>1. IsSequence(<<x>>) /\ ToSet(<<x>>) = {x} /\ IsSequence(canvas)
  BY One DEF MapsInv, CanvasInv
<1> QED
  BY <1>1, TopLayers

LEMMA CanvasFrom == MapsInv /\ [Next]_vars => \A l \in ToSet(canvas') : Explained(l)
<1> SUFFICES ASSUME MapsInv, [Next]_vars, NEW l \in ToSet(canvas') PROVE Explained(l)
  OBVIOUS
<1>1. l \in ToSet(canvas) => Explained(l)
  BY DEF Explained, WasThere
<1>2. ASSUME NEW p \in Portals, NEW i \in Items, AddFromBrowser(p, i) PROVE Explained(l)
  <2>1. PICK src \in RoutedSources(p, i, store[i], Keyed) :
           PutOnTop(<<[src |-> src, origin |-> None,
                       from |-> [portal |-> p, entry |-> Reference(i, src)]]>>)
    BY <1>2 DEF AddFromBrowser
  <2> DEFINE x == [src |-> src, origin |-> None, from |-> [portal |-> p, entry |-> Reference(i, src)]]
  <2>2. /\ x.src = src /\ x.origin = None
        /\ x.from = [portal |-> p, entry |-> Reference(i, src)] /\ PutOnTop(<<x>>)
    BY <2>1
  <2> HIDE DEF x
  <2>3. l \in ToSet(canvas) \/ (l.src = x.src /\ l.origin = x.origin /\ l.from = x.from)
    BY <2>2, OneOnTop
  <2>4. Has(store, p, i)
    BY <1>2 DEF AddFromBrowser, InTheTree, FilterForBucket, Buckets
  <2> QED
    BY <1>1, <2>2, <2>3, <2>4 DEF Explained, FromTheTree
<1>3. ASSUME NEW k \in ToSet(canvas), AddFeatureTwin(k) PROVE Explained(l)
  <2> DEFINE x == [src |-> feature_twin_uri(k.src), origin |-> None, from |-> k.from]
  <2>1. PutOnTop(<<x>>) /\ Provider(k.src) = "vectortile"
    BY <1>3 DEF AddFeatureTwin
  <2>2. x.src = feature_twin_uri(k.src) /\ x.origin = None /\ x.from = k.from
    OBVIOUS
  <2> HIDE DEF x
  <2>3. k.src.shape \in {"tiles", "signed-tiles"}
    <3>1. k.src.shape \in SourceShapes
      BY DEF MapsInv, CanvasInv, ToSet
    <3> QED
      BY <2>1, <3>1 DEF Provider, SourceShapes
  <2>4. l \in ToSet(canvas) \/ (l.src = x.src /\ l.origin = x.origin /\ l.from = x.from)
    BY <2>1, OneOnTop
  <2> QED
    BY <1>1, <2>2, <2>3, <2>4 DEF Explained, IsTwin
<1>4. ASSUME NEW k \in Palette, AddOutside(k) PROVE Explained(l)
  <2> DEFINE x == [src |-> k.src, origin |-> k.origin, from |-> None]
  <2>1. PutOnTop(<<x>>)
    BY <1>4 DEF AddOutside
  <2>2. x.src = k.src /\ x.origin = k.origin /\ x.from = None /\ LoneOK(k)
    BY PaletteAssumption
  <2> HIDE DEF x
  <2>3. l \in ToSet(canvas) \/ (l.src = x.src /\ l.origin = x.origin /\ l.from = x.from)
    BY <2>1, OneOnTop
  <2> QED
    BY <1>1, <2>2, <2>3 DEF Explained, FromElsewhere, LoneOK
<1>5. ASSUME BuildMap PROVE Explained(l)
  <2> DEFINE plan == opening.plan
             sources == [k \in DOMAIN plan |->
                            [src |-> plan[k].src, origin |-> None,
                             from |-> [portal |-> opening.portal, entry |-> plan[k].entry]]]
  <2>1. IsSequence(plan) /\ IsSequence(canvas)
    BY DEF MapsInv, OpeningInv, CanvasInv
  <2> HIDE DEF plan
  <2>2. Len(plan) \in Nat /\ DOMAIN plan = 1 .. Len(plan)
    BY <2>1 DEF IsSequence
  <2>3. \A k \in 1 .. Len(plan) :
           /\ sources[k].src = plan[k].src /\ sources[k].origin = None
           /\ sources[k].from = [portal |-> opening.portal, entry |-> plan[k].entry]
    BY <2>2
  <2>4. sources = [k \in 1 .. Len(plan) |-> sources[k]]
    BY <2>2
  <2>5. PutOnTop(sources)
    BY <1>5 DEF BuildMap, plan
  <2> HIDE DEF sources
  <2>6. IsSequence(sources) /\ ToSet(sources) = {sources[k] : k \in 1 .. Len(plan)}
    BY <2>2, <2>4, Sequenced
  <2>7. l \in ToSet(canvas)
           \/ \E x \in ToSet(sources) : l.src = x.src /\ l.origin = x.origin /\ l.from = x.from
    BY <2>1, <2>5, <2>6, TopLayers
  <2>8. ASSUME NEW x \in ToSet(sources), l.src = x.src, l.origin = x.origin, l.from = x.from
        PROVE  Explained(l)
    <3>1. PICK k \in 1 .. Len(plan) : x = sources[k]
      BY <2>6
    <3>2. plan[k] \in ToSet(opening.plan)
      BY <2>2 DEF plan, ToSet
    <3> QED
      BY <2>3, <2>8, <3>1, <3>2 DEF Explained, FromTheMap
  <2> QED
    BY <1>1, <2>7, <2>8
<1>6. ASSUME NEW d \in ToSet(translation.skipped), NEW p \in Portals, NEW i \in Items, PublishLocal(d, p, i)
      PROVE  Explained(l)
  <2> DEFINE raster == d.src.shape = "local-raster"
  <2>1. CASE UNCHANGED canvas
    BY <1>1, <2>1
  <2>2. CASE canvas' = [k \in DOMAIN canvas |->
                           IF raster /\ canvas[k].id = d.id
                           THEN [canvas[k] EXCEPT !.origin = [item |-> i, layer |-> None]]
                           ELSE canvas[k]]
    <3>1. PICK k \in DOMAIN canvas : l = canvas'[k]
      BY <2>2 DEF ToSet
    <3>2. canvas[k] \in ToSet(canvas)
      BY DEF ToSet
    <3>3. CASE ~(raster /\ canvas[k].id = d.id)
      BY <1>1, <2>2, <3>1, <3>2, <3>3
    <3>4. CASE raster /\ canvas[k].id = d.id
      <4>1. d \in ToSet(drawn)
        <5>1. translation.skipped = Skipped(drawn, index) /\ IsSequence(drawn)
          BY <1>6 DEF PublishLocal, MapsInv, DrawnInv
        <5> QED
          BY <5>1, SkippedOf
      <4>2. canvas[k].src.shape = "local-raster"
        BY <3>2, <3>4, <4>1 DEF MapsInv, DrawnInv
      <4>3. l = [canvas[k] EXCEPT !.origin = [item |-> i, layer |-> None]]
        BY <2>2, <3>1, <3>4
      <4>4. l.src = canvas[k].src /\ l.from = canvas[k].from
        BY <4>3
      <4> QED
        BY <3>2, <4>2, <4>4 DEF Explained, WasThere
    <3> QED
      BY <3>3, <3>4
  <2> QED
    BY <1>6, <2>1, <2>2 DEF PublishLocal
<1>7. CASE Worker \/ Callback \/ FetchMap \/ UNCHANGED vars
  BY <1>1, <1>7 DEF Worker, Callback, CallbackWhenClosed, IndexLanded, CreateLanded, PublishLanded,
                    FetchMap, vars, canvasVars
<1>8. CASE User
  BY <1>1, <1>2, <1>3, <1>4, <1>6, <1>8
     DEF User, LaunchOpenMap, OpenDialog, ChoosePortal, Tick, AddBasemap, BulkAddMissing, PressPublish,
         Close, DeleteItem, RemoveConnection, canvasVars
<1> QED
  BY <1>5, <1>7, <1>8 DEF Next, OpenMapStep

-----------------------------------------------------------------------------
(* Sources, by the item they are built for                                 *)

\* What the tree draws of an item.
DrawsItem(src, i, item) ==
    \/ item.kind = "data_layer" /\ src.shape \in LayerShapes /\ src.item = i
    \/ item.kind = "tile_layer" /\ src.shape = "raster" /\ src.item = i
    \/ item.kind = "basemap" /\ src.shape = "xyz" /\ src.url = item.url /\ item.url # None
    \/ item.kind \in {"FeatureServer", "MapServer"} /\ src.shape = item.kind

LEMMA LayerSources ==
    \A p, i, item, layer, keyed :
        /\ LET src == FeaturesUri(p, i, item, layer, keyed)
           IN src.shape \in LayerShapes /\ src.item = i /\ src.layer = layer
        /\ LET src == SpatialSublayerUri(p, i, item, layer, keyed)
           IN src.shape \in LayerShapes /\ src.item = i /\ src.layer = layer
BY DEF FeaturesUri, SpatialSublayerUri, authed_oapif_uri, oapif_uri, authed_vector_tile_uri,
       vector_tile_uri, Source, LayerShapes

LEMMA Routed ==
    \A p, i, item, keyed : \A src \in RoutedSources(p, i, item, keyed) : DrawsItem(src, i, item)
<1> SUFFICES ASSUME NEW p, NEW i, NEW item, NEW keyed, NEW src \in RoutedSources(p, i, item, keyed)
             PROVE  DrawsItem(src, i, item)
  OBVIOUS
<1>1. CASE item.kind = "data_layer"
  <2>1. src \in DataLayerSources(p, i, item, keyed)
    BY <1>1 DEF RoutedSources
  <2>2. PICK lyr : src \in SublayerSources(p, i, item, lyr, keyed)
    BY <2>1 DEF DataLayerSources
  <2>3. \/ src = FeaturesUri(p, i, item, lyr.id, keyed)
        \/ src = SpatialSublayerUri(p, i, item, lyr.id, keyed)
    BY <2>2 DEF SublayerSources
  <2> QED
    BY <1>1, <2>3, LayerSources DEF DrawsItem
<1>2. CASE item.kind = "tile_layer"
  BY <1>2 DEF RoutedSources, TileLayerSources, tile_layer_xyz_uri, Source, DrawsItem
<1>3. CASE item.kind = "basemap"
  BY <1>3 DEF RoutedSources, BasemapSources, Outside, DrawsItem
<1>4. CASE item.kind \in {"FeatureServer", "MapServer"}
  <2>1. src \in ServiceSources(item)
    BY <1>4 DEF RoutedSources
  <2>2. \E k : src = ServiceSublayer(item, k)
    BY <2>1 DEF ServiceSources
  <2> QED
    BY <1>4, <2>2 DEF ServiceSublayer, Outside, DrawsItem
<1> QED
  BY <1>1, <1>2, <1>3, <1>4 DEF RoutedSources

\* The twin of a tile layer reads the same layer.
LEMMA Twins ==
    ASSUME NEW s, s.shape \in {"tiles", "signed-tiles"}
    PROVE  /\ feature_twin_uri(s).shape \in {"features", "signed-features"}
           /\ feature_twin_uri(s).item = s.item /\ feature_twin_uri(s).layer = s.layer
BY DEF feature_twin_uri, parse_portal_layer_source, parse_oapif_uri, parse_vector_tile_uri,
       authed_oapif_uri, oapif_uri, Source

\* Each step of a plan builds an entry of the map, or its basemap.
LEMMA Planned ==
    ASSUME NEW doc, IsSequence(doc.entries), NEW referenced, NEW p, NEW keyed,
           NEW x \in ToSet(PlanMapOpen(doc, referenced, p, keyed))
    PROVE  /\ x.src # None
           /\ \/ x.entry \in ToSet(doc.entries) /\ x.src = PlanOne(x.entry, referenced, p, keyed)
              \/ /\ x.src = PlanBasemap(doc, referenced)
                 /\ x.entry = DocEntry(0, "basemap", doc.basemap, None, None)
<1> DEFINE Step(e) == [src |-> PlanOne(e, referenced, p, keyed), entry |-> e]
           base == [src |-> PlanBasemap(doc, referenced),
                    entry |-> DocEntry(0, "basemap", doc.basemap, None, None)]
           steps == [k \in DOMAIN doc.entries |-> Step(doc.entries[k])]
           all == Append(steps, base)
           n == Len(doc.entries)
           sound == {y \in ToSet(all) : y.src # None}
<1>1. PlanMapOpen(doc, referenced, p, keyed) = Only(all, sound)
  BY DEF PlanMapOpen
<1>2. n \in Nat /\ DOMAIN doc.entries = 1 .. n
  BY DEF IsSequence
<1>3. IsSequence(steps) /\ ToSet(steps) = {steps[k] : k \in 1 .. n}
  <2>1. steps = [k \in 1 .. n |-> steps[k]]
    BY <1>2
  <2> HIDE DEF steps, n
  <2> QED
    BY <1>2, <2>1, Sequenced
<1>4. \A k \in 1 .. n : /\ steps[k].src = PlanOne(doc.entries[k], referenced, p, keyed)
                        /\ steps[k].entry = doc.entries[k] /\ doc.entries[k] \in ToSet(doc.entries)
  BY <1>2 DEF ToSet
<1>5. /\ base.src = PlanBasemap(doc, referenced)
      /\ base.entry = DocEntry(0, "basemap", doc.basemap, None, None)
  OBVIOUS
<1> DEFINE either == ToSet(steps) \cup {base}
<1>6. IsSequence(all) /\ ToSet(all) \subseteq either
  <2>1. steps \in Seq(either) /\ base \in either
    BY <1>3 DEF IsSequence
  <2> HIDE DEF steps, base, either
  <2>2. all \in Seq(either)
    BY <2>1
  <2> HIDE DEF all
  <2> QED
    BY <2>2, MembersOf
<1> HIDE DEF all, steps, base, n
<1>7. x \in ToSet(all) \cap sound
  <2> HIDE DEF sound
  <2> QED
    BY <1>1, <1>6, OnlySequence
<1>8. x.src # None /\ (x \in ToSet(steps) \/ x = base)
  BY <1>6, <1>7
<1> QED
  BY <1>3, <1>4, <1>5, <1>8

\* What a fetch plans.
LEMMA FetchPlans ==
    ASSUME MapsInv, FetchMap
    PROVE  \E doc, unread, referenced :
              /\ IsSequence(doc.entries)
              /\ \/ ToSet(doc.entries) = {} /\ doc.basemap = None
                 \/ doc = store[opening.item].doc
              /\ referenced = [i \in ReferencedItemIds(doc) |->
                                  IF i \in unread THEN None ELSE Lookup(store, opening.portal, i)]
              /\ opening'.plan = PlanMapOpen(doc, referenced, opening.portal, Keyed)
              /\ opening'.state = "planned"
<1>1. PICK unread \in SUBSET Items :
         LET p == opening.portal
             full == IF opening.item \in unread THEN None ELSE Lookup(store, p, opening.item)
             doc == IF full = None THEN MapDoc(None, <<>>, None, None) ELSE full.doc
             referenced == [i \in ReferencedItemIds(doc) |->
                               IF i \in unread THEN None ELSE Lookup(store, p, i)]
         IN opening' = [opening EXCEPT !.state = "planned",
                                       !.plan = PlanMapOpen(doc, referenced, p, Keyed)]
  BY DEF FetchMap
<1> DEFINE full == IF opening.item \in unread THEN None ELSE Lookup(store, opening.portal, opening.item)
           doc == IF full = None THEN MapDoc(None, <<>>, None, None) ELSE full.doc
           referenced == [i \in ReferencedItemIds(doc) |->
                             IF i \in unread THEN None ELSE Lookup(store, opening.portal, i)]
           plan == PlanMapOpen(doc, referenced, opening.portal, Keyed)
<1>2. full = None \/ full = store[opening.item]
  BY DEF Lookup
<1>3. opening' = [opening EXCEPT !.state = "planned", !.plan = plan]
  BY <1>1
<1> HIDE DEF plan
<1>4. opening'.plan = plan /\ opening'.state = "planned"
  BY <1>3 DEF MapsInv, OpeningInv
<1> HIDE DEF referenced
<1>5. IsSequence(doc.entries)
      /\ ((ToSet(doc.entries) = {} /\ doc.basemap = None) \/ doc = store[opening.item].doc)
  <2>1. CASE full = None
    <3>1. doc.entries = <<>> /\ doc.basemap = None
      BY <2>1 DEF MapDoc
    <3>2. IsSequence(<<>>) /\ ToSet(<<>>) = {}
      BY DEF IsSequence, ToSet
    <3> HIDE DEF doc
    <3> QED
      BY <3>1, <3>2
  <2>2. CASE full # None
    <3>1. opening.item \in Items /\ store[opening.item].kind = "map"
      BY DEF FetchMap, MapsInv, OpeningInv
    <3>2. ItemOK(store[opening.item])
      BY <3>1 DEF MapsInv, StoreInv
    <3>3. doc = store[opening.item].doc
      BY <1>2, <2>2
    <3> HIDE DEF doc
    <3> QED
      BY <3>1, <3>2, <3>3 DEF ItemOK
  <2> QED
    BY <2>1, <2>2
<1> HIDE DEF doc
<1> QED
  BY <1>4, <1>5 DEF plan, referenced

LEMMA OpeningLeft ==
    ASSUME MapsInv, [Next]_vars
    PROVE  \/ opening' = opening
           \/ /\ ToSet(opening'.plan) = {}
              /\ \/ opening'.state = "none"
                 \/ /\ opening'.state = "sent" /\ dlg = "none" /\ UNCHANGED store
                    /\ opening'.item \in Items /\ store[opening'.item].kind = "map"
           \/ FetchMap /\ UNCHANGED store
<1>1. ToSet(<<>>) = {}
  BY DEF ToSet
<1>2. ASSUME NEW p, NEW i \in Items, LaunchOpenMap(p, i)
      PROVE  /\ ToSet(opening'.plan) = {} /\ opening'.state = "sent" /\ dlg = "none" /\ UNCHANGED store
             /\ opening'.item \in Items /\ store[opening'.item].kind = "map"
  <2>1. PICK o : o = [NoOpening EXCEPT !.state = "sent", !.portal = p, !.item = i]
    OBVIOUS
  <2>2. o.state = "sent" /\ o.item = i /\ o.plan = <<>>
    BY <2>1 DEF NoOpening
  <2>3. opening' = o /\ store' = store /\ store[i].kind = "map" /\ dlg = "none"
    BY <1>2, <2>1 DEF LaunchOpenMap
  <2> QED
    BY <1>1, <2>2, <2>3
<1>3. BuildMap => ToSet(opening'.plan) = {} /\ opening'.state = "none"
  BY <1>1 DEF BuildMap, NoOpening
<1>4. CASE Worker \/ Callback \/ UNCHANGED vars
  BY <1>4 DEF Worker, Callback, CallbackWhenClosed, IndexLanded, CreateLanded, PublishLanded,
              vars, canvasVars
<1>5. CASE User
  BY <1>2, <1>5
     DEF User, AddFromBrowser, AddFeatureTwin, AddOutside, PublishLocal, OpenDialog, ChoosePortal, Tick,
         AddBasemap, BulkAddMissing, PressPublish, Close, DeleteItem, RemoveConnection, canvasVars
<1>6. CASE FetchMap
  BY <1>6 DEF FetchMap
<1> QED
  BY <1>3, <1>4, <1>5, <1>6 DEF Next, OpenMapStep

LEMMA TemplatesStep == MapsInv /\ TemplatesInv /\ [Next]_vars => TemplatesInv'
<1> SUFFICES ASSUME MapsInv, TemplatesInv, [Next]_vars PROVE TemplatesInv'
  OBVIOUS
<1>1. Templates(ToSet(canvas'))
  <2> SUFFICES ASSUME NEW l \in ToSet(canvas'), l.src.shape = "xyz" PROVE l.src.url # None
    BY DEF Templates
  <2>1. Explained(l)
    BY CanvasFrom
  <2>2. CASE WasThere(l)
    BY <2>2 DEF WasThere, TemplatesInv, Templates
  <2>3. CASE FromTheTree(l)
    <3>1. PICK p, i : l.src \in RoutedSources(p, i, store[i], Keyed)
      BY <2>3 DEF FromTheTree
    <3>2. DrawsItem(l.src, i, store[i])
      BY <3>1, Routed
    <3> QED
      BY <3>2 DEF DrawsItem, LayerShapes
  <2>4. CASE IsTwin(l)
    <3>1. PICK k \in ToSet(canvas) :
             k.src.shape \in {"tiles", "signed-tiles"} /\ l.src = feature_twin_uri(k.src)
      BY <2>4 DEF IsTwin
    <3>2. feature_twin_uri(k.src).shape \in {"features", "signed-features"}
      BY <3>1, Twins
    <3> QED
      BY <3>1, <3>2
  <2>5. CASE FromElsewhere(l)
    BY <2>5 DEF FromElsewhere, LoneOK
  <2>6. CASE FromTheMap(l)
    BY <2>6 DEF FromTheMap, TemplatesInv, Templates
  <2> QED
    BY <2>1, <2>2, <2>3, <2>4, <2>5, <2>6 DEF Explained
<1>2. Templates(ToSet(drawn'))
  <2>1. drawn' = drawn \/ drawn' = canvas
    BY LeftOrDrawn DEF Render
  <2> QED
    BY <2>1 DEF TemplatesInv
<1>3. Templates(ToSet(opening'.plan))
  <2>1. CASE FetchMap
    <3>1. PICK doc, referenced :
             IsSequence(doc.entries) /\ opening'.plan = PlanMapOpen(doc, referenced, opening.portal, Keyed)
      BY <2>1, FetchPlans
    <3> SUFFICES ASSUME NEW x \in ToSet(opening'.plan), x.src.shape = "xyz" PROVE x.src.url # None
      BY DEF Templates
    <3>2. /\ x.src # None
          /\ x.src = PlanOne(x.entry, referenced, opening.portal, Keyed) \/ x.src = PlanBasemap(doc, referenced)
      BY <3>1, Planned
    <3>3. ASSUME x.src = PlanOne(x.entry, referenced, opening.portal, Keyed) PROVE FALSE
      <4> DEFINE e == x.entry
                 item == referenced[e.item]
                 lyr == MatchedLayer(item, e.layer)
      <4>1. CASE e.kind = "data-layer" /\ item # None
        <5>1. \/ x.src = FeaturesUri(opening.portal, e.item, item, lyr.id, Keyed)
              \/ x.src = SpatialSublayerUri(opening.portal, e.item, item, lyr.id, Keyed)
          BY <3>3, <4>1 DEF PlanOne, DataLayerSource
        <5>2. x.src.shape \in LayerShapes
          BY <5>1, LayerSources
        <5> QED
          BY <5>2 DEF LayerShapes
      <4>2. CASE e.kind = "tile" /\ item # None
        BY <3>3, <4>2 DEF PlanOne, tile_layer_xyz_uri, Source
      <4>3. CASE e.kind = "FeatureServer" \/ e.kind = "MapServer"
        <5>1. \/ x.src = Outside("FeatureServer", e.url, e.layer)
              \/ x.src = Outside("MapServer-by-layer", e.url, e.layer)
          BY <3>3, <4>3 DEF PlanOne
        <5>2. \A s, u, n : Outside(s, u, n).shape = s
          BY DEF Outside
        <5> QED
          BY <5>1, <5>2
      <4> QED
        BY <3>2, <3>3, <4>1, <4>2, <4>3 DEF PlanOne
    <3>4. ASSUME x.src = PlanBasemap(doc, referenced) PROVE x.src.url # None
      BY <3>2, <3>4 DEF PlanBasemap, Outside
    <3> QED
      BY <3>2, <3>3, <3>4
  <2>2. CASE opening' = opening
    BY <2>2 DEF TemplatesInv
  <2>3. CASE ToSet(opening'.plan) = {}
    BY <2>3 DEF Templates
  <2> QED
    BY <2>1, <2>2, <2>3, OpeningLeft
<1> QED
  BY <1>1, <1>2, <1>3 DEF TemplatesInv

-----------------------------------------------------------------------------
(* What was added                                                          *)

\* What can happen while neither the index nor an item is made or landed.
LEMMA OtherSteps ==
    ASSUME MapsInv, [Next]_vars, ~(Worker /\ RunCreate), ~(Worker /\ RunFetchIndex),
           ~IndexLanded, ~CreateLanded
    PROVE  /\ added' = added
           /\ task' = task \/ ~(task'.kind \in {"index", "create", "bulk"} /\ task'.state = "done")
           /\ dlg' = "open" /\ task'.kind # "index" =>
                 \/ index' = NoIndex
                 \/ index' = index /\ dlg = "open"
                    /\ (task' = task \/ task.kind \in {"none", "publish"})
<1> DEFINE Fine ==
        /\ added' = added
        /\ task' = task \/ ~(task'.kind \in {"index", "create", "bulk"} /\ task'.state = "done")
        /\ dlg' = "open" /\ task'.kind # "index" =>
              \/ index' = NoIndex
              \/ index' = index /\ dlg = "open" /\ (task' = task \/ task.kind \in {"none", "publish"})
<1> SUFFICES Fine
  OBVIOUS
<1>1. \A kind, p, arg : Start(kind, p, arg) => task'.kind = kind /\ task'.state = "sent"
  BY DEF Start, NoTask
<1>2. NoTask.kind = "none" /\ NoTask.state = "none"
  BY DEF NoTask
<1>3. dlg = "open" /\ ~busy => task.kind = "none"
  BY DEF MapsInv, TaskInv
<1>4. ASSUME task' = task, index' = index, added' = added, dlg' = "open" => dlg = "open" PROVE Fine
  BY <1>4
<1>5. ASSUME added' = added, task' = NoTask,
             dlg' = "open" => /\ index' = index /\ dlg = "open" /\ task.kind = "publish"
      PROVE  Fine
  BY <1>2, <1>5
<1>6. ASSUME added' = added, index' = index, dlg = "open", ~busy,
             NEW kind, NEW p, NEW arg, Start(kind, p, arg)
      PROVE  Fine
  BY <1>1, <1>3, <1>6
<1>7. ASSUME added' = added, NEW p, RefreshIndex(p) PROVE Fine
  <2>1. \/ index' = NoIndex /\ task' = NoTask
        \/ Start("index", p, None)
    BY <1>7 DEF RefreshIndex
  <2> QED
    BY <1>1, <1>2, <1>7, <2>1
<1>8. CASE Worker
  <2>1. RunPublish /\ dlg' = dlg /\ index' = index /\ added' = added
    BY <1>8 DEF Worker
  <2>2. task.kind = "publish" /\ \E state, out : Finish(state, out)
    BY <2>1 DEF RunPublish
  <2>3. task'.kind = "publish"
    BY <2>2 DEF Finish, MapsInv, TaskInv
  <2> QED
    BY <2>1, <2>2, <2>3
<1>9. CASE Callback
  <2>1. CASE CallbackWhenClosed
    BY <1>5, <2>1 DEF CallbackWhenClosed
  <2>2. CASE PublishLanded
    BY <1>5, <2>2 DEF PublishLanded
  <2> QED
    BY <1>9, <2>1, <2>2 DEF Callback
<1>10. CASE OpenMapStep \/ UNCHANGED vars
  BY <1>4, <1>10 DEF OpenMapStep, FetchMap, BuildMap, vars, dialogVars
<1>11. ASSUME NEW p, OpenDialog(p) PROVE Fine
  <2>1. CASE p = None
    <3>1. index' = NoIndex /\ task' = task /\ added' = added
      BY <1>11, <2>1 DEF OpenDialog
    <3> QED
      BY <3>1
  <2>2. CASE p # None
    <3>1. Start("index", p, None) /\ added' = added
      BY <1>11, <2>2 DEF OpenDialog
    <3> QED
      BY <1>1, <3>1
  <2> QED
    BY <2>1, <2>2
<1>12. ASSUME NEW p, ChoosePortal(p) PROVE Fine
  BY <1>7, <1>12 DEF ChoosePortal
<1>13. ASSUME NEW l, NEW p, NEW i, PublishLocal(l, p, i) PROVE Fine
  <2>1. Start("index", chosen, None) /\ index' = index /\ added' = added /\ dlg = "open" /\ ~busy
    BY <1>13 DEF PublishLocal
  <2> QED
    BY <1>6, <2>1
<1>14. ASSUME NEW l, AddBasemap(l) PROVE Fine
  <2>1. Start("create", chosen, <<l.src.url>>) /\ index' = index /\ added' = added /\ dlg = "open" /\ ~busy
    BY <1>14 DEF AddBasemap
  <2> QED
    BY <1>6, <2>1
<1>15. ASSUME BulkAddMissing PROVE Fine
  <2>1. \E arg : Start("bulk", chosen, arg)
    BY <1>15 DEF BulkAddMissing
  <2>2. index' = index /\ added' = added /\ dlg = "open" /\ ~busy
    BY <1>15 DEF BulkAddMissing
  <2> QED
    BY <1>6, <2>1, <2>2
<1>16. ASSUME PressPublish PROVE Fine
  <2>1. Start("publish", chosen, PublishTranslation) /\ index' = index /\ added' = added
        /\ dlg = "open" /\ ~busy
    BY <1>16 DEF PressPublish
  <2> QED
    BY <1>6, <2>1
<1>17. CASE User
  <2>1. CASE \/ \E p \in Portals, i \in Items : AddFromBrowser(p, i) \/ LaunchOpenMap(p, i)
             \/ \E l \in ToSet(canvas) : AddFeatureTwin(l)
             \/ \E l \in Palette : AddOutside(l)
             \/ \E k \in DOMAIN canvas : Tick(k)
             \/ Close
             \/ \E i \in Items : DeleteItem(i)
             \/ \E p \in Portals : RemoveConnection(p)
    BY <1>4, <2>1 DEF AddFromBrowser, LaunchOpenMap, AddFeatureTwin, AddOutside, Tick, Close, DeleteItem,
                      RemoveConnection, dialogVars
  <2> QED
    BY <1>11, <1>12, <1>13, <1>14, <1>15, <1>16, <1>17, <2>1 DEF User
<1> QED
  BY <1>8, <1>9, <1>10, <1>17 DEF Next

LEMMA EnvStays == [Next]_vars => env' = env
BY DEF Next, User, OpenMapStep, Worker, Callback, AddFromBrowser, LaunchOpenMap, AddFeatureTwin,
       AddOutside, OpenDialog, ChoosePortal, Tick, AddBasemap, BulkAddMissing, PublishLocal, PressPublish,
       Close, DeleteItem, RemoveConnection, FetchMap, BuildMap, CallbackWhenClosed,
       IndexLanded, CreateLanded, PublishLanded, vars, dialogVars

\* A basemap that is on a portal was there before, or has just been made.
LEMMA WasOnPortal ==
    ASSUME MapsInv, [Next]_vars, ~(Worker /\ RunCreate), NEW p, NEW u, OnPortal(p, u, store')
    PROVE  OnPortal(p, u, store)
<1>1. PICK i \in Items : /\ store'[i].live /\ store'[i].kind = "basemap"
                         /\ store'[i].portal = p /\ store'[i].url = u
  BY DEF OnPortal
<1> QED
  BY <1>1, BasemapsMade DEF OnPortal

\* While nobody deletes, it stays.
LEMMA StaysOnPortal ==
    ASSUME MapsInv, [Next]_vars, ~May("delete"), NEW p, NEW u, OnPortal(p, u, store)
    PROVE  OnPortal(p, u, store')
<1>1. PICK i \in Items : /\ store[i].live /\ store[i].kind = "basemap"
                         /\ store[i].portal = p /\ store[i].url = u
  BY DEF OnPortal
<1>2. store[i].portal # None
  BY <1>1 DEF MapsInv, StoreInv, ItemOK
<1>3. StoreKept
  BY StoreStep
<1> QED
  BY <1>1, <1>2, <1>3 DEF OnPortal, StoreKept

LEMMA RecognisedStays ==
    ASSUME MapsInv, [Next]_vars, ~(Worker /\ RunCreate), NEW ix, NEW made, Recognised(ix, store, made)
    PROVE  Recognised(ix, store', made)
BY WasOnPortal DEF Recognised

\* Of an index that was fetched, what it lacks is not there.
LEMMA FetchedAll ==
    ASSUME NEW p, NEW tiles, NEW readable, NEW made, NEW ix, ix = PortalIndexOf(store, p, tiles, readable)
    PROVE  Recognised(ix, store, made)
<1> DEFINE of(kinds) == {i \in Items : Has(store, p, i) /\ store[i].kind \in kinds /\ store[i].url # None}
<1>1. ix.of = p /\ ix.basemaps = {[url |-> store[i].url, item |-> i] : i \in of({"basemap"})}
  BY DEF PortalIndexOf
<1> SUFFICES ASSUME NEW u, p # None, u # None, OnPortal(p, u, store)
             PROVE  \E x \in ix.basemaps : x.url = u
  BY <1>1 DEF Recognised
<1>2. PICK i \in Items : /\ store[i].live /\ store[i].kind = "basemap"
                         /\ store[i].portal = p /\ store[i].url = u
  BY DEF OnPortal
<1>3. Has(store, p, i)
  BY <1>2 DEF Has
<1>4. i \in of({"basemap"})
  BY <1>2, <1>3
<1> HIDE DEF of
<1>5. [url |-> store[i].url, item |-> i] \in ix.basemaps
  BY <1>1, <1>4
<1> QED
  BY <1>2, <1>5

LEMMA Refreshed ==
    ASSUME NEW p, RefreshIndex(p)
    PROVE  \/ index' = NoIndex /\ task'.kind = "none" /\ task'.state = "none"
           \/ task'.kind = "index" /\ task'.state = "sent"
<1>1. \A kind, q, arg : Start(kind, q, arg) => task'.kind = kind /\ task'.state = "sent"
  BY DEF Start, NoTask
<1>2. NoTask.kind = "none" /\ NoTask.state = "none"
  BY DEF NoTask
<1> QED
  BY <1>1, <1>2 DEF RefreshIndex

LEMMA KnownStep ==
    ASSUME MapsInv, [Next]_vars, AddedInv, ~May("delete")'
    PROVE  /\ \A p, u : <<p, u>> \in added' => OnPortal(p, u, store')
           /\ Making' => \A u \in task'.out : OnPortal(task'.portal, u, store')
<1>1. /\ \A p, u : <<p, u>> \in added => OnPortal(p, u, store')
      /\ Making => \A u \in task.out : OnPortal(task.portal, u, store')
  <2>1. ~May("delete")
    BY EnvStays DEF May
  <2> QED
    BY <2>1, StaysOnPortal DEF AddedInv
<1>2. CASE Worker /\ RunCreate
  <2>1. PICK made :
           /\ \A u \in made : \E i \in Items : store'[i] = NewBasemap(task.portal, u)
           /\ task'.portal = task.portal
           /\ \/ task'.state = "done" /\ task'.out \subseteq made
              \/ task'.state = "failed"
    BY <1>2, CreateMakes
  <2>2. added' = added
    BY <1>2 DEF Worker
  <2>3. \A p, u : LET x == NewBasemap(p, u)
                  IN x.live /\ x.kind = "basemap" /\ x.portal = p /\ x.url = u
    BY DEF NewBasemap, BlankItem
  <2>4. \A u \in made : OnPortal(task'.portal, u, store')
    BY <2>1, <2>3 DEF OnPortal
  <2> QED
    BY <1>1, <2>1, <2>2, <2>4 DEF Making
<1>3. CASE Worker /\ RunFetchIndex
  <2>1. task.kind = "index" /\ \E state, out : Finish(state, out)
    BY <1>3 DEF RunFetchIndex
  <2>2. task'.kind = "index" /\ added' = added
    BY <1>3, <2>1 DEF Finish, Worker, MapsInv, TaskInv
  <2> QED
    BY <1>1, <2>2 DEF Making
<1>4. CASE IndexLanded
  BY <1>1, <1>4 DEF IndexLanded, NoTask, Making
<1>5. CASE CreateLanded
  <2>1. task'.state # "done"
    <3>1. task' = NoTask \/ RefreshIndex(chosen)
      BY <1>5 DEF CreateLanded, ReIndex
    <3> QED
      BY <3>1, Refreshed DEF NoTask
  <2>2. added' = added \/ (Making /\ added' = added \cup {<<task.portal, u>> : u \in task.out})
    BY <1>5 DEF CreateLanded, Making
  <2> QED
    BY <1>1, <2>1, <2>2 DEF Making
<1>6. CASE /\ ~(Worker /\ RunCreate) /\ ~(Worker /\ RunFetchIndex)
           /\ ~IndexLanded /\ ~CreateLanded
  BY <1>1, <1>6, OtherSteps DEF Making
<1> QED
  BY <1>2, <1>3, <1>4, <1>5, <1>6

LEMMA RecognisedStep ==
    ASSUME MapsInv, [Next]_vars, AddedInv, ~May("delete") \/ ~May("lost")
    PROVE  /\ dlg' = "open" /\ task'.kind # "index" /\ ~Making' => Recognised(index', store', added')
           /\ task'.kind = "index" /\ task'.state = "done" => Recognised(task'.out, store', added')
<1>1. /\ dlg = "open" /\ task.kind # "index" /\ ~Making => Recognised(index, store, added)
      /\ task.kind = "index" /\ task.state = "done" => Recognised(task.out, store, added)
  BY DEF AddedInv
<1>2. \A items, made : Recognised(NoIndex, items, made)
  BY DEF Recognised, NoIndex
<1>3. CASE Worker /\ RunCreate
  <2>1. PICK made :
           /\ \A i \in Items :
                 store'[i] = store[i] \/ \E u \in made : store'[i] = NewBasemap(task.portal, u)
           /\ task'.kind = task.kind
           /\ task'.state = "done" \/ (task'.state = "failed" /\ (made = {} \/ May("lost")))
    BY <1>3, CreateMakes
  <2>2. task.kind \in {"create", "bulk"} /\ task.state = "sent" /\ ~Making
        /\ added' = added /\ index' = index /\ dlg' = dlg
    BY <1>3 DEF Worker, RunCreate, Making
  <2>3. SUFFICES ASSUME dlg = "open", task'.state = "failed" PROVE Recognised(index, store', added)
    BY <2>1, <2>2 DEF Making
  <2>4. Recognised(index, store, added)
    BY <1>1, <2>2, <2>3
  <2>5. CASE made = {}
    <3>1. \A p, u : OnPortal(p, u, store') => OnPortal(p, u, store)
      BY <2>1, <2>5 DEF OnPortal
    <3> QED
      BY <2>4, <3>1 DEF Recognised
  <2>6. CASE May("lost")
    <3>1. \A p, u : <<p, u>> \in added => OnPortal(p, u, store)
      BY <2>6 DEF AddedInv
    <3> QED
      BY <2>4, <3>1 DEF Recognised
  <2> QED
    BY <2>1, <2>3, <2>5, <2>6
<1>4. CASE Worker /\ RunFetchIndex
  <2>1. store' = store /\ added' = added /\ task.kind = "index"
        /\ \E state, out : Finish(state, out)
    BY <1>4 DEF Worker, RunFetchIndex
  <2>2. \/ Finish("failed", None)
        \/ \E readable : Finish("done", PortalIndexOf(store, task.portal, TileLayersOn(canvas), readable))
    BY <1>4 DEF RunFetchIndex
  <2>3. task'.kind = "index"
    BY <2>1 DEF Finish, MapsInv, TaskInv
  <2>4. ASSUME NEW out, Finish("done", out) PROVE task'.out = out
    BY <2>4 DEF Finish, MapsInv, TaskInv
  <2>5. Finish("failed", None) => task'.state = "failed"
    BY DEF Finish, MapsInv, TaskInv
  <2>6. task'.state = "done" => Recognised(task'.out, store, added)
    BY <2>2, <2>4, <2>5, FetchedAll
  <2> QED
    BY <2>1, <2>3, <2>6
<1>5. CASE IndexLanded
  <2>1. /\ index' = NewIndex /\ task' = NoTask /\ added' = added /\ store' = store
        /\ task.kind = "index"
    BY <1>5 DEF IndexLanded
  <2>2. task'.kind # "index"
    BY <2>1 DEF NoTask
  <2> QED
    BY <1>1, <1>2, <2>1, <2>2 DEF NewIndex
<1>6. CASE CreateLanded
  <2>1. CASE task.state = "done"
    <3>1. RefreshIndex(chosen)
      BY <1>6, <2>1 DEF CreateLanded, ReIndex
    <3> QED
      BY <1>2, <3>1, Refreshed
  <2>2. CASE task.state # "done"
    <3>1. /\ task' = NoTask /\ index' = index /\ added' = added /\ store' = store
          /\ dlg = "open" /\ task.kind \in {"create", "bulk"}
      BY <1>6, <2>2 DEF CreateLanded
    <3>2. ~Making /\ task'.kind = "none"
      BY <2>2, <3>1 DEF NoTask, Making
    <3> QED
      BY <1>1, <3>1, <3>2
  <2> QED
    BY <2>1, <2>2
<1>7. CASE /\ ~(Worker /\ RunCreate) /\ ~(Worker /\ RunFetchIndex)
           /\ ~IndexLanded /\ ~CreateLanded
  <2>1. /\ added' = added
        /\ task' = task \/ ~(task'.kind \in {"index", "create", "bulk"} /\ task'.state = "done")
        /\ dlg' = "open" /\ task'.kind # "index" =>
              \/ index' = NoIndex
              \/ index' = index /\ dlg = "open" /\ (task' = task \/ task.kind \in {"none", "publish"})
    BY <1>7, OtherSteps
  <2>2. ASSUME task'.kind = "index", task'.state = "done" PROVE Recognised(task'.out, store', added')
    <3>1. task' = task
      BY <2>1, <2>2
    <3> QED
      BY <1>1, <1>7, <2>1, <2>2, <3>1, RecognisedStays
  <2>3. ASSUME dlg' = "open", task'.kind # "index", ~Making' PROVE Recognised(index', store', added')
    <3>1. CASE index' = NoIndex
      BY <1>2, <3>1
    <3>2. CASE index' = index /\ dlg = "open" /\ (task' = task \/ task.kind \in {"none", "publish"})
      <4>1. task.kind # "index" /\ ~Making
        BY <2>3, <3>2 DEF Making
      <4> QED
        BY <1>1, <1>7, <2>1, <3>2, <4>1, RecognisedStays
    <3> QED
      BY <2>1, <2>3, <3>1, <3>2
  <2> QED
    BY <2>2, <2>3
<1> QED
  BY <1>3, <1>4, <1>5, <1>6, <1>7

LEMMA AddedStep == MapsInv /\ AddedInv /\ [Next]_vars => AddedInv'
<1> SUFFICES ASSUME MapsInv, AddedInv, [Next]_vars PROVE AddedInv'
  OBVIOUS
<1>1. (May("delete")' <=> May("delete")) /\ (May("lost")' <=> May("lost"))
  BY EnvStays DEF May
<1> QED
  BY <1>1, KnownStep, RecognisedStep DEF AddedInv

LEMMA AddedInit == Init => AddedInv /\ TemplatesInv
<1>1. ToSet(<<>>) = {}
  BY DEF ToSet
<1> QED
  BY <1>1 DEF Init, AddedInv, TemplatesInv, Templates, NoOpening, NoTask, Making

\* Once an index has come back, a row for a basemap the dialog has made on this
\* portal is no longer among the skipped, unless items may be deleted and answers
\* lost: then a copy may be left that no answer told of, made after the index.
THEOREM AddedIsFound ==
    Spec => [](~({"delete", "lost"} \subseteq env) => AddedIsRecognised)
<1>1. MapsInv /\ AddedInv /\ TemplatesInv /\ ~({"delete", "lost"} \subseteq env) => AddedIsRecognised
  <2> SUFFICES ASSUME MapsInv, AddedInv, TemplatesInv, ~({"delete", "lost"} \subseteq env),
                      dlg = "open", ~busy, index.of = chosen, chosen # None,
                      NEW l \in ToSet(translation.skipped),
                      Hint(l) = "basemap", <<chosen, l.src.url>> \in added,
                      NEW i \in Items, store[i].portal = chosen, store[i].kind = "basemap",
                      store[i].url = l.src.url, store[i].live
               PROVE  FALSE
    BY DEF AddedIsRecognised
  <2>1. l.src.shape = "xyz"
    BY DEF Hint
  <2>2. IsSequence(drawn) /\ translation.skipped = Skipped(drawn, index)
    BY DEF MapsInv, DrawnInv
  <2> DEFINE left == {d \in ToSet(drawn) : ~Resolves(d, index) /\ BasemapFor(d, index) = None}
  <2>3. l \in ToSet(drawn) /\ l \in left
    <3>1. translation.skipped = Only(drawn, left)
      BY <2>2 DEF Skipped
    <3> HIDE DEF left
    <3>2. l \in ToSet(drawn) \cap left
      BY <2>2, <3>1, OnlySequence
    <3> QED
      BY <3>2
  <2>4. l.origin = None /\ BasemapFor(l, index) = None /\ l.src.url # None
    BY <2>1, <2>3 DEF Resolves, TemplatesInv, Templates
  <2>5. ItemFor(index.basemaps, l.src.url) = None
    BY <2>1, <2>4 DEF BasemapFor
  <2>6. \A x \in index.basemaps : x.item \in Items /\ x.item # None
    BY NoneAssumption DEF MapsInv, IndexInv, IndexOf
  <2>7. ~\E x \in index.basemaps : x.url = l.src.url
    BY <2>5, <2>6 DEF ItemFor
  <2>8. task.kind = "none"
    BY DEF MapsInv, TaskInv
  <2>9. Recognised(index, store, added)
    BY <2>8 DEF AddedInv, May, Making
  <2>10. OnPortal(chosen, l.src.url, store)
    BY DEF OnPortal
  <2> QED
    BY <2>4, <2>7, <2>9, <2>10 DEF Recognised
<1> QED
  BY <1>1, AddedInit, AddedStep, TemplatesStep, MapsInvariant, PTL DEF Spec

-----------------------------------------------------------------------------
(* Back to the reference                                                   *)

\* What a source is tied to it stays tied to.
LEMMA TiedKept ==
    ASSUME StoreKept, NEW src, NEW f, Tied(src, f, store)
    PROVE  Tied(src, f, store')
<1>1. TiedLayer(src, f, store) => TiedLayer(src, f, store')
  BY DEF TiedLayer, Named, StoreKept
<1> QED
  BY <1>1 DEF Tied

LEMMA AllTiedKept ==
    ASSUME StoreKept, NEW layers, AllTied(layers, store)
    PROVE  AllTied(layers, store')
BY TiedKept DEF AllTied

LEMMA ServicesStay ==
    ASSUME StoreKept, NEW ix, ServicesAt(ix, store)
    PROVE  ServicesAt(ix, store')
BY DEF ServicesAt, StoreKept

\* A layer from the tree is tied to its reference.
LEMMA TreeTied ==
    ASSUME NEW p \in Portals, NEW i \in Items, Has(store, p, i), NEW keyed,
           NEW src \in RoutedSources(p, i, store[i], keyed)
    PROVE  Tied(src, Reference(i, src), store)
<1>1. DrawsItem(src, i, store[i]) /\ store[i].portal # None
  BY Routed, NoneAssumption DEF Has
<1>2. \A id, kind, item, layer, url :
         LET e == DocEntry(id, kind, item, layer, url)
         IN e.kind = kind /\ e.item = item /\ e.layer = layer /\ e.url = url
  BY DEF DocEntry
<1>3. CASE store[i].kind = "data_layer"
  <2>1. Reference(i, src) = DocEntry(0, "data-layer", i, src.layer, None)
    BY <1>3 DEF Reference
  <2>2. src.shape \in LayerShapes /\ src.item = i
    BY <1>1, <1>3 DEF DrawsItem
  <2> QED
    BY <1>1, <1>2, <2>1, <2>2 DEF Tied, TiedLayer, Named
<1>4. CASE store[i].kind = "tile_layer"
  <2>1. Reference(i, src) = DocEntry(0, "tile", i, None, None)
    BY <1>4 DEF Reference
  <2>2. src.shape = "raster" /\ src.item = i
    BY <1>1, <1>4 DEF DrawsItem
  <2> QED
    BY <1>2, <2>1, <2>2 DEF Tied, TiedRaster
<1>5. CASE store[i].kind = "basemap"
  <2>1. Reference(i, src) = DocEntry(0, "basemap", i, None, None)
    BY <1>5 DEF Reference
  <2>2. src.shape = "xyz"
    BY <1>1, <1>5 DEF DrawsItem
  <2> QED
    BY <1>2, <2>1, <2>2 DEF Tied, TiedBasemap
<1>6. CASE store[i].kind \in {"FeatureServer", "MapServer"}
  <2>1. Reference(i, src) = DocEntry(0, store[i].kind, i, src.layer, src.url)
    BY <1>6 DEF Reference
  <2>2. src.shape = store[i].kind
    BY <1>1, <1>6 DEF DrawsItem
  <2> QED
    BY <1>2, <1>6, <2>1, <2>2 DEF Tied, TiedService
<1> QED
  BY <1>1, <1>3, <1>4, <1>5, <1>6 DEF DrawsItem

\* So is the twin of a tile layer.
LEMMA TwinTied ==
    ASSUME NEW src, src.shape \in {"tiles", "signed-tiles"}, NEW f, Tied(src, f, store)
    PROVE  Tied(feature_twin_uri(src), f, store)
<1>1. TiedLayer(src, f, store)
  BY DEF Tied, TiedRaster, TiedBasemap, TiedService
<1>2. /\ feature_twin_uri(src).shape \in LayerShapes
      /\ feature_twin_uri(src).item = src.item /\ feature_twin_uri(src).layer = src.layer
  BY Twins DEF LayerShapes
<1> QED
  BY <1>1, <1>2 DEF Tied, TiedLayer

\* Keeping everything changes nothing.
LEMMA OnlyAll == ASSUME NEW s, IsSequence(s) PROVE Only(s, ToSet(s)) = s
<1> DEFINE S == ToSet(s)
           P == {q \in Seq(S) : Only(q, S) = q}
<1>1. <<>> \in P
  BY OnlyOfNone
<1>2. ASSUME NEW q \in Seq(S), NEW x \in S, q \in P PROVE Append(q, x) \in P
  <2> HIDE DEF S
  <2>1. Only(Append(q, x), S) = Append(Only(q, S), x)
    BY OnlyAppend
  <2> QED
    BY <1>2, <2>1
<1> HIDE DEF P
<1>3. Seq(S) \subseteq P
  <2> HIDE DEF S
  <2> QED
    BY <1>1, <1>2, SequenceInduction
<1> QED
  BY <1>3 DEF P, IsSequence

\* The layer of an item that a reference finds is the one it names.
LEMMA MatchedIsNamed ==
    ASSUME NEW f, IsSequence(store[f.item].layers)
    PROVE  Named(MatchedLayer(store[f.item], f.layer).id, f, store)
<1> DEFINE s == store[f.item].layers
           wanted == {lyr \in ToSet(s) : f.layer \in {None, lyr.id}}
           matches == Only(s, wanted)
<1>1. MatchedLayer(store[f.item], f.layer) = IF matches = <<>> THEN ImplicitLayer ELSE matches[1]
  BY DEF MatchedLayer
<1>2. IsSequence(matches) /\ ToSet(matches) = ToSet(s) \cap wanted
  <2> HIDE DEF wanted
  <2> QED
    BY OnlySequence
<1>3. ImplicitLayer.id = None
  BY DEF ImplicitLayer
<1>4. CASE f.layer = None
  <2>1. wanted = ToSet(s)
    BY <1>4
  <2>2. matches = s
    BY <2>1, OnlyAll
  <2> HIDE DEF matches
  <2> QED
    BY <1>1, <1>3, <1>4, <2>2 DEF Named
<1>5. CASE f.layer # None /\ matches = <<>>
  <2>1. ToSet(matches) = {}
    BY <1>5 DEF ToSet
  <2> HIDE DEF matches
  <2>2. \A lyr \in ToSet(s) : lyr.id # f.layer
    BY <1>2, <2>1
  <2> QED
    BY <1>5, <2>2 DEF Named
<1>6. CASE f.layer # None /\ matches # <<>>
  <2> HIDE DEF matches
  <2>1. matches[1] \in ToSet(matches)
    BY <1>2, <1>6 DEF IsSequence
  <2>2. matches[1].id = f.layer
    BY <1>2, <1>6, <2>1
  <2> QED
    BY <1>1, <1>6, <2>2 DEF Named
<1> QED
  BY <1>4, <1>5, <1>6

\* And so are the layers of an opened map.
LEMMA PlanTied ==
    ASSUME MapsInv, OriginInv, FetchMap
    PROVE  \A x \in ToSet(opening'.plan) : Tied(x.src, x.entry, store)
<1>1. PICK doc, unread, referenced :
         /\ IsSequence(doc.entries)
         /\ (ToSet(doc.entries) = {} /\ doc.basemap = None) \/ doc = store[opening.item].doc
         /\ referenced = [i \in ReferencedItemIds(doc) |->
                             IF i \in unread THEN None ELSE Lookup(store, opening.portal, i)]
         /\ opening'.plan = PlanMapOpen(doc, referenced, opening.portal, Keyed)
  BY FetchPlans
<1>2. DocOK(doc)
  BY <1>1 DEF FetchMap, OriginInv, DocOK
<1> SUFFICES ASSUME NEW x \in ToSet(opening'.plan) PROVE Tied(x.src, x.entry, store)
  OBVIOUS
<1> DEFINE e == x.entry
<1>3. /\ x.src # None
      /\ \/ e \in ToSet(doc.entries) /\ x.src = PlanOne(e, referenced, opening.portal, Keyed)
         \/ /\ x.src = PlanBasemap(doc, referenced)
            /\ e = DocEntry(0, "basemap", doc.basemap, None, None)
  BY <1>1, Planned
<1>4. \A i \in ReferencedItemIds(doc) :
         referenced[i] # None =>
             i \in Items /\ store[i].portal # None /\ referenced[i] = store[i]
             /\ IsSequence(store[i].layers)
  BY <1>1 DEF Lookup, Has, MapsInv, StoreInv, ItemOK
<1>5. \A s, u, n : LET src == Outside(s, u, n) IN src.shape = s /\ src.url = u /\ src.layer = n
  BY DEF Outside
<1>6. CASE /\ x.src = PlanBasemap(doc, referenced)
           /\ e = DocEntry(0, "basemap", doc.basemap, None, None)
  <2>1. x.src.shape = "xyz"
    BY <1>3, <1>5, <1>6 DEF PlanBasemap
  <2>2. e.kind = "basemap"
    BY <1>6 DEF DocEntry
  <2> QED
    BY <2>1, <2>2 DEF Tied, TiedBasemap
<1>7. ASSUME e \in ToSet(doc.entries), x.src = PlanOne(e, referenced, opening.portal, Keyed)
      PROVE  Tied(x.src, e, store)
  <2>1. EntryOK(e)
    BY <1>2, <1>7 DEF DocOK
  <2>2. e.kind \in {"data-layer", "tile"} => e.item \in ReferencedItemIds(doc) /\ e.url = None
    BY <1>7, <2>1 DEF EntryOK, ReferencedItemIds
  <2>3. CASE e.kind = "data-layer" /\ referenced[e.item] # None
    <3> DEFINE lyr == MatchedLayer(store[e.item], e.layer)
    <3>1. /\ e.item \in Items /\ store[e.item].portal # None /\ referenced[e.item] = store[e.item]
          /\ IsSequence(store[e.item].layers)
      BY <1>4, <2>2, <2>3
    <3>2. x.src = DataLayerSource(e.item, e.layer, store[e.item], opening.portal, Keyed)
      BY <1>7, <2>3, <3>1 DEF PlanOne
    <3>3. \/ x.src = FeaturesUri(opening.portal, e.item, store[e.item], lyr.id, Keyed)
          \/ x.src = SpatialSublayerUri(opening.portal, e.item, store[e.item], lyr.id, Keyed)
      BY <3>2 DEF DataLayerSource
    <3>4. x.src.shape \in LayerShapes /\ x.src.item = e.item /\ x.src.layer = lyr.id
      BY <3>3, LayerSources
    <3>5. Named(lyr.id, e, store)
      BY <3>1, MatchedIsNamed
    <3> HIDE DEF lyr, e
    <3> QED
      BY <2>2, <2>3, <3>1, <3>4, <3>5 DEF Tied, TiedLayer
  <2>4. CASE e.kind = "tile" /\ referenced[e.item] # None
    <3>1. x.src.shape = "raster" /\ x.src.item = e.item
      BY <1>7, <2>4 DEF PlanOne, tile_layer_xyz_uri, Source
    <3> QED
      BY <2>1, <2>4, <3>1 DEF EntryOK, Tied, TiedRaster
  <2>5. CASE e.kind = "FeatureServer"
    <3>1. x.src = Outside("FeatureServer", e.url, e.layer)
      BY <1>7, <2>5 DEF PlanOne
    <3> QED
      BY <1>5, <2>5, <3>1 DEF Tied, TiedService
  <2>6. CASE e.kind = "MapServer"
    <3>1. x.src = Outside("MapServer-by-layer", e.url, e.layer)
      BY <1>7, <2>6 DEF PlanOne
    <3> QED
      BY <1>5, <2>6, <3>1 DEF Tied, TiedService
  <2> QED
    BY <1>3, <1>7, <2>3, <2>4, <2>5, <2>6 DEF PlanOne
<1> QED
  BY <1>3, <1>6, <1>7

-----------------------------------------------------------------------------
(* The references, step by step                                            *)

\* While there is no dialog, an item only ever goes.
LEMMA BeforeTheDialog ==
    ASSUME MapsInv, [Next]_vars, dlg' = "none"
    PROVE  dlg = "none" /\ (store' = store \/ \E i \in Items : DeleteItem(i))
<1>1. dlg = "none" => task.kind = "none"
  BY DEF MapsInv, TaskInv
<1>2. CASE Worker
  BY <1>1, <1>2 DEF Worker, RunFetchIndex, RunCreate, RunPublish
<1>3. CASE Callback
  BY <1>3 DEF Callback, CallbackWhenClosed, IndexLanded, CreateLanded, PublishLanded
<1>4. CASE OpenMapStep \/ UNCHANGED vars
  BY <1>4 DEF OpenMapStep, FetchMap, BuildMap, vars, dialogVars
<1>5. CASE User
  BY <1>5
     DEF User, AddFromBrowser, LaunchOpenMap, AddFeatureTwin, AddOutside, OpenDialog, ChoosePortal, Tick,
         AddBasemap, BulkAddMissing, PublishLocal, PressPublish, Close, DeleteItem, RemoveConnection,
         dialogVars
<1> QED
  BY <1>2, <1>3, <1>4, <1>5 DEF Next

LEMMA MapsStaySound ==
    ASSUME MapsInv, OriginInv, [Next]_vars, dlg' = "none"
    PROVE  \A i \in Items : store'[i].kind = "map" => DocOK(store'[i].doc)
<1> SUFFICES ASSUME NEW i \in Items, store'[i].kind = "map" PROVE DocOK(store'[i].doc)
  OBVIOUS
<1>1. dlg = "none" /\ (store' = store \/ \E k \in Items : DeleteItem(k))
  BY BeforeTheDialog
<1>2. store[i].kind = "map" => DocOK(store[i].doc)
  BY <1>1 DEF OriginInv
<1>3. store'[i] = store[i] \/ store[i].portal # None
  <2>1. ASSUME NEW k \in Items, DeleteItem(k) PROVE store'[i] = store[i] \/ store[i].portal # None
    <3>1. store' = [store EXCEPT ![k].live = FALSE] /\ store[k].live /\ ItemOK(store[k])
      BY <2>1 DEF DeleteItem, MapsInv, StoreInv
    <3> QED
      BY <3>1 DEF MapsInv, StoreInv, ItemOK
  <2> QED
    BY <1>1, <2>1
<1>4. StoreKept
  BY StoreStep
<1> QED
  BY <1>2, <1>3, <1>4 DEF StoreKept

\* The map that is being opened is sound, and so is what was planned of it.
LEMMA OpeningTied ==
    ASSUME MapsInv, OriginInv, [Next]_vars
    PROVE  /\ opening'.state = "sent" => DocOK(store'[opening'.item].doc)
           /\ \A x \in ToSet(opening'.plan) : Tied(x.src, x.entry, store')
<1>1. StoreKept
  BY StoreStep
<1>2. CASE opening' = opening
  <2>1. opening.state = "sent" => DocOK(store'[opening.item].doc)
    <3> SUFFICES ASSUME opening.state = "sent" PROVE DocOK(store'[opening.item].doc)
      OBVIOUS
    <3>1. DocOK(store[opening.item].doc) /\ opening.item \in Items /\ store[opening.item].portal # None
      BY DEF OriginInv, MapsInv, OpeningInv
    <3>2. store'[opening.item].doc = store[opening.item].doc
      BY <1>1, <3>1 DEF StoreKept
    <3> QED
      BY <3>1, <3>2
  <2>2. \A x \in ToSet(opening.plan) : Tied(x.src, x.entry, store')
    BY <1>1, TiedKept DEF OriginInv
  <2> QED
    BY <1>2, <2>1, <2>2
<1>3. CASE FetchMap /\ UNCHANGED store
  <2>1. opening'.state = "planned"
    BY <1>3, FetchPlans
  <2>2. \A x \in ToSet(opening'.plan) : Tied(x.src, x.entry, store')
    BY <1>3, PlanTied
  <2> QED
    BY <2>1, <2>2
<1>4. CASE /\ ToSet(opening'.plan) = {}
           /\ \/ opening'.state = "none"
              \/ /\ opening'.state = "sent" /\ dlg = "none" /\ UNCHANGED store
                 /\ opening'.item \in Items /\ store[opening'.item].kind = "map"
  BY <1>4 DEF OriginInv
<1> QED
  BY <1>2, <1>3, <1>4, OpeningLeft

LEMMA CanvasTied ==
    ASSUME MapsInv, OriginInv, [Next]_vars
    PROVE  AllTied(ToSet(canvas'), store')
<1>1. StoreKept
  BY StoreStep
<1>2. \A src, f : Tied(src, f, store) => src.shape # "local-raster"
  BY DEF Tied, TiedLayer, TiedRaster, TiedBasemap, TiedService, LayerShapes
<1>3. \A k \in ToSet(canvas) : k.from # None => k.origin = None /\ Tied(k.src, k.from.entry, store)
  BY DEF OriginInv, AllTied
<1> SUFFICES ASSUME NEW l \in ToSet(canvas'), l.from # None
             PROVE  l.origin = None /\ Tied(l.src, l.from.entry, store)
  BY <1>1, TiedKept DEF AllTied
<1>4. Explained(l)
  BY CanvasFrom
<1>5. CASE WasThere(l)
  BY <1>2, <1>3, <1>5 DEF WasThere
<1>6. CASE FromTheTree(l)
  <2>1. PICK p \in Portals, i \in Items :
           /\ Has(store, p, i) /\ l.src \in RoutedSources(p, i, store[i], Keyed)
           /\ l.origin = None /\ l.from = [portal |-> p, entry |-> Reference(i, l.src)]
    BY <1>6 DEF FromTheTree
  <2>2. Tied(l.src, Reference(i, l.src), store)
    BY <2>1, TreeTied
  <2>3. l.from.entry = Reference(i, l.src)
    BY <2>1
  <2> QED
    BY <2>1, <2>2, <2>3
<1>7. CASE IsTwin(l)
  <2>1. PICK k \in ToSet(canvas) :
           /\ k.src.shape \in {"tiles", "signed-tiles"} /\ l.src = feature_twin_uri(k.src)
           /\ l.origin = None /\ l.from = k.from
    BY <1>7 DEF IsTwin
  <2> QED
    BY <1>3, <2>1, TwinTied
<1>8. CASE FromElsewhere(l)
  BY <1>8 DEF FromElsewhere
<1>9. CASE FromTheMap(l)
  <2>1. PICK x \in ToSet(opening.plan) :
           /\ l.src = x.src /\ l.origin = None
           /\ l.from = [portal |-> opening.portal, entry |-> x.entry]
    BY <1>9 DEF FromTheMap
  <2>2. l.from.entry = x.entry
    BY <2>1
  <2> QED
    BY <2>1, <2>2 DEF OriginInv
<1> QED
  BY <1>4, <1>5, <1>6, <1>7, <1>8, <1>9 DEF Explained

\* An index names each service where it is.
LEMMA FetchedServices ==
    ASSUME NEW p \in Portals, NEW tiles, NEW readable, NEW ix, ix = PortalIndexOf(store, p, tiles, readable)
    PROVE  ServicesAt(ix, store)
<1> DEFINE of(kinds) == {i \in Items : Has(store, p, i) /\ store[i].kind \in kinds /\ store[i].url # None}
<1>1. ix.services = {[url |-> store[i].url, kind |-> store[i].kind, item |-> i] :
                        i \in of({"FeatureServer", "MapServer"})}
  BY DEF PortalIndexOf
<1>2. \A kinds : \A i \in of(kinds) : i \in Items /\ store[i].portal # None /\ store[i].url # None
  BY NoneAssumption DEF Has
<1> HIDE DEF of
<1> QED
  BY <1>1, <1>2 DEF ServicesAt

LEMMA ServicesTied ==
    ASSUME MapsInv, OriginInv, [Next]_vars
    PROVE  /\ ServicesAt(index', store')
           /\ task'.kind = "index" /\ task'.state = "done" => ServicesAt(task'.out, store')
<1>1. /\ ServicesAt(index, store')
      /\ task.kind = "index" /\ task.state = "done" => ServicesAt(task.out, store')
  BY StoreStep, ServicesStay DEF OriginInv
<1>2. ServicesAt(NoIndex, store')
  BY DEF ServicesAt, NoIndex
<1>3. index' = index \/ index' = NoIndex
         \/ (task.kind = "index" /\ task.state = "done" /\ index' = task.out)
  <2>1. \A p : RefreshIndex(p) => index' = index \/ index' = NoIndex
    BY DEF RefreshIndex
  <2>2. CASE Worker \/ OpenMapStep \/ UNCHANGED vars
    BY <2>2 DEF Worker, OpenMapStep, FetchMap, BuildMap, vars, dialogVars
  <2>3. CASE Callback
    BY <2>1, <2>3 DEF Callback, CallbackWhenClosed, IndexLanded, NewIndex, CreateLanded, ReIndex, PublishLanded
  <2>4. CASE User
    BY <2>1, <2>4
       DEF User, AddFromBrowser, LaunchOpenMap, AddFeatureTwin, AddOutside, OpenDialog, ChoosePortal, Tick,
           AddBasemap, BulkAddMissing, PublishLocal, PressPublish, Close, DeleteItem, RemoveConnection,
           dialogVars
  <2> QED
    BY <2>2, <2>3, <2>4 DEF Next
<1>4. ASSUME task'.kind = "index", task'.state = "done" PROVE ServicesAt(task'.out, store')
  <2>1. CASE Worker /\ RunCreate
    <3>1. task.kind \in {"create", "bulk"} /\ \E state, out : Finish(state, out)
      BY <2>1 DEF RunCreate
    <3>2. task'.kind = task.kind
      BY <3>1 DEF Finish, MapsInv, TaskInv
    <3> QED
      BY <1>4, <3>1, <3>2
  <2>2. CASE Worker /\ RunFetchIndex
    <3>1. task.portal \in Portals /\ store' = store
      BY <2>2 DEF RunFetchIndex, MapsInv, TaskInv
    <3>2. \/ Finish("failed", None)
          \/ \E readable : Finish("done", PortalIndexOf(store, task.portal, TileLayersOn(canvas), readable))
      BY <2>2 DEF RunFetchIndex
    <3>3. ASSUME NEW out, Finish("done", out) PROVE task'.out = out
      BY <3>3 DEF Finish, MapsInv, TaskInv
    <3>4. Finish("failed", None) => task'.state = "failed"
      BY DEF Finish, MapsInv, TaskInv
    <3> QED
      BY <1>4, <3>1, <3>2, <3>3, <3>4, FetchedServices
  <2>3. CASE IndexLanded
    BY <1>4, <2>3 DEF IndexLanded, NoTask
  <2>4. CASE CreateLanded
    <3>1. task' = NoTask \/ RefreshIndex(chosen)
      BY <2>4 DEF CreateLanded, ReIndex
    <3> QED
      BY <1>4, <3>1, Refreshed DEF NoTask
  <2>5. CASE /\ ~(Worker /\ RunCreate) /\ ~(Worker /\ RunFetchIndex)
             /\ ~IndexLanded /\ ~CreateLanded
    <3>1. task' = task
      BY <1>4, <2>5, OtherSteps
    <3> QED
      BY <1>1, <1>4, <3>1
  <2> QED
    BY <2>1, <2>2, <2>3, <2>4, <2>5
<1> QED
  BY <1>1, <1>2, <1>3, <1>4

LEMMA OriginStep == MapsInv /\ OriginInv /\ [Next]_vars => OriginInv'
BY MapsStaySound, OpeningTied, CanvasTied, ServicesTied DEF OriginInv

LEMMA OriginInit == Init => OriginInv /\ SentInv
<1>1. ToSet(<<>>) = {}
  BY DEF ToSet
<1>2. Init => \A i \in Items : store[i].kind = "map" => DocOK(store[i].doc)
  BY SeedsAssumption DEF Init
<1> QED
  BY <1>1, <1>2 DEF Init, OriginInv, SentInv, Pressed, AllTied, ServicesAt, NoOpening, NoTask, NoIndex

-----------------------------------------------------------------------------
(* The map that is published                                               *)

\* A translation has an entry for each layer that resolves, and a basemap if
\* there is one.
LEMMA TranslatesAll ==
    ASSUME NEW s, IsSequence(s), NEW ix, NEW view, NEW l \in ToSet(s)
    PROVE  /\ Resolves(l, ix) => EntryFor(l, ix) \in ToSet(Translate(s, ix, view).entries)
           /\ BasemapFor(l, ix) # None => Translate(s, ix, view).basemap # None
<1> DEFINE resolving == {d \in ToSet(s) : Resolves(d, ix)}
           based == {d \in ToSet(s) : BasemapFor(d, ix) # None}
           kept == Only(s, resolving)
           bases == Only(s, based)
           all == [k \in DOMAIN kept |-> EntryFor(kept[k], ix)]
<1>1. /\ Translate(s, ix, view).entries = all
      /\ Translate(s, ix, view).basemap = IF bases = <<>> THEN None ELSE BasemapFor(bases[1], ix)
  BY DEF Translate, MapDoc, Included, BasemapsOf
<1>2. /\ IsSequence(kept) /\ ToSet(kept) = ToSet(s) \cap resolving
      /\ IsSequence(bases) /\ ToSet(bases) = ToSet(s) \cap based
  <2> HIDE DEF resolving, based
  <2> QED
    BY OnlySequence
<1>3. ASSUME Resolves(l, ix) PROVE EntryFor(l, ix) \in ToSet(all)
  <2>1. l \in ToSet(kept)
    BY <1>2, <1>3
  <2> HIDE DEF kept
  <2>2. PICK k \in DOMAIN kept : kept[k] = l
    BY <2>1 DEF ToSet
  <2>3. k \in DOMAIN all /\ all[k] = EntryFor(l, ix)
    BY <2>2
  <2> HIDE DEF all
  <2> QED
    BY <2>3 DEF ToSet
<1>4. ASSUME BasemapFor(l, ix) # None
      PROVE  bases # <<>> /\ BasemapFor(bases[1], ix) # None
  <2>1. l \in ToSet(bases)
    BY <1>2, <1>4
  <2>2. \A d \in ToSet(bases) : BasemapFor(d, ix) # None
    BY <1>2
  <2> HIDE DEF bases
  <2>3. bases # <<>>
    BY <2>1 DEF ToSet
  <2>4. bases[1] \in ToSet(bases)
    BY <1>2, <2>3 DEF IsSequence
  <2> QED
    BY <2>2, <2>3, <2>4
<1> HIDE DEF all, bases
<1> QED
  BY <1>1, <1>3, <1>4

LEMMA SentStep == MapsInv /\ OriginInv /\ SentInv /\ [Next]_vars => SentInv'
<1> SUFFICES ASSUME MapsInv, OriginInv, SentInv, [Next]_vars PROVE SentInv'
  OBVIOUS
<1>1. CASE sent' = sent
  <2>1. StoreKept
    BY StoreStep
  <2> SUFFICES ASSUME Pressed PROVE SentInv'
    BY <1>1 DEF SentInv, Pressed
  <2>2. /\ AllTied(sent.layers, store) /\ ServicesAt(sent.index, store)
        /\ \A l \in sent.layers : Carried(l)
        /\ \A x \in sent.index.basemaps : x.item \in Items
    BY DEF SentInv
  <2>3. AllTied(sent.layers, store') /\ ServicesAt(sent.index, store')
    BY <2>1, <2>2, AllTiedKept, ServicesStay
  <2>4. \A l \in sent.layers : Carried(l)'
    BY <1>1, <2>2 DEF Carried
  <2> QED
    BY <1>1, <2>2, <2>3, <2>4 DEF SentInv
<1>2. CASE PressPublish
  <2>1. PICK keep, kept :
           /\ keep = {l \in ToSet(canvas) : l.id \notin excluded}
           /\ IsSequence(kept) /\ ToSet(kept) = ToSet(canvas) \cap keep
           /\ sent' = [doc |-> Translate(kept, index, View), on |-> chosen, drawn |-> drawn = canvas,
                       shown |-> translation.doc, unticked |-> unticked, index |-> index,
                       layers |-> ToSet(canvas)]
    BY <1>2, Taken
  <2> DEFINE doc == Translate(kept, index, View)
  <2>2. \A l \in ToSet(kept) :
           /\ Resolves(l, index) => EntryFor(l, index) \in ToSet(doc.entries)
           /\ BasemapFor(l, index) # None => doc.basemap # None
    BY <2>1, TranslatesAll
  <2>3. sent'.doc = doc /\ sent'.unticked = unticked /\ sent'.index = index /\ sent'.layers = ToSet(canvas)
    BY <2>1
  <2> HIDE DEF doc
  <2>4. unticked = excluded /\ store' = store
    BY <1>2 DEF PressPublish, MapsInv, TickInv
  <2>5. \A l \in ToSet(canvas) : Carried(l)'
    <3> SUFFICES ASSUME NEW l \in ToSet(canvas), l.id \notin excluded
                 PROVE  /\ Resolves(l, index) => EntryFor(l, index) \in ToSet(doc.entries)
                        /\ BasemapFor(l, index) # None => doc.basemap # None
      BY <2>3, <2>4 DEF Carried
    <3>1. l \in ToSet(kept)
      BY <2>1
    <3> QED
      BY <2>2, <3>1
  <2>6. AllTied(ToSet(canvas), store) /\ ServicesAt(index, store)
    BY DEF OriginInv
  <2>7. \A x \in index.basemaps : x.item \in Items
    BY DEF MapsInv, IndexInv, IndexOf
  <2> QED
    BY <2>3, <2>4, <2>5, <2>6, <2>7 DEF SentInv
<1> QED
  BY <1>1, <1>2, SentLeft

\* What is tied to its reference and was carried comes back as that reference.
LEMMA TiedComesBack ==
    ASSUME SentInv, Pressed, NEW l \in Returning,
           l.src.shape \notin {"signed-features", "MapServer-by-layer"}, ~Dangling(l.from.entry)
    PROVE  ComesBack(l)
<1> DEFINE f == l.from.entry
           ix == sent.index
<1>1. /\ l \in sent.layers /\ l.from # None /\ l.id \notin sent.unticked
      /\ f.kind = "tile" => f.item \in ix.tiles
      /\ f.kind = "basemap" => \E b \in ix.basemaps : b.url = l.src.url
      /\ f.kind \in {"FeatureServer", "MapServer"} =>
            /\ l.src.layer # None
            /\ \E s \in ix.services : s.kind = l.src.shape /\ s.url = l.src.url
  BY DEF Returning
<1>2. l.origin = None /\ Tied(l.src, f, store)
  BY <1>1 DEF SentInv, AllTied
<1>3. /\ Resolves(l, ix) => EntryFor(l, ix) \in ToSet(sent.doc.entries)
      /\ BasemapFor(l, ix) # None => sent.doc.basemap # None
  BY <1>1 DEF SentInv, Carried
<1> DEFINE Back(e) == Resolves(l, ix) /\ EntryFor(l, ix) = e /\ e.id = l.id /\ SameReference(e, f)
<1>4. ASSUME f.kind # "basemap", NEW e, Back(e) PROVE ComesBack(l)
  BY <1>3, <1>4 DEF ComesBack
<1>5. \A id, kind, item, layer, url :
         LET e == DocEntry(id, kind, item, layer, url)
         IN e.id = id /\ e.kind = kind /\ e.item = item /\ e.layer = layer /\ e.url = url
  BY DEF DocEntry
<1> HIDE DEF f, ix
<1>6. CASE TiedLayer(l.src, f, store)
  <2> DEFINE e == DocEntry(l.id, "data-layer", l.src.item, l.src.layer, None)
  <2>1. /\ f.kind = "data-layer" /\ f.url = None /\ l.src.item = f.item /\ Named(l.src.layer, f, store)
        /\ l.src.shape \in {"features", "tiles", "signed-tiles"}
    BY <1>6 DEF TiedLayer, LayerShapes
  <2>2. parse_portal_layer_source(l.src) /\ ~parse_tile_layer_uri(l.src)
    BY <2>1 DEF parse_portal_layer_source, parse_oapif_uri, parse_vector_tile_uri, parse_tile_layer_uri
  <2>3. ~ResolvesAsService(l.src)
    BY <2>1 DEF ResolvesAsService
  <2>4. Resolves(l, ix) /\ EntryFor(l, ix) = e
    BY <1>2, <2>2, <2>3 DEF Resolves, EntryFor
  <2>5. e.id = l.id /\ e.kind = f.kind /\ e.item = f.item /\ e.url = f.url /\ e.layer = l.src.layer
    BY <1>5, <2>1
  <2> HIDE DEF e
  <2>6. SameItem(e, f)
    BY <2>5 DEF SameItem
  <2>7. \/ l.src.layer = f.layer
        \/ f.layer = None /\ store[f.item].layers # <<>> /\ l.src.layer = store[f.item].layers[1].id
    BY <2>1 DEF Named, Dangling, f
  <2>8. SameReference(e, f)
    BY <2>1, <2>5, <2>6, <2>7 DEF SameReference
  <2> QED
    BY <1>4, <2>1, <2>4, <2>5, <2>8
<1>7. CASE TiedRaster(l.src, f)
  <2> DEFINE e == DocEntry(l.id, "tile", l.src.item, None, None)
  <2>1. f.kind = "tile" /\ l.src.shape = "raster" /\ l.src.item = f.item /\ f.layer = None /\ f.url = None
    BY <1>7 DEF TiedRaster
  <2>2. parse_tile_layer_uri(l.src) /\ ~parse_portal_layer_source(l.src) /\ ~ResolvesAsService(l.src)
    BY <2>1 DEF parse_portal_layer_source, parse_oapif_uri, parse_vector_tile_uri, parse_tile_layer_uri,
                ResolvesAsService
  <2>3. Resolves(l, ix) /\ EntryFor(l, ix) = e
    BY <1>1, <1>2, <2>1, <2>2 DEF Resolves, EntryFor
  <2>4. e.id = l.id /\ e.kind = f.kind /\ e.item = f.item /\ e.url = f.url /\ e.layer = f.layer
    BY <1>5, <2>1
  <2> HIDE DEF e
  <2>5. SameReference(e, f)
    BY <2>4 DEF SameReference, SameItem
  <2> QED
    BY <1>4, <2>1, <2>3, <2>4, <2>5
<1>8. CASE TiedBasemap(l.src, f)
  <2>1. f.kind = "basemap" /\ l.src.shape = "xyz"
    BY <1>8 DEF TiedBasemap
  <2>2. \E b \in ix.basemaps : b.url = l.src.url
    BY <1>1, <2>1
  <2>3. \A b \in ix.basemaps : b.item # None
    BY NoneAssumption DEF SentInv, ix
  <2>4. ItemFor(ix.basemaps, l.src.url) # None
    BY <2>2, <2>3 DEF ItemFor
  <2>5. BasemapFor(l, ix) # None
    BY <1>2, <2>1, <2>4 DEF BasemapFor
  <2> QED
    BY <1>3, <2>1, <2>5 DEF ComesBack, f
<1>9. CASE TiedService(l.src, f)
  <2> DEFINE i == ServiceItem(l.src, ix)
             e == DocEntry(l.id, l.src.shape, i, l.src.layer, l.src.url)
             named == {x \in ix.services : x.kind = l.src.shape}
  <2>1. /\ f.kind \in {"FeatureServer", "MapServer"} /\ l.src.shape = f.kind
        /\ l.src.layer = f.layer /\ l.src.url = f.url
    BY <1>9 DEF TiedService
  <2>2. l.src.layer # None /\ \E s \in ix.services : s.kind = l.src.shape /\ s.url = l.src.url
    BY <1>1, <2>1
  <2>3. ~parse_tile_layer_uri(l.src) /\ ~parse_portal_layer_source(l.src) /\ ResolvesAsService(l.src)
    BY <2>1, <2>2 DEF parse_portal_layer_source, parse_oapif_uri, parse_vector_tile_uri,
                      parse_tile_layer_uri, ResolvesAsService
  <2>4. Resolves(l, ix) /\ EntryFor(l, ix) = e
    BY <1>2, <2>3 DEF Resolves, EntryFor
  <2>5. \E x \in ix.services : i = x.item /\ x.url = l.src.url
    <3>1. i = ItemFor(named, l.src.url)
      BY DEF ServiceItem
    <3>2. \E x \in named : x.url = l.src.url
      BY <2>2
    <3>3. \A x \in named : x \in ix.services
      OBVIOUS
    <3> HIDE DEF named, i
    <3> QED
      BY <3>1, <3>2, <3>3 DEF ItemFor
  <2> HIDE DEF i
  <2>6. i # None /\ store[i].url = f.url /\ f.url # None
    BY <2>1, <2>5, NoneAssumption DEF SentInv, ServicesAt, ix
  <2>7. e.id = l.id /\ e.kind = f.kind /\ e.item = i /\ e.url = f.url /\ e.layer = f.layer
    BY <1>5, <2>1
  <2> HIDE DEF e
  <2>8. SameReference(e, f)
    BY <2>6, <2>7 DEF SameReference, SameItem
  <2>9. f.kind # "basemap"
    BY <2>1
  <2> QED
    BY <1>4, <2>4, <2>7, <2>8, <2>9
<1> QED
  BY <1>2, <1>6, <1>7, <1>8, <1>9 DEF Tied

\* What comes from the portal goes back as the same reference: every layer dragged
\* from the tree, its twin or opened with a map, on any canvas, whatever was made
\* or deleted since, but for signed-in features, map services of an opened map and
\* references to a sublayer that is not there.
THEOREM ReferencesReturn == Spec => []ReferencesComeBack
<1>1. SentInv => ReferencesComeBack
  BY TiedComesBack DEF ReferencesComeBack
<1> QED
  BY <1>1, OriginInit, OriginStep, SentStep, MapsInvariant, PTL DEF Spec

=============================================================================

------------------------- MODULE ConversationProofs -------------------------
(***************************************************************************)
(* Lemmas about the functions that cut, clean and repair a history: what   *)
(* they leave comes from what they were given, in its order, and begins    *)
(* with a message of the user.                                             *)
(***************************************************************************)
EXTENDS Conversation, FiniteSetTheorems, SequenceTheorems, TLAPS

(* Picking places: the n-th of them is an increasing enumeration. *)
LEMMA NthEnumerates ==
  ASSUME NEW m \in Nat, NEW S \in SUBSET (1..m)
  PROVE  /\ Cardinality(S) \in 0..m
         /\ \A n \in 1..Cardinality(S) :
              /\ Nth(S, n) \in S
              /\ n <= Nth(S, n)
              /\ \A l \in 1..Cardinality(S) : l < n => Nth(S, l) < Nth(S, n)
         /\ \A k \in S : \E n \in 1..Cardinality(S) : Nth(S, n) = k
<1> DEFINE Upto(k) == {j \in S : j <= k}
           rank == [k \in S |-> Cardinality(Upto(k))]
           N == Cardinality(S)
<1>0. \A k \in S : k \in Nat /\ 1 <= k /\ k <= m
  OBVIOUS
<1>1. IsFiniteSet(1..m) /\ Cardinality(1..m) = m
  BY FS_Interval, 0 <= m
<1>2. IsFiniteSet(S) /\ N \in Nat /\ N <= m
  BY <1>1, FS_Subset, FS_CardinalityType
<1>3. ASSUME NEW k \in S PROVE IsFiniteSet(Upto(k)) /\ rank[k] \in 1..N /\ rank[k] <= k
  <2>1. IsFiniteSet(Upto(k)) /\ Cardinality(Upto(k)) <= N
    BY <1>2, FS_Subset
  <2>2. Cardinality(Upto(k)) # 0
    BY <2>1, FS_EmptySet, k \in Upto(k)
  <2>3. IsFiniteSet(1..k) /\ Cardinality(1..k) = k
    BY <1>0, FS_Interval, 0 <= k
  <2>4. Upto(k) \subseteq 1..k
    <3>1. ASSUME NEW j \in Upto(k) PROVE j \in 1..k
      <4>1. j \in S /\ j <= k  OBVIOUS
      <4>2. j \in Nat /\ 1 <= j /\ k \in Nat  BY <4>1, <1>0
      <4>3. QED  BY ONLY <4>1, <4>2
    <3>2. QED  BY <3>1
  <2>5. Cardinality(Upto(k)) <= k
    BY <2>3, <2>4, FS_Subset
  <2>6. QED  BY <2>1, <2>2, <2>5, <1>2, FS_CardinalityType
<1>4. ASSUME NEW k \in S, NEW l \in S, k < l PROVE rank[k] < rank[l]
  <2>1. Upto(k) \subseteq Upto(l) /\ Upto(k) # Upto(l)
    <3>1. l \in Upto(l) /\ l \notin Upto(k)
      BY <1>4
    <3>2. \A j \in Upto(k) : j \in Upto(l)
      BY <1>0, <1>4
    <3>3. QED  BY <3>1, <3>2
  <2>2. IsFiniteSet(Upto(l)) /\ Cardinality(Upto(k)) \in Nat /\ Cardinality(Upto(l)) \in Nat
    BY <1>3
  <2>3. QED  BY <2>1, <2>2, FS_Subset
<1>5. rank \in Injection(S, 1..N)
  <2>1. rank \in [S -> 1..N]
    BY <1>3
  <2>2. ASSUME NEW k \in S, NEW l \in S, rank[k] = rank[l] PROVE k = l
    <3>1. k \in Nat /\ l \in Nat /\ rank[k] \in Nat /\ rank[l] \in Nat
      BY <2>1, <1>2
    <3>2. ~(k < l) /\ ~(l < k)
      BY <1>4, <2>2, <3>1
    <3>3. QED  BY <3>1, <3>2
  <2>3. QED  BY <2>1, <2>2 DEF Injection, IsInjective
<1>6. IsFiniteSet(1..N) /\ Cardinality(1..N) = N
  BY <1>2, FS_Interval
<1>7. rank \in Surjection(S, 1..N)
  BY <1>2, <1>5, <1>6, FS_Injection
<1>8. ASSUME NEW n \in 1..N PROVE Nth(S, n) \in S /\ rank[Nth(S, n)] = n
  <2>1. \E k \in S : rank[k] = n
    BY <1>7 DEF Surjection
  <2>2. QED  BY <2>1 DEF Nth
<1>9. ASSUME NEW n \in 1..N, NEW l \in 1..N, l < n PROVE Nth(S, l) < Nth(S, n)
  <2>1. Nth(S, n) \in Nat /\ Nth(S, l) \in Nat /\ n \in Nat /\ l \in Nat
    <3>1. Nth(S, n) \in S /\ Nth(S, l) \in S
      BY <1>8
    <3>2. Nth(S, n) \in Nat /\ Nth(S, l) \in Nat
      BY <1>0, <3>1
    <3>3. n \in Nat /\ l \in Nat
      BY <1>2
    <3>4. QED  BY <3>2, <3>3
  <2>2. ~(Nth(S, n) < Nth(S, l)) /\ Nth(S, n) # Nth(S, l)
    <3>1. Nth(S, n) \in S /\ Nth(S, l) \in S /\ rank[Nth(S, n)] = n /\ rank[Nth(S, l)] = l
      BY <1>8
    <3>2. Nth(S, n) < Nth(S, l) => n < l
      BY <1>4, <3>1
    <3>3. Nth(S, n) = Nth(S, l) => n = l
      BY <3>1
    <3>4. QED  BY <3>2, <3>3, <1>9, <2>1
  <2>3. QED  BY <2>1, <2>2
<1>10. ASSUME NEW k \in S PROVE \E n \in 1..N : Nth(S, n) = k
  <2>1. rank[k] \in 1..N /\ rank[Nth(S, rank[k])] = rank[k] /\ Nth(S, rank[k]) \in S
    BY <1>3, <1>8
  <2>2. QED  BY <2>1, <1>5 DEF Injection, IsInjective
<1>11. \A n \in 1..N : n <= Nth(S, n)
  BY <1>3, <1>8
<1>12. N \in 0..m
  BY <1>2
<1>13. QED
  BY <1>8, <1>9, <1>10, <1>11, <1>12

(* What is picked is a sequence again. *)
LEMMA OnlyPicks ==
  ASSUME NEW X, NEW s \in Seq(X), NEW S \in SUBSET DOMAIN s
  PROVE  /\ Only(s, S) \in Seq(X)
         /\ DOMAIN Only(s, S) = 1..Cardinality(S)
         /\ Len(Only(s, S)) = Cardinality(S)
         /\ \A n \in 1..Cardinality(S) : Nth(S, n) \in DOMAIN s /\ Only(s, S)[n] = s[Nth(S, n)]
<1>1. Len(s) \in Nat /\ DOMAIN s = 1..Len(s)
  OBVIOUS
<1>2. Cardinality(S) \in Nat /\ \A n \in 1..Cardinality(S) : Nth(S, n) \in S
  BY <1>1, NthEnumerates
<1>3. \A n \in 1..Cardinality(S) : s[Nth(S, n)] \in X
  BY <1>2
<1>4. Only(s, S) \in [1..Cardinality(S) -> X]
  BY <1>3 DEF Only
<1>5. \A n \in 1..Cardinality(S) : Only(s, S)[n] = s[Nth(S, n)]
  BY DEF Only
<1>6. Only(s, S) \in Seq(X)
  BY <1>2, <1>4
<1>7. Len(Only(s, S)) = Cardinality(S)
  BY <1>2, <1>4, <1>6
<1>8. QED  BY <1>2, <1>4, <1>5, <1>6, <1>7

-----------------------------------------------------------------------------
(* Where the parts of a history come from.                                 *)

\* An increasing map from the places of r to those of h; none goes up.
Embeds(g, r, h) ==
  /\ g \in [DOMAIN r -> DOMAIN h]
  /\ \A k \in DOMAIN r : k <= g[k] /\ \A j \in DOMAIN r : j < k => g[j] < g[k]

Within(u, v) == \E g : Embeds(g, u, v) /\ \A k \in DOMAIN u : u[k] = v[g[k]]

\* the same message, perhaps with fewer blocks
Lessened(m, n) ==
  m.role = n.role /\ m.text = n.text /\ Within(m.uses, n.uses) /\ Within(m.results, n.results)

\* messages of h in their order, perhaps with fewer blocks
Comes(r, h) == \E g : Embeds(g, r, h) /\ \A k \in DOMAIN r : Lessened(r[k], h[g[k]])

Msg(T, X) == [role : {"user", "assistant"}, text : T, uses : Seq(X), results : Seq(X)]

\* A message of the user asks for nothing, and has something to say.
Sound(h) == \A k \in DOMAIN h : h[k].role = "user" => h[k].uses = <<>> /\ ~Blank(h[k])

\* Every sequence sits in itself, place by place.
LEMMA EmbedsOnce ==
  ASSUME NEW X, NEW h \in Seq(X) PROVE Embeds([k \in DOMAIN h |-> k], h, h)
  BY DEF Embeds

\* What sits in a part of a sequence sits in the sequence.
LEMMA EmbedsTwice ==
  ASSUME NEW X, NEW Y, NEW Z, NEW r \in Seq(X), NEW s \in Seq(Y), NEW h \in Seq(Z),
         NEW f, Embeds(f, r, s), NEW g, Embeds(g, s, h)
  PROVE  Embeds([k \in DOMAIN r |-> g[f[k]]], r, h)
<1>1. DOMAIN r \subseteq Nat /\ DOMAIN s \subseteq Nat /\ DOMAIN h \subseteq Nat
  OBVIOUS
<1>2. QED  BY <1>1 DEF Embeds

\* A sequence is a part of itself.
LEMMA WithinRefl == ASSUME NEW X, NEW u \in Seq(X) PROVE Within(u, u)
<1> DEFINE g == [k \in DOMAIN u |-> k]
<1>1. Embeds(g, u, u)  BY EmbedsOnce
<1>2. \A k \in DOMAIN u : u[k] = u[g[k]]  OBVIOUS
<1>3. QED  BY <1>1, <1>2 DEF Within

\* A part of a part is a part.
LEMMA WithinTrans ==
  ASSUME NEW X, NEW u \in Seq(X), NEW v \in Seq(X), NEW w \in Seq(X), Within(u, v), Within(v, w)
  PROVE  Within(u, w)
<1>1. PICK f : Embeds(f, u, v) /\ \A k \in DOMAIN u : u[k] = v[f[k]]
  BY DEF Within
<1>2. PICK g : Embeds(g, v, w) /\ \A k \in DOMAIN v : v[k] = w[g[k]]
  BY DEF Within
<1> DEFINE e == [k \in DOMAIN u |-> g[f[k]]]
<1>3. Embeds(e, u, w)  BY <1>1, <1>2, EmbedsTwice
<1>4. \A k \in DOMAIN u : u[k] = w[e[k]]
  BY <1>1, <1>2 DEF Embeds
<1>5. QED  BY <1>3, <1>4 DEF Within

\* A message that lost blocks twice lost blocks.
LEMMA LessenedTrans ==
  ASSUME NEW T, NEW X, NEW l \in Msg(T, X), NEW m \in Msg(T, X), NEW n \in Msg(T, X),
         Lessened(l, m), Lessened(m, n)
  PROVE  Lessened(l, n)
  BY WithinTrans DEF Lessened, Msg

\* What comes from what comes from a history comes from it.
LEMMA ComesTrans ==
  ASSUME NEW T, NEW X, NEW r \in Seq(Msg(T, X)), NEW s \in Seq(Msg(T, X)), NEW h \in Seq(Msg(T, X)),
         Comes(r, s), Comes(s, h)
  PROVE  Comes(r, h)
<1>1. PICK f : Embeds(f, r, s) /\ \A k \in DOMAIN r : Lessened(r[k], s[f[k]])
  BY DEF Comes
<1>2. PICK g : Embeds(g, s, h) /\ \A k \in DOMAIN s : Lessened(s[k], h[g[k]])
  BY DEF Comes
<1> DEFINE e == [k \in DOMAIN r |-> g[f[k]]]
<1>3. Embeds(e, r, h)  BY <1>1, <1>2, EmbedsTwice
<1>4. ASSUME NEW k \in DOMAIN r PROVE Lessened(r[k], h[e[k]])
  <2>1. f[k] \in DOMAIN s /\ g[f[k]] \in DOMAIN h
    BY <1>1, <1>2 DEF Embeds
  <2>2. r[k] \in Msg(T, X) /\ s[f[k]] \in Msg(T, X) /\ h[g[f[k]]] \in Msg(T, X)
    BY <2>1
  <2>3. Lessened(r[k], s[f[k]]) /\ Lessened(s[f[k]], h[g[f[k]]])
    BY <1>1, <1>2, <2>1
  <2>4. QED  BY <2>2, <2>3, LessenedTrans
<1>5. QED  BY <1>3, <1>4 DEF Comes

\* Picking places keeps their order.
LEMMA OnlyWithin ==
  ASSUME NEW X, NEW s \in Seq(X), NEW S \in SUBSET DOMAIN s
  PROVE  Within(Only(s, S), s)
<1> DEFINE r == Only(s, S)
           g == [n \in DOMAIN r |-> Nth(S, n)]
<1>1. DOMAIN r = 1..Cardinality(S) /\ \A n \in DOMAIN r : Nth(S, n) \in DOMAIN s /\ r[n] = s[Nth(S, n)]
  BY OnlyPicks
<1>2. Len(s) \in Nat /\ DOMAIN s = 1..Len(s)
  OBVIOUS
<1>3. \A n \in DOMAIN r : n <= Nth(S, n) /\ \A l \in DOMAIN r : l < n => Nth(S, l) < Nth(S, n)
  BY <1>1, <1>2, NthEnumerates
<1>4. Embeds(g, r, s)
  BY <1>1, <1>3 DEF Embeds
<1>5. \A n \in DOMAIN r : r[n] = s[g[n]]
  BY <1>1
<1>6. QED  BY <1>4, <1>5 DEF Within

\* A message that lost nothing counts as lessened.
LEMMA LessenedRefl ==
  ASSUME NEW T, NEW X, NEW m \in Msg(T, X) PROVE Lessened(m, m)
  BY WithinRefl DEF Lessened, Msg

\* A part of a history, in its order, comes from it.
LEMMA WithinComes ==
  ASSUME NEW T, NEW X, NEW r \in Seq(Msg(T, X)), NEW h \in Seq(Msg(T, X)), Within(r, h)
  PROVE  Comes(r, h)
<1>1. PICK g : Embeds(g, r, h) /\ \A k \in DOMAIN r : r[k] = h[g[k]]
  BY DEF Within
<1>2. \A k \in DOMAIN r : Lessened(r[k], h[g[k]])
  <2>1. \A k \in DOMAIN r : r[k] \in Msg(T, X)
    OBVIOUS
  <2>2. QED  BY <1>1, <2>1, LessenedRefl
<1>3. QED  BY <1>1, <1>2 DEF Comes

\* What comes from a history is no longer than it.
LEMMA ComesShorter ==
  ASSUME NEW T, NEW X, NEW r \in Seq(Msg(T, X)), NEW h \in Seq(Msg(T, X)), Comes(r, h)
  PROVE  Len(r) <= Len(h)
<1>1. PICK g : Embeds(g, r, h)
  BY DEF Comes
<1>2. CASE Len(r) = 0
  BY <1>2
<1>3. CASE Len(r) # 0
  <2>1. Len(r) \in DOMAIN r /\ DOMAIN h = 1..Len(h) /\ Len(h) \in Nat /\ Len(r) \in Nat
    BY <1>3
  <2>2. Len(r) <= g[Len(r)] /\ g[Len(r)] \in 1..Len(h)
    BY <1>1, <2>1 DEF Embeds
  <2>3. QED  BY <2>1, <2>2
<1>4. QED  BY <1>2, <1>3

-----------------------------------------------------------------------------
(* Cleaning *)

\* Taking blocks out leaves exactly the others, in their order.
LEMMA LessType ==
  ASSUME NEW X, NEW s \in Seq(X), NEW ids
  PROVE  /\ Less(s, ids) \in Seq(X) /\ Within(Less(s, ids), s)
         /\ s = <<>> => Less(s, ids) = <<>>
         /\ ToSet(Less(s, ids)) = ToSet(s) \ ids
<1> DEFINE S == {k \in DOMAIN s : s[k] \notin ids}
<1>1. Less(s, ids) = Only(s, S) /\ S \in SUBSET DOMAIN s
  BY DEF Less
<1>2. Less(s, ids) \in Seq(X) /\ Within(Less(s, ids), s)
  BY <1>1, OnlyPicks, OnlyWithin
<1>3. s = <<>> => Less(s, ids) = <<>>
  <2>1. SUFFICES ASSUME s = <<>> PROVE Less(s, ids) = <<>>
    OBVIOUS
  <2>2. S = {} /\ Cardinality(S) = 0
    BY <2>1, FS_EmptySet
  <2>3. Len(Only(s, S)) = 0 /\ Only(s, S) \in Seq(X)
    BY <1>1, <2>2, OnlyPicks
  <2>4. QED  BY <1>1, <2>3
<1>4. ToSet(Less(s, ids)) = ToSet(s) \ ids
  <2>1. Len(s) \in Nat /\ DOMAIN s = 1..Len(s)
    OBVIOUS
  <2>2. \A k \in S : \E n \in 1..Cardinality(S) : Nth(S, n) = k
    BY <2>1, NthEnumerates
  <2>3. /\ DOMAIN Less(s, ids) = 1..Cardinality(S)
        /\ \A n \in 1..Cardinality(S) : Nth(S, n) \in S /\ Less(s, ids)[n] = s[Nth(S, n)]
    BY <1>1, <2>1, OnlyPicks, NthEnumerates
  <2>4. ASSUME NEW x \in ToSet(s) \ ids PROVE x \in ToSet(Less(s, ids))
    <3>1. PICK k \in DOMAIN s : s[k] = x
      BY DEF ToSet
    <3>2. PICK n \in 1..Cardinality(S) : Nth(S, n) = k
      BY <2>2, <2>4, <3>1
    <3>3. QED  BY <2>3, <3>1, <3>2 DEF ToSet
  <2>5. ASSUME NEW x \in ToSet(Less(s, ids)) PROVE x \in ToSet(s) \ ids
    <3>1. PICK n \in 1..Cardinality(S) : Less(s, ids)[n] = x
      BY <2>3 DEF ToSet
    <3>2. QED  BY <2>3, <3>1 DEF ToSet
  <2>6. QED  BY <2>4, <2>5
<1>5. QED  BY <1>2, <1>3, <1>4

\* Blocks go, the message stays what it was.
LEMMA WithoutType ==
  ASSUME NEW T, NEW X, NEW m \in Msg(T, X), NEW ids
  PROVE  /\ Without(m, ids) \in Msg(T, X) /\ Lessened(Without(m, ids), m)
         /\ Without(m, ids).uses = Less(m.uses, ids) /\ Without(m, ids).results = Less(m.results, ids)
         /\ m.uses = <<>> => Without(m, ids).uses = <<>>
         /\ m.results = <<>> => Without(m, ids).results = <<>>
<1>1. m.uses \in Seq(X) /\ m.results \in Seq(X)
  BY DEF Msg
<1>2. /\ Without(m, ids).role = m.role /\ Without(m, ids).text = m.text
      /\ Without(m, ids).uses = Less(m.uses, ids) /\ Without(m, ids).results = Less(m.results, ids)
  BY DEF Without, Msg
<1>3. Less(m.uses, ids) \in Seq(X) /\ Less(m.results, ids) \in Seq(X)
  BY <1>1, LessType
<1>4. Without(m, ids) \in Msg(T, X)
  BY <1>3 DEF Without, Msg
<1>5. Lessened(Without(m, ids), m)
  BY <1>1, <1>2, LessType DEF Lessened
<1>6. QED  BY <1>1, <1>2, <1>4, <1>5, LessType

\* Stripping blocks takes from messages and drops some, and leaves no message of the user empty.
LEMMA StripComes ==
  ASSUME NEW T, NEW X, NEW h \in Seq(Msg(T, X)), NEW ids
  PROVE  /\ Strip(h, ids) \in Seq(Msg(T, X)) /\ Comes(Strip(h, ids), h)
         /\ Sound(h) => Sound(Strip(h, ids))
<1> DEFINE s == Stripped(h, ids)
           S == {k \in DOMAIN h : LET m == Without(h[k], ids) IN m = h[k] \/ ~Blank(m)}
<1>1. s \in Seq(Msg(T, X)) /\ DOMAIN s = DOMAIN h /\ \A k \in DOMAIN h : s[k] = Without(h[k], ids)
  <2>1. \A k \in DOMAIN h : Without(h[k], ids) \in Msg(T, X)
    BY WithoutType
  <2>2. QED  BY <2>1 DEF Stripped
<1>2. Comes(s, h)
  <2> DEFINE g == [k \in DOMAIN h |-> k]
  <2>1. Embeds(g, s, h)
    BY <1>1 DEF Embeds
  <2>2. \A k \in DOMAIN s : Lessened(s[k], h[g[k]])
    BY <1>1, WithoutType
  <2>3. QED  BY <2>1, <2>2 DEF Comes
<1>3. Strip(h, ids) = Only(s, S) /\ S \in SUBSET DOMAIN s
  BY <1>1 DEF Strip
<1>4. Strip(h, ids) \in Seq(Msg(T, X)) /\ Comes(Strip(h, ids), s)
  BY <1>1, <1>3, OnlyPicks, OnlyWithin, WithinComes
<1>5. ASSUME Sound(h) PROVE Sound(Strip(h, ids))
  <2>1. /\ DOMAIN Strip(h, ids) = 1..Cardinality(S)
        /\ \A n \in 1..Cardinality(S) : Nth(S, n) \in S /\ Strip(h, ids)[n] = s[Nth(S, n)]
    BY <1>1, <1>3, OnlyPicks, NthEnumerates
  <2>2. ASSUME NEW k \in S, s[k].role = "user" PROVE s[k].uses = <<>> /\ ~Blank(s[k])
    <3>1. s[k] = Without(h[k], ids) /\ h[k] \in Msg(T, X)
      BY <1>1
    <3>2. h[k].role = "user"
      BY <2>2, <3>1, WithoutType DEF Lessened
    <3>3. h[k].uses = <<>> /\ ~Blank(h[k])
      BY <1>5, <3>2 DEF Sound
    <3>4. s[k].uses = <<>>
      BY <3>1, <3>3, WithoutType
    <3>5. QED  BY <3>1, <3>3, <3>4
  <2>3. QED  BY <2>1, <2>2 DEF Sound
<1>6. QED  BY <1>1, <1>2, <1>4, <1>5, ComesTrans

\* Dropping what stands before the user leaves the rest as it was, and a user to open it.
LEMMA DropLeadingComes ==
  ASSUME NEW T, NEW X, NEW h \in Seq(Msg(T, X))
  PROVE  /\ DropLeading(h) \in Seq(Msg(T, X)) /\ Within(DropLeading(h), h)
         /\ DropLeading(h) # <<>> => Opens(DropLeading(h))
         /\ (\E k \in DOMAIN h : h[k].role = "user") => DropLeading(h) # <<>>
<1> DEFINE S == {k \in DOMAIN h : \E j \in 1..k : h[j].role = "user"}
           r == DropLeading(h)
<1>1. Len(h) \in Nat /\ DOMAIN h = 1..Len(h)
  OBVIOUS
<1>2. r = Only(h, S) /\ S \in SUBSET DOMAIN h
  BY DEF DropLeading
<1>3. /\ r \in Seq(Msg(T, X)) /\ Within(r, h) /\ Len(r) = Cardinality(S)
      /\ \A n \in 1..Cardinality(S) : Nth(S, n) \in S /\ r[n] = h[Nth(S, n)]
  <2>1. r \in Seq(Msg(T, X)) /\ Within(r, h) /\ Len(r) = Cardinality(S)
    BY <1>2, OnlyPicks, OnlyWithin
  <2>2. \A n \in 1..Cardinality(S) : r[n] = h[Nth(S, n)]
    BY <1>2, OnlyPicks
  <2>3. \A n \in 1..Cardinality(S) : Nth(S, n) \in S
    BY <1>1, NthEnumerates
  <2>4. QED  BY <2>1, <2>2, <2>3
<1>4. \A k \in S : \E n \in 1..Cardinality(S) : Nth(S, n) = k
  BY <1>1, NthEnumerates
<1>5. ASSUME r # <<>> PROVE Opens(r)
  <2>1. 1 \in 1..Cardinality(S)
    BY <1>3, <1>5
  <2> DEFINE first == Nth(S, 1)
  <2>2. first \in S /\ r[1] = h[first]
    BY <1>3, <2>1
  <2>3. PICK j \in 1..first : h[j].role = "user"
    BY <2>2
  <2>4. j \in S
    BY <1>1, <2>2, <2>3
  <2>5. PICK n \in 1..Cardinality(S) : Nth(S, n) = j
    BY <1>4, <2>4
  <2>6. n = 1 \/ first < j
    BY <1>1, <2>1, <2>5, NthEnumerates
  <2>7. first = j
    BY <1>1, <2>2, <2>3, <2>4, <2>5, <2>6
  <2>8. QED  BY <1>5, <2>2, <2>3, <2>7 DEF Opens
<1>6. ASSUME NEW k \in DOMAIN h, h[k].role = "user" PROVE r # <<>>
  <2>1. k \in S
    BY <1>1, <1>6
  <2>2. QED  BY <1>3, <1>4, <2>1
<1>7. QED  BY <1>3, <1>5, <1>6

\* What is sound stays sound when some of its messages are left out.
LEMMA WithinSound ==
  ASSUME NEW T, NEW X, NEW r \in Seq(Msg(T, X)), NEW h \in Seq(Msg(T, X)), Within(r, h), Sound(h)
  PROVE  Sound(r)
<1>1. PICK g : Embeds(g, r, h) /\ \A k \in DOMAIN r : r[k] = h[g[k]]
  BY DEF Within
<1>2. QED  BY <1>1 DEF Embeds, Sound

\* Cleaning only takes away, and what it leaves opens with the user.
LEMMA SanitizeComes ==
  ASSUME NEW T, NEW X, NEW h \in Seq(Msg(T, X))
  PROVE  LET r == sanitize_history(h)
         IN  /\ r \in Seq(Msg(T, X)) /\ Comes(r, h)
             /\ r # <<>> => Opens(r)
             /\ Sound(h) => Sound(r)
<1> DEFINE d == DropLeading(h)
           ids == (Results(d) \ Uses(d)) \cup ((Uses(d) \ Results(d)) \ InFlight(d))
           s == Strip(d, ids)
           r == DropLeading(s)
<1>1. sanitize_history(h) = r
  BY DEF sanitize_history
<1>2. d \in Seq(Msg(T, X)) /\ Within(d, h)
  BY DropLeadingComes
<1>3. s \in Seq(Msg(T, X)) /\ Comes(s, d) /\ (Sound(d) => Sound(s))
  <2> HIDE DEF d, ids
  <2>1. QED  BY <1>2, StripComes
<1>4. r \in Seq(Msg(T, X)) /\ Within(r, s) /\ (r # <<>> => Opens(r))
  <2> HIDE DEF s
  <2>1. QED  BY <1>3, DropLeadingComes
<1> HIDE DEF d, s, r
<1>5. Comes(r, h)
  <2>1. Comes(d, h) /\ Comes(r, s)
    BY <1>2, <1>3, <1>4, WithinComes
  <2>2. Comes(s, h)
    BY <2>1, <1>2, <1>3, ComesTrans
  <2>3. QED  BY <2>1, <2>2, <1>3, <1>4, ComesTrans
<1>6. Sound(h) => Sound(r)
  BY <1>2, <1>3, <1>4, WithinSound
<1>7. QED  BY <1>1, <1>4, <1>5, <1>6

\* the first message and those from the n-th on
Cut(h, n) == <<h[1]>> \o SubSeq(h, n, Len(h))

\* The first message and those from the n-th are a part of the history.
LEMMA CutWithin ==
  ASSUME NEW X, NEW h \in Seq(X), h # <<>>, NEW n \in 2..(Len(h) + 1)
  PROVE  /\ Cut(h, n) \in Seq(X) /\ Within(Cut(h, n), h)
         /\ Len(Cut(h, n)) = Len(h) - n + 2
         /\ Cut(h, n)[1] = h[1]
         /\ \A k \in 2..(Len(h) - n + 2) : Cut(h, n)[k] = h[k + n - 2]
<1> DEFINE r == Cut(h, n)
           g == [k \in DOMAIN r |-> IF k = 1 THEN 1 ELSE k + n - 2]
<1>1. Len(h) \in Nat /\ n \in Nat /\ Len(h) # 0 /\ h[1] \in X /\ n >= 2 /\ n <= Len(h) + 1
  OBVIOUS
<1>2. SubSeq(h, n, Len(h)) \in Seq(X) /\ Len(SubSeq(h, n, Len(h))) = Len(h) - n + 1
  BY <1>1
<1>3. \A k \in 1..(Len(h) - n + 1) : SubSeq(h, n, Len(h))[k] = h[k + n - 1]
  BY <1>1
<1>4. r \in Seq(X) /\ Len(r) = Len(h) - n + 2 /\ r[1] = h[1]
  BY <1>1, <1>2 DEF Cut
<1>5. ASSUME NEW k \in 2..(Len(h) - n + 2) PROVE r[k] = h[k + n - 2]
  <2>1. r[k] = SubSeq(h, n, Len(h))[k - 1]
    BY <1>1, <1>2 DEF Cut
  <2>2. k - 1 \in 1..(Len(h) - n + 1) /\ (k - 1) + n - 1 = k + n - 2
    BY <1>1
  <2>3. QED  BY <1>3, <2>1, <2>2
<1> HIDE DEF r
<1>6. DOMAIN r = 1..(Len(h) - n + 2)
  BY <1>4
<1>7. Embeds(g, r, h)
  BY <1>1, <1>6 DEF Embeds
<1>8. ASSUME NEW k \in DOMAIN r PROVE r[k] = h[g[k]]
  <2>1. CASE k = 1
    BY <1>4, <2>1
  <2>2. CASE k # 1
    <3>1. k \in 2..(Len(h) - n + 2) /\ g[k] = k + n - 2
      BY <1>1, <1>6, <2>2
    <3>2. QED  BY <1>5, <3>1
  <2>3. QED  BY <2>1, <2>2
<1>9. QED  BY <1>4, <1>5, <1>7, <1>8 DEF Within, r

\* A trim leaves no more than the limit, only takes away, and is a no-op below the limit.
LEMMA TrimComes ==
  ASSUME NEW T, NEW X, NEW h \in Seq(Msg(T, X)), NEW max \in Nat \ {0}
  PROVE  LET r == trim_history(h, max)
         IN  /\ r \in Seq(Msg(T, X)) /\ Comes(r, h)
             /\ Len(r) <= max
             /\ Len(h) <= max => r = h
             /\ Len(h) > max /\ r # <<>> => Opens(r)
             /\ Sound(h) => Sound(r)
<1>1. CASE Len(h) <= max
  <2>1. trim_history(h, max) = h
    BY <1>1 DEF trim_history
  <2>2. Within(h, h)
    BY WithinRefl
  <2>3. QED  BY <1>1, <2>1, <2>2, WithinComes
<1>2. CASE Len(h) > max
  <2> DEFINE c == Cut(h, Len(h) - max + 2)
             r == sanitize_history(c)
  <2>1. trim_history(h, max) = r
    BY <1>2 DEF trim_history, Cut
  <2>2. Len(h) \in Nat /\ h # <<>> /\ Len(h) - max + 2 \in 2..(Len(h) + 1)
    BY <1>2
  <2>3. c \in Seq(Msg(T, X)) /\ Within(c, h) /\ Len(c) = max
    BY <2>2, CutWithin
  <2> HIDE DEF c
  <2>4. r \in Seq(Msg(T, X)) /\ Comes(r, c) /\ (r # <<>> => Opens(r)) /\ (Sound(c) => Sound(r))
    BY <2>3, SanitizeComes
  <2> HIDE DEF r
  <2>5. Comes(r, h)
    BY <2>3, <2>4, WithinComes, ComesTrans
  <2>6. Len(r) <= max
    BY <2>3, <2>4, ComesShorter
  <2>7. Sound(h) => Sound(r)
    BY <2>3, <2>4, WithinSound
  <2>8. QED  BY <1>2, <2>1, <2>2, <2>4, <2>5, <2>6, <2>7
<1>3. Len(h) \in Nat  OBVIOUS
<1>4. QED  BY <1>1, <1>2, <1>3

-----------------------------------------------------------------------------
(* What stays. *)

\* The n-th of the first m numbers is n.
LEMMA NthAll == ASSUME NEW m \in Nat, NEW n \in 1..m PROVE Nth(1..m, n) = n /\ Cardinality(1..m) = m
<1>1. Cardinality(1..m) = m
  BY FS_Interval, 0 <= m
<1>2. Nth(1..m, n) \in 1..m /\ Cardinality({j \in 1..m : j <= Nth(1..m, n)}) = n
  <2>1. {j \in 1..m : j <= n} = 1..n /\ Cardinality(1..n) = n
    BY FS_Interval, 0 <= n
  <2>2. \E k \in 1..m : Cardinality({j \in 1..m : j <= k}) = n
    BY <2>1
  <2>3. QED  BY <2>2 DEF Nth
<1> DEFINE p == Nth(1..m, n)
<1>3. {j \in 1..m : j <= p} = 1..p /\ Cardinality(1..p) = p
  <2>1. p \in Nat /\ p <= m /\ 0 <= p
    BY <1>2
  <2> HIDE DEF p
  <2>2. {j \in 1..m : j <= p} = 1..p
    BY <2>1
  <2>3. QED  BY <2>1, <2>2, FS_Interval
<1>4. QED  BY <1>1, <1>2, <1>3

\* Picking every place picks the whole.
LEMMA OnlyAll == ASSUME NEW X, NEW s \in Seq(X) PROVE Only(s, DOMAIN s) = s
<1>1. Len(s) \in Nat /\ DOMAIN s = 1..Len(s)
  OBVIOUS
<1>2. DOMAIN s \in SUBSET DOMAIN s
  OBVIOUS
<1>3. Cardinality(DOMAIN s) = Len(s)
  BY <1>1, FS_Interval, 0 <= Len(s)
<1>4. Only(s, DOMAIN s) \in Seq(X) /\ Len(Only(s, DOMAIN s)) = Len(s)
  BY <1>2, <1>3, OnlyPicks
<1>5. \A n \in 1..Len(s) : Only(s, DOMAIN s)[n] = s[n]
  BY <1>1, <1>2, <1>3, OnlyPicks, NthAll
<1>6. QED  BY <1>4, <1>5

\* Picking the first place, among others, keeps what opens the sequence.
LEMMA OnlyFirst ==
  ASSUME NEW X, NEW s \in Seq(X), NEW S \in SUBSET DOMAIN s, 1 \in S
  PROVE  Only(s, S) # <<>> /\ Only(s, S)[1] = s[1]
<1>1. Len(s) \in Nat /\ DOMAIN s = 1..Len(s) /\ S \in SUBSET (1..Len(s))
  OBVIOUS
<1>2. PICK n \in 1..Cardinality(S) : Nth(S, n) = 1
  BY <1>1, NthEnumerates
<1>3. n = 1
  BY <1>1, <1>2, NthEnumerates
<1>4. QED  BY <1>2, <1>3, OnlyPicks

\* Picking the last place, among others, keeps what ends the sequence.
LEMMA OnlyLast ==
  ASSUME NEW X, NEW s \in Seq(X), NEW S \in SUBSET DOMAIN s, Len(s) \in S
  PROVE  Only(s, S) # <<>> /\ Last(Only(s, S)) = Last(s)
<1> DEFINE N == Cardinality(S)
<1>1. Len(s) \in Nat /\ DOMAIN s = 1..Len(s) /\ S \in SUBSET (1..Len(s)) /\ N \in Nat
  BY NthEnumerates
<1>2. PICK n \in 1..N : Nth(S, n) = Len(s)
  BY <1>1, NthEnumerates
<1>3. n = N
  <2>1. N \in 1..N /\ Nth(S, N) \in S
    BY <1>1, <1>2, NthEnumerates
  <2>2. n < N => Len(s) < Nth(S, N)
    BY <1>1, <1>2, <2>1, NthEnumerates
  <2>3. QED  BY <1>1, <2>1, <2>2
<1>4. QED  BY <1>1, <1>2, <1>3, OnlyPicks DEF Last

\* It opens with a text of the user, which no cleaning removes.
Firm(h) == h # <<>> /\ h[1].role = "user" /\ h[1].text # NoText

\* The user has said something.
Spoken(h) == \E k \in DOMAIN h : h[k].role = "user" /\ h[k].text # NoText

\* Nothing is dropped from a history that the user opens.
LEMMA DropNothing ==
  ASSUME NEW T, NEW X, NEW h \in Seq(Msg(T, X)), Opens(h) \/ h = <<>>
  PROVE  DropLeading(h) = h
<1> DEFINE S == {k \in DOMAIN h : \E j \in 1..k : h[j].role = "user"}
<1>1. ASSUME NEW k \in DOMAIN h PROVE k \in S
  <2>1. 1 \in 1..k /\ h # <<>>
    OBVIOUS
  <2>2. h[1].role = "user"
    BY <2>1 DEF Opens
  <2>3. QED  BY <2>1, <2>2
<1>2. S = DOMAIN h
  BY <1>1
<1>3. QED  BY <1>2, OnlyAll DEF DropLeading

\* Stripping blocks removes no text of the user, the opening one least of all.
LEMMA StripKeeps ==
  ASSUME NEW T, NEW X, NEW h \in Seq(Msg(T, X)), NEW ids
  PROVE  /\ Firm(h) => Firm(Strip(h, ids)) /\ Strip(h, ids)[1].text = h[1].text
         /\ Spoken(h) => Spoken(Strip(h, ids))
<1> DEFINE s == Stripped(h, ids)
           S == {k \in DOMAIN h : LET m == Without(h[k], ids) IN m = h[k] \/ ~Blank(m)}
<1>1. s \in Seq(Msg(T, X)) /\ DOMAIN s = DOMAIN h /\ \A k \in DOMAIN h : s[k] = Without(h[k], ids)
  <2>1. \A k \in DOMAIN h : Without(h[k], ids) \in Msg(T, X)
    BY WithoutType
  <2>2. QED  BY <2>1 DEF Stripped
<1>2. Strip(h, ids) = Only(s, S) /\ S \in SUBSET DOMAIN s
  BY <1>1 DEF Strip
<1>3. \A k \in DOMAIN h : s[k].text = h[k].text /\ s[k].role = h[k].role
  BY <1>1, WithoutType DEF Lessened
<1>4. ASSUME NEW k \in DOMAIN h, h[k].text # NoText PROVE k \in S
  BY <1>1, <1>3, <1>4 DEF Blank
<1>5. ASSUME Firm(h) PROVE Firm(Strip(h, ids)) /\ Strip(h, ids)[1].text = h[1].text
  <2>1. 1 \in DOMAIN h /\ 1 \in S
    BY <1>4, <1>5 DEF Firm
  <2>2. Strip(h, ids) # <<>> /\ Strip(h, ids)[1] = s[1]
    BY <1>1, <1>2, <2>1, OnlyFirst
  <2>3. QED  BY <1>3, <1>5, <2>1, <2>2 DEF Firm
<1>6. ASSUME Spoken(h) PROVE Spoken(Strip(h, ids))
  <2>1. PICK k \in DOMAIN h : h[k].role = "user" /\ h[k].text # NoText
    BY <1>6 DEF Spoken
  <2>2. k \in S
    BY <1>4, <2>1
  <2>3. Len(s) \in Nat /\ S \in SUBSET (1..Len(s))
    BY <1>1, <1>2
  <2>4. PICK n \in 1..Cardinality(S) : Nth(S, n) = k
    BY <2>2, <2>3, NthEnumerates
  <2>5. n \in DOMAIN Strip(h, ids) /\ Strip(h, ids)[n] = s[k]
    BY <1>1, <1>2, <2>4, OnlyPicks
  <2>6. QED  BY <1>3, <2>1, <2>5 DEF Spoken
<1>7. QED  BY <1>5, <1>6

\* Dropping what stands before the user removes no text of the user.
LEMMA DropSpoken ==
  ASSUME NEW T, NEW X, NEW h \in Seq(Msg(T, X)), Spoken(h)
  PROVE  Spoken(DropLeading(h))
<1> DEFINE S == {k \in DOMAIN h : \E j \in 1..k : h[j].role = "user"}
<1>1. PICK k \in DOMAIN h : h[k].role = "user" /\ h[k].text # NoText
  BY DEF Spoken
<1>2. k \in S /\ Len(h) \in Nat /\ S \in SUBSET (1..Len(h)) /\ S \in SUBSET DOMAIN h
  BY <1>1
<1>3. PICK n \in 1..Cardinality(S) : Nth(S, n) = k
  BY <1>2, NthEnumerates
<1>4. DropLeading(h) = Only(h, S)
  BY DEF DropLeading
<1>5. n \in DOMAIN DropLeading(h) /\ DropLeading(h)[n] = h[k]
  BY <1>2, <1>3, <1>4, OnlyPicks
<1>6. QED  BY <1>1, <1>5 DEF Spoken

\* Cleaning removes no text of the user, the opening one least of all.
LEMMA SanitizeKeeps ==
  ASSUME NEW T, NEW X, NEW h \in Seq(Msg(T, X))
  PROVE  /\ Firm(h) => Firm(sanitize_history(h)) /\ sanitize_history(h)[1].text = h[1].text
         /\ Spoken(h) => Spoken(sanitize_history(h))
<1> DEFINE d == DropLeading(h)
           ids == (Results(d) \ Uses(d)) \cup ((Uses(d) \ Results(d)) \ InFlight(d))
           s == Strip(d, ids)
<1>1. sanitize_history(h) = DropLeading(s)
  BY DEF sanitize_history
<1>2. d \in Seq(Msg(T, X))
  BY DropLeadingComes
<1> HIDE DEF d, ids
<1>3. s \in Seq(Msg(T, X))
  BY <1>2, StripComes
<1>4. ASSUME Firm(h) PROVE Firm(sanitize_history(h)) /\ sanitize_history(h)[1].text = h[1].text
  <2>1. d = h
    BY <1>4, DropNothing DEF d, Firm, Opens
  <2>2. Firm(s) /\ s[1].text = h[1].text
    BY <1>4, <2>1, StripKeeps
  <2>3. DropLeading(s) = s
    BY <1>3, <2>2, DropNothing DEF Firm, Opens
  <2>4. QED  BY <1>1, <2>2, <2>3
<1>5. ASSUME Spoken(h) PROVE Spoken(sanitize_history(h))
  <2>1. Spoken(d)
    BY <1>5, DropSpoken DEF d
  <2>2. Spoken(s)
    BY <1>2, <2>1, StripKeeps
  <2>3. Spoken(DropLeading(s))
    BY <1>3, <2>2, DropSpoken
  <2>4. QED  BY <1>1, <2>3
<1>6. QED  BY <1>4, <1>5

-----------------------------------------------------------------------------
(* Prefixes, suffixes, and what is added. *)

\* The rest from a place on is a part of the sequence.
LEMMA SuffixWithin ==
  ASSUME NEW X, NEW h \in Seq(X), NEW n \in 1..(Len(h) + 1)
  PROVE  LET r == SubSeq(h, n, Len(h))
         IN  /\ r \in Seq(X) /\ Within(r, h) /\ Len(r) = Len(h) - n + 1
             /\ \A k \in 1..(Len(h) - n + 1) : r[k] = h[k + n - 1]
<1> DEFINE r == SubSeq(h, n, Len(h))
           g == [k \in DOMAIN r |-> k + n - 1]
<1>1. Len(h) \in Nat /\ n \in Nat /\ 1 <= n /\ n <= Len(h) + 1
  OBVIOUS
<1>2. r \in Seq(X) /\ Len(r) = Len(h) - n + 1 /\ \A k \in 1..(Len(h) - n + 1) : r[k] = h[k + n - 1]
  BY <1>1
<1> HIDE DEF r
<1>3. DOMAIN r = 1..(Len(h) - n + 1)
  BY <1>2
<1>4. Embeds(g, r, h)
  BY <1>1, <1>3 DEF Embeds
<1>5. \A k \in DOMAIN r : r[k] = h[g[k]]
  BY <1>2, <1>3
<1>6. QED  BY <1>2, <1>4, <1>5 DEF Within, r

\* All but the last message are a part of the history.
LEMMA FrontWithin ==
  ASSUME NEW X, NEW h \in Seq(X), h # <<>>
  PROVE  /\ Front(h) \in Seq(X) /\ Within(Front(h), h) /\ Len(Front(h)) = Len(h) - 1
         /\ \A k \in 1..(Len(h) - 1) : Front(h)[k] = h[k]
<1> DEFINE r == Front(h)
           g == [k \in DOMAIN r |-> k]
<1>1. Len(h) \in Nat /\ Len(h) # 0
  OBVIOUS
<1>2. r \in Seq(X) /\ Len(r) = Len(h) - 1 /\ \A k \in 1..(Len(h) - 1) : r[k] = h[k]
  <2> DEFINE n == Len(h) - 1
  <2>1. r = SubSeq(h, 1, n)
    BY DEF Front
  <2>2. n \in Nat /\ n <= Len(h) /\ n + 1 = Len(h)
    BY <1>1
  <2> HIDE DEF r, n
  <2>3. r \in Seq(X) /\ Len(r) = n /\ \A k \in 1..n : r[k] = h[k]
    BY <1>1, <2>1, <2>2
  <2>4. QED  BY <2>2, <2>3 DEF n
<1> HIDE DEF r
<1>3. DOMAIN r = 1..(Len(h) - 1)
  BY <1>2
<1>4. Embeds(g, r, h)
  BY <1>1, <1>3 DEF Embeds
<1>5. \A k \in DOMAIN r : r[k] = h[g[k]]
  BY <1>2, <1>3
<1>6. QED  BY <1>2, <1>4, <1>5 DEF Within, r

\* The first message alone is a part of the history.
LEMMA FirstWithin ==
  ASSUME NEW X, NEW h \in Seq(X), h # <<>>
  PROVE  <<h[1]>> \in Seq(X) /\ Within(<<h[1]>>, h)
<1> DEFINE g == [k \in {1} |-> 1]
<1>1. Embeds(g, <<h[1]>>, h)
  BY DEF Embeds
<1>2. QED  BY <1>1 DEF Within

\* A message that fits may be appended.
LEMMA AppendSound ==
  ASSUME NEW T, NEW X, NEW h \in Seq(Msg(T, X)), NEW m \in Msg(T, X),
         Sound(h), m.role = "user" => m.uses = <<>> /\ ~Blank(m)
  PROVE  Append(h, m) \in Seq(Msg(T, X)) /\ Sound(Append(h, m))
<1>1. Append(h, m) \in Seq(Msg(T, X)) /\ Len(Append(h, m)) = Len(h) + 1
  OBVIOUS
<1>2. \A k \in DOMAIN Append(h, m) : (k \in DOMAIN h /\ Append(h, m)[k] = h[k]) \/ Append(h, m)[k] = m
  OBVIOUS
<1>3. QED  BY <1>1, <1>2 DEF Sound


\* A result joins the last message when that one holds results, and else comes in a message of its own.
LEMMA AddResultType ==
  ASSUME NEW T, NEW X, NoText \in T, NEW h \in Seq(Msg(T, X)), NEW id \in X
  PROVE  LET r == add_tool_result(h, id)
         IN  /\ r \in Seq(Msg(T, X))
             /\ Joins(h) => Len(r) = Len(h) /\ Last(r).results = Append(Last(h).results, id)
             /\ Joins(h) => \A k \in 1..Len(h) :
                  /\ r[k].role = h[k].role /\ r[k].text = h[k].text /\ r[k].uses = h[k].uses
                  /\ k < Len(h) => r[k] = h[k]
             /\ ~Joins(h) => r = Append(h, ToolResult(id))
             /\ Sound(h) => Sound(r)
<1> DEFINE r == add_tool_result(h, id)
           n == Len(h)
<1>1. n \in Nat
  OBVIOUS
<1>2. CASE Joins(h)
  <2> DEFINE m == [h[n] EXCEPT !.results = Append(@, id)]
  <2>1. n \in DOMAIN h /\ h[n] \in Msg(T, X) /\ Last(h) = h[n]
    BY <1>1, <1>2 DEF Last, Joins
  <2>2. h[n].results \in Seq(X)
    BY <2>1 DEF Msg
  <2>3. Append(h[n].results, id) \in Seq(X) /\ Append(h[n].results, id) # <<>>
    BY <2>2
  <2>4. /\ m.role = h[n].role /\ m.text = h[n].text /\ m.uses = h[n].uses
        /\ m.results = Append(h[n].results, id)
    BY <2>1 DEF Msg
  <2>5. m \in Msg(T, X)
    BY <2>1, <2>3 DEF Msg
  <2> HIDE DEF m
  <2>6. r = [h EXCEPT ![n] = m]
    BY <1>2 DEF add_tool_result, Joins, m
  <2>7. r \in Seq(Msg(T, X)) /\ Len(r) = n /\ r[n] = m /\ \A k \in 1..n : k # n => r[k] = h[k]
    BY <2>1, <2>5, <2>6
  <2> HIDE DEF r
  <2>8. Last(r).results = Append(Last(h).results, id)
    BY <2>1, <2>4, <2>7 DEF Last
  <2>9. \A k \in 1..n : r[k].role = h[k].role /\ r[k].text = h[k].text /\ r[k].uses = h[k].uses
    BY <2>4, <2>7
  <2>10. ASSUME Sound(h) PROVE Sound(r)
    <3>1. ASSUME NEW k \in DOMAIN r, r[k].role = "user" PROVE r[k].uses = <<>> /\ ~Blank(r[k])
      <4>1. k \in 1..n /\ k \in DOMAIN h /\ h[k].role = "user"
        BY <2>7, <2>9, <3>1
      <4>2. h[k].uses = <<>> /\ ~Blank(h[k])
        BY <2>10, <4>1 DEF Sound
      <4>3. CASE k = n
        BY <2>3, <2>4, <2>7, <4>2, <4>3 DEF Blank
      <4>4. CASE k # n
        BY <2>7, <4>1, <4>2, <4>4
      <4>5. QED  BY <4>3, <4>4
    <3>2. QED  BY <3>1 DEF Sound
  <2>11. \A k \in 1..n : k < n => r[k] = h[k]
    BY <1>1, <2>7
  <2>12. QED  BY <1>2, <2>7, <2>8, <2>9, <2>10, <2>11 DEF r
<1>3. CASE ~Joins(h)
  <2>1. r = Append(h, ToolResult(id))
    BY <1>3 DEF add_tool_result, Joins
  <2>2. ToolResult(id) \in Msg(T, X) /\ ToolResult(id).uses = <<>> /\ ToolResult(id).results = <<id>>
    BY DEF ToolResult, Message, Msg
  <2>3. ~Blank(ToolResult(id))
    BY <2>2 DEF Blank
  <2>4. Sound(h) => Sound(r)
    BY <2>1, <2>2, <2>3, AppendSound
  <2>5. r \in Seq(Msg(T, X)) /\ Len(r) = n + 1 /\ Last(r) = ToolResult(id)
    BY <2>1, <2>2 DEF Last
  <2>6. QED  BY <1>3, <2>1, <2>2, <2>4, <2>5
<1>4. QED  BY <1>2, <1>3

-----------------------------------------------------------------------------
(* Repairs and compaction *)

\* The repair that drops old messages only takes away, and keeps the text that opens the history.
LEMMA CompactToComes ==
  ASSUME NEW T, NEW X, NEW h \in Seq(Msg(T, X)), NEW keep \in Nat
  PROVE  LET r == CompactTo(h, keep)
         IN  /\ r \in Seq(Msg(T, X)) /\ Comes(r, h)
             /\ Sound(h) => Sound(r)
             /\ Firm(h) => Firm(r) /\ r[1].text = h[1].text
<1>1. Len(h) \in Nat
  OBVIOUS
<1>2. CASE Len(h) <= keep + 1
  BY <1>2, SanitizeComes, SanitizeKeeps DEF CompactTo
<1>3. CASE Len(h) > keep + 1
  <2> DEFINE c == Cut(h, Len(h) - keep + 1)
             r == sanitize_history(c)
  <2>1. CompactTo(h, keep) = r
    BY <1>1, <1>3 DEF CompactTo, Cut
  <2>2. h # <<>> /\ Len(h) - keep + 1 \in 2..(Len(h) + 1)
    BY <1>1, <1>3
  <2>3. c \in Seq(Msg(T, X)) /\ Within(c, h) /\ Len(c) = keep + 1 /\ c[1] = h[1]
    BY <1>1, <2>2, CutWithin
  <2> HIDE DEF c
  <2>4. r \in Seq(Msg(T, X)) /\ Comes(r, c) /\ (Sound(c) => Sound(r))
    BY <2>3, SanitizeComes
  <2>5. Firm(h) => Firm(c)
    BY <2>3 DEF Firm
  <2>6. Firm(h) => Firm(r) /\ r[1].text = h[1].text
    BY <2>3, <2>5, SanitizeKeeps
  <2> HIDE DEF r
  <2>7. Comes(r, h)
    BY <2>3, <2>4, WithinComes, ComesTrans
  <2>8. Sound(h) => Sound(r)
    BY <2>3, <2>4, WithinSound
  <2>9. QED  BY <2>1, <2>4, <2>6, <2>7, <2>8
<1>4. QED  BY <1>1, <1>2, <1>3

\* So does every repair.
LEMMA RepairComes ==
  ASSUME NEW T, NEW X, NEW h \in Seq(Msg(T, X)), NEW keep \in Nat, NEW strategy \in 1..4
  PROVE  LET r == repair(strategy, h, keep)
         IN  /\ r \in Seq(Msg(T, X)) /\ Comes(r, h)
             /\ Sound(h) => Sound(r)
             /\ Firm(h) => Firm(r) /\ r[1].text = h[1].text
<1>1. CASE strategy = 1
  BY <1>1, SanitizeComes, SanitizeKeeps DEF repair
<1>2. CASE strategy = 2
  BY <1>2, CompactToComes DEF repair
<1>3. CASE strategy = 3
  <2> DEFINE s == Strip(h, Uses(h) \cup Results(h))
             r == DropLeading(s)
  <2>1. repair(strategy, h, keep) = r
    BY <1>3 DEF repair
  <2>2. s \in Seq(Msg(T, X)) /\ Comes(s, h) /\ (Sound(h) => Sound(s))
    BY StripComes
  <2>3. Firm(h) => Firm(s) /\ s[1].text = h[1].text
    BY StripKeeps
  <2> HIDE DEF s
  <2>4. r \in Seq(Msg(T, X)) /\ Within(r, s)
    BY <2>2, DropLeadingComes
  <2>5. Firm(h) => r = s
    BY <2>2, <2>3, DropNothing DEF Firm, Opens
  <2> HIDE DEF r
  <2>6. Comes(r, h)
    BY <2>2, <2>4, WithinComes, ComesTrans
  <2>7. Sound(h) => Sound(r)
    BY <2>2, <2>4, WithinSound
  <2>8. QED  BY <2>1, <2>3, <2>4, <2>5, <2>6, <2>7
<1>4. CASE strategy = 4
  <2> DEFINE r == IF h = <<>> THEN h ELSE <<h[1]>>
  <2>1. repair(strategy, h, keep) = r
    BY <1>4 DEF repair
  <2>2. r \in Seq(Msg(T, X)) /\ Within(r, h)
    BY FirstWithin, WithinRefl
  <2>3. Firm(h) => Firm(r) /\ r[1].text = h[1].text
    BY DEF Firm
  <2> HIDE DEF r
  <2>4. Comes(r, h) /\ (Sound(h) => Sound(r))
    BY <2>2, WithinComes, WithinSound
  <2>5. QED  BY <2>1, <2>2, <2>3, <2>4
<1>5. QED  BY <1>1, <1>2, <1>3, <1>4

\* A set of numbers that is bounded has a largest one.
LEMMA LargestExists ==
  ASSUME NEW m \in Nat, NEW S \in SUBSET (1..m), S # {}
  PROVE  \E k \in S : \A j \in S : j <= k
<1> DEFINE N == Cardinality(S)
<1>0. \A j \in S : j \in Nat
  OBVIOUS
<1>1. N \in Nat /\ N \in 1..N
  <2>1. PICK k \in S : TRUE
    OBVIOUS
  <2>2. \E n \in 1..N : Nth(S, n) = k
    BY NthEnumerates
  <2>3. QED  BY <2>2, NthEnumerates
<1>2. Nth(S, N) \in S
  BY <1>1, NthEnumerates
<1>3. ASSUME NEW j \in S PROVE j <= Nth(S, N)
  <2>1. PICK n \in 1..N : Nth(S, n) = j
    BY NthEnumerates
  <2>2. n = N \/ n < N
    BY <1>1
  <2>3. j = Nth(S, N) \/ j < Nth(S, N)
    BY <1>1, <2>1, <2>2, NthEnumerates
  <2>4. j \in Nat /\ Nth(S, N) \in Nat
    BY <1>0, <1>2
  <2>5. QED  BY <2>3, <2>4
<1>4. QED  BY <1>2, <1>3

\* Something is summarised and something kept; what is kept does not begin
\* with results, unless everything that might have been kept is results.
LEMMA SplitPointBounds ==
  ASSUME NEW X, NEW h \in Seq(X), Len(h) > Recent
  PROVE  /\ SplitPoint(h) \in 1..(Len(h) - Recent)
         /\ Len(h) - Recent \in 1..(Len(h) - 1)
         /\ \/ h[SplitPoint(h) + 1].results = <<>>
            \/ /\ SplitPoint(h) = Len(h) - Recent
               /\ \A k \in 1..(Len(h) - Recent) : h[k + 1].results # <<>>
<1> DEFINE wanted == Len(h) - Recent
           good == {k \in 1..wanted : h[k + 1].results = <<>>}
<1>1. Len(h) \in Nat /\ Recent \in Nat /\ Recent # 0 /\ wanted \in Nat /\ wanted # 0
  BY RecentAssumption
<1>2. CASE good = {}
  <2>1. SplitPoint(h) = wanted
    BY <1>2 DEF SplitPoint
  <2>2. \A k \in 1..wanted : h[k + 1].results # <<>>
    BY <1>2
  <2>3. wanted \in 1..wanted /\ wanted \in 1..(Len(h) - 1)
    BY <1>1
  <2>4. QED  BY <2>1, <2>2, <2>3
<1>3. CASE good # {}
  <2>1. \E k \in good : \A j \in good : j <= k
    BY <1>1, <1>3, LargestExists
  <2>2. SplitPoint(h) \in good
    BY <1>3, <2>1 DEF SplitPoint
  <2>3. QED  BY <1>1, <2>2
<1>4. QED  BY <1>2, <1>3

\* What a compaction keeps is the end of the history, and is not empty.
LEMMA ToKeepWithin ==
  ASSUME NEW X, NEW h \in Seq(X), Len(h) > Recent
  PROVE  LET split == SplitPoint(h)
         IN  /\ ToKeep(h) \in Seq(X) /\ Within(ToKeep(h), h)
             /\ Len(ToKeep(h)) = Len(h) - split /\ ToKeep(h) # <<>>
             /\ \A k \in 1..(Len(h) - split) : ToKeep(h)[k] = h[k + split]
             /\ Last(ToKeep(h)) = Last(h)
<1> DEFINE split == SplitPoint(h)
<1>1. Len(h) \in Nat /\ split \in Nat /\ split >= 1 /\ split <= Len(h) - 1
  BY SplitPointBounds
<1> HIDE DEF split
<1>2. split + 1 \in 1..(Len(h) + 1) /\ Len(h) - (split + 1) + 1 = Len(h) - split
  BY <1>1
<1>3. ToKeep(h) = SubSeq(h, split + 1, Len(h))
  BY DEF ToKeep, split
<1>4. /\ ToKeep(h) \in Seq(X) /\ Within(ToKeep(h), h) /\ Len(ToKeep(h)) = Len(h) - split
      /\ \A k \in 1..(Len(h) - split) : ToKeep(h)[k] = h[k + (split + 1) - 1]
  BY <1>2, <1>3, SuffixWithin
<1>5. \A k \in 1..(Len(h) - split) : ToKeep(h)[k] = h[k + split]
  BY <1>1, <1>4
<1>6. ToKeep(h) # <<>>
  BY <1>1, <1>4
<1>7. Last(ToKeep(h)) = Last(h)
  BY <1>1, <1>4, <1>5 DEF Last
<1>8. QED  BY <1>4, <1>5, <1>6, <1>7 DEF split

\* How many messages lie beyond the length there was.
Newer(h, before) == IF before < Len(h) THEN Len(h) - before ELSE 0


\* A compaction leaves the summary, what was kept and what arrived since, in this order.
LEMMA CompactedParts ==
  ASSUME NEW T, NEW X, NEW h \in Seq(Msg(T, X)), NEW before \in Nat, NEW keep \in Seq(Msg(T, X)),
         NEW plan, plan.before = before, plan.keep = keep, NEW summary \in T, summary # NoText
  PROVE  LET r == Compacted(h, plan, summary)
         IN  /\ r \in Seq(Msg(T, X)) /\ Len(r) = 1 + Len(keep) + Newer(h, before)
             /\ r[1] = UserText(summary)
             /\ \A k \in 1..Len(keep) : r[k + 1] = keep[k]
             /\ \A k \in 1..Newer(h, before) : r[k + 1 + Len(keep)] = h[k + before]
             /\ Firm(r)
             /\ Sound(h) /\ Sound(keep) => Sound(r)
<1> DEFINE new == Newer(h, before)
           u == UserText(summary)
           tail == SubSeq(h, before + 1, Len(h))
           r == Compacted(h, plan, summary)
<1>1. Len(h) \in Nat /\ Len(keep) \in Nat /\ new \in Nat
  BY DEF Newer
<1>2. u \in Msg(T, X) /\ u.role = "user" /\ u.uses = <<>> /\ ~Blank(u) /\ u.text = summary
  BY DEF UserText, Message, Msg, Blank
<1>3. tail \in Seq(Msg(T, X)) /\ Len(tail) = new /\ \A k \in 1..new : tail[k] = h[k + before]
  BY <1>1 DEF Newer
<1>4. r = <<u>> \o keep \o tail
  BY DEF Compacted
<1> HIDE DEF u, tail
<1> DEFINE a == <<u>> \o keep
<1>5. /\ a \in Seq(Msg(T, X)) /\ Len(a) = 1 + Len(keep) /\ a[1] = u
      /\ \A k \in 1..Len(keep) : a[k + 1] = keep[k]
  BY <1>1, <1>2
<1>6. r = a \o tail
  BY <1>4
<1> HIDE DEF a, r, new
<1>7. /\ r \in Seq(Msg(T, X)) /\ Len(r) = 1 + Len(keep) + new
      /\ \A k \in 1..(1 + Len(keep)) : r[k] = a[k]
      /\ \A k \in 1..new : r[k + 1 + Len(keep)] = tail[k]
  <2>1. /\ r \in Seq(Msg(T, X)) /\ Len(r) = Len(a) + Len(tail) /\ \A k \in 1..Len(a) : r[k] = a[k]
        /\ \A k \in 1..(Len(a) + Len(tail)) : k > Len(a) => r[k] = tail[k - Len(a)]
    <3> DEFINE M == Msg(T, X)
    <3>1. a \in Seq(M) /\ tail \in Seq(M)
      BY <1>3, <1>5
    <3> HIDE DEF M
    <3>2. /\ a \o tail \in Seq(M) /\ Len(a \o tail) = Len(a) + Len(tail)
          /\ \A k \in 1..(Len(a) + Len(tail)) :
               (a \o tail)[k] = IF k <= Len(a) THEN a[k] ELSE tail[k - Len(a)]
      BY ONLY <3>1, ConcatProperties
    <3>3. \A k \in 1..Len(a) : (a \o tail)[k] = a[k]
      BY <1>1, <1>3, <1>5, <3>2
    <3>4. \A k \in 1..(Len(a) + Len(tail)) : k > Len(a) => r[k] = tail[k - Len(a)]
      BY <1>1, <1>3, <1>5, <1>6, <3>2
    <3>5. QED  BY <1>6, <3>2, <3>3, <3>4 DEF M
  <2>2. ASSUME NEW k \in 1..new PROVE r[k + 1 + Len(keep)] = tail[k]
    <3>1. r[Len(a) + k] = tail[k]
      <4>1. Len(a) + k \in Nat /\ Len(a) + k > Len(a) /\ Len(a) + k <= Len(a) + Len(tail) /\ (Len(a) + k) - Len(a) = k
        BY <1>1, <1>3, <1>5
      <4>2. r[Len(a) + k] = tail[(Len(a) + k) - Len(a)]
        <5>1. Len(a) + k \in 1..(Len(a) + Len(tail))
          BY <1>1, <1>3, <1>5
        <5>2. QED  BY <2>1, <4>1, <5>1
      <4>3. QED  BY <4>1, <4>2
    <3>2. Len(a) + k = k + 1 + Len(keep)
      BY <1>1, <1>5
    <3>3. QED  BY <3>1, <3>2
  <2>3. QED  BY <1>3, <1>5, <2>1, <2>2
<1>8. r[1] = u /\ \A k \in 1..Len(keep) : r[k + 1] = keep[k]
  BY <1>1, <1>5, <1>7
<1>9. Firm(r)
  BY <1>1, <1>2, <1>7, <1>8 DEF Firm
<1>10. ASSUME Sound(h), Sound(keep) PROVE Sound(r)
  <2>1. ASSUME NEW k \in DOMAIN r, r[k].role = "user" PROVE r[k].uses = <<>> /\ ~Blank(r[k])
    <3>0. k \in Nat /\ 1 <= k /\ k <= 1 + Len(keep) + new
      BY <1>7
    <3>1. k = 1 \/ k - 1 \in 1..Len(keep) \/ k - 1 - Len(keep) \in 1..new
      BY <1>1, <3>0
    <3>2. CASE k = 1
      BY <1>2, <1>8, <3>2
    <3>3. CASE k - 1 \in 1..Len(keep)
      <4>1. r[(k - 1) + 1] = keep[k - 1] /\ (k - 1) + 1 = k /\ k - 1 \in DOMAIN keep
        <5>1. (k - 1) + 1 = k
          BY <3>0
        <5>2. QED  BY <1>1, <1>8, <3>3, <5>1
      <4>2. QED  BY <1>10, <2>1, <4>1 DEF Sound
    <3>4. CASE k - 1 - Len(keep) \in 1..new
      <4> DEFINE j == k - 1 - Len(keep)
      <4>1. j \in 1..new /\ k \in Nat /\ j + 1 + Len(keep) = k
        BY <1>1, <3>0, <3>4
      <4>2. r[k] = h[j + before]
        BY <1>3, <1>7, <4>1
      <4>3. j + before \in DOMAIN h
        BY <1>1, <4>1 DEF new, Newer
      <4>4. QED  BY <1>10, <2>1, <4>2, <4>3 DEF Sound
    <3>5. QED  BY <3>1, <3>2, <3>3, <3>4
  <2>2. QED  BY <2>1 DEF Sound
<1>11. QED  BY <1>3, <1>7, <1>8, <1>9, <1>10 DEF r, new, u

-----------------------------------------------------------------------------
(* Which blocks are left. *)

\* Whose id is among the uses, the results or the flaws of a history.
LEMMA BlocksAre ==
  ASSUME NEW h, NEW id
  PROVE  /\ id \in Uses(h) <=> \E k \in DOMAIN h : id \in ToSet(h[k].uses)
         /\ id \in Results(h) <=> \E k \in DOMAIN h : id \in ToSet(h[k].results)
         /\ id \in Flaws(h) <=>
              \E k \in DOMAIN h : \/ id \in ToSet(h[k].uses) /\ ~AnsweredNext(h, k, id)
                                  \/ id \in ToSet(h[k].results) /\ ~AskedBefore(h, k, id)
<1>1. id \in Uses(h) <=> \E k \in DOMAIN h : id \in ToSet(h[k].uses)
  BY DEF Uses
<1>2. id \in Results(h) <=> \E k \in DOMAIN h : id \in ToSet(h[k].results)
  BY DEF Results
<1>3. id \in Flaws(h) <=>
              \E k \in DOMAIN h : \/ id \in ToSet(h[k].uses) /\ ~AnsweredNext(h, k, id)
                                  \/ id \in ToSet(h[k].results) /\ ~AskedBefore(h, k, id)
  <2>1. id \in UNION {{i \in ToSet(h[k].uses) : ~AnsweredNext(h, k, i)} : k \in DOMAIN h}
        <=> \E k \in DOMAIN h : id \in ToSet(h[k].uses) /\ ~AnsweredNext(h, k, id)
    OBVIOUS
  <2>2. id \in UNION {{i \in ToSet(h[k].results) : ~AskedBefore(h, k, i)} : k \in DOMAIN h}
        <=> \E k \in DOMAIN h : id \in ToSet(h[k].results) /\ ~AskedBefore(h, k, id)
    OBVIOUS
  <2> DEFINE A == UNION {{i \in ToSet(h[k].uses) : ~AnsweredNext(h, k, i)} : k \in DOMAIN h}
             B == UNION {{i \in ToSet(h[k].results) : ~AskedBefore(h, k, i)} : k \in DOMAIN h}
  <2>3. Flaws(h) = A \cup B
    BY DEF Flaws
  <2>4. id \in A <=> \E k \in DOMAIN h : id \in ToSet(h[k].uses) /\ ~AnsweredNext(h, k, id)
    BY <2>1
  <2>5. id \in B <=> \E k \in DOMAIN h : id \in ToSet(h[k].results) /\ ~AskedBefore(h, k, id)
    BY <2>2
  <2> HIDE DEF A, B
  <2>6. QED  BY <2>3, <2>4, <2>5
<1>4. QED  BY <1>1, <1>2, <1>3

\* The ids a history speaks of, and those a provider finds badly paired.
LEMMA FlawsWithin ==
  ASSUME NEW T, NEW X, NEW h \in Seq(Msg(T, X))
  PROVE  Uses(h) \subseteq X /\ Results(h) \subseteq X /\ Flaws(h) \subseteq Uses(h) \cup Results(h)
<1>1. ASSUME NEW k \in DOMAIN h, NEW id
      PROVE  (id \in ToSet(h[k].uses) => id \in X) /\ (id \in ToSet(h[k].results) => id \in X)
  <2>1. h[k] \in Msg(T, X)
    OBVIOUS
  <2>2. h[k].uses \in Seq(X) /\ h[k].results \in Seq(X)
    BY <2>1 DEF Msg
  <2>3. QED  BY <2>2 DEF ToSet
<1>2. \A id : (id \in Uses(h) => id \in X) /\ (id \in Results(h) => id \in X)
  BY <1>1, BlocksAre
<1>3. \A id : id \in Flaws(h) => id \in Uses(h) \/ id \in Results(h)
  BY BlocksAre
<1>4. QED  BY <1>2, <1>3

\* What comes from a history has no other blocks.
LEMMA ComesBlocks ==
  ASSUME NEW T, NEW X, NEW r \in Seq(Msg(T, X)), NEW h \in Seq(Msg(T, X)), Comes(r, h)
  PROVE  Uses(r) \subseteq Uses(h) /\ Results(r) \subseteq Results(h)
<1>1. PICK g : Embeds(g, r, h) /\ \A k \in DOMAIN r : Lessened(r[k], h[g[k]])
  BY DEF Comes
<1>2. ASSUME NEW Y, NEW u \in Seq(Y), NEW v \in Seq(Y), Within(u, v) PROVE ToSet(u) \subseteq ToSet(v)
  BY <1>2 DEF Within, Embeds, ToSet
<1>3. ASSUME NEW k \in DOMAIN r
      PROVE  /\ g[k] \in DOMAIN h
             /\ ToSet(r[k].uses) \subseteq ToSet(h[g[k]].uses)
             /\ ToSet(r[k].results) \subseteq ToSet(h[g[k]].results)
  <2>1. g[k] \in DOMAIN h
    BY <1>1 DEF Embeds
  <2>5. r[k] \in Msg(T, X) /\ h[g[k]] \in Msg(T, X)
    BY <2>1
  <2>2. /\ r[k].uses \in Seq(X) /\ h[g[k]].uses \in Seq(X)
        /\ r[k].results \in Seq(X) /\ h[g[k]].results \in Seq(X)
    BY <2>5 DEF Msg
  <2>3. Within(r[k].uses, h[g[k]].uses) /\ Within(r[k].results, h[g[k]].results)
    BY <1>1 DEF Lessened
  <2>4. QED  BY <1>2, <2>1, <2>2, <2>3
<1>4. ASSUME NEW id PROVE (id \in Uses(r) => id \in Uses(h)) /\ (id \in Results(r) => id \in Results(h))
  BY <1>3, BlocksAre
<1>5. QED  BY <1>4

\* What was stripped is gone.
LEMMA StripRemoves ==
  ASSUME NEW T, NEW X, NEW h \in Seq(Msg(T, X)), NEW ids
  PROVE  Uses(Strip(h, ids)) \cap ids = {} /\ Results(Strip(h, ids)) \cap ids = {}
<1> DEFINE s == Stripped(h, ids)
           S == {k \in DOMAIN h : LET m == Without(h[k], ids) IN m = h[k] \/ ~Blank(m)}
<1>1. \A k \in DOMAIN h : Without(h[k], ids) \in Msg(T, X)
  BY WithoutType
<1>2. s \in Seq(Msg(T, X)) /\ DOMAIN s = DOMAIN h
  BY <1>1 DEF Stripped
<1>3. S \in SUBSET DOMAIN s
  BY <1>2
<1>4. /\ DOMAIN Only(s, S) = 1..Cardinality(S)
      /\ \A n \in 1..Cardinality(S) : Nth(S, n) \in DOMAIN s /\ Only(s, S)[n] = s[Nth(S, n)]
  BY <1>2, <1>3, OnlyPicks
<1>5. Strip(h, ids) = Only(s, S)
  BY DEF Strip
<1>6. ASSUME NEW n \in DOMAIN Strip(h, ids)
      PROVE  /\ ToSet(Strip(h, ids)[n].uses) \cap ids = {}
             /\ ToSet(Strip(h, ids)[n].results) \cap ids = {}
  <2> DEFINE k == Nth(S, n)
  <2>1. k \in DOMAIN h /\ Strip(h, ids)[n] = Without(h[k], ids)
    BY <1>2, <1>4, <1>5 DEF Stripped
  <2> HIDE DEF k
  <2>6. h[k] \in Msg(T, X)
    BY <2>1
  <2>2. h[k].uses \in Seq(X) /\ h[k].results \in Seq(X)
    BY <2>6 DEF Msg
  <2>3. Without(h[k], ids).uses = Less(h[k].uses, ids) /\ Without(h[k], ids).results = Less(h[k].results, ids)
    BY <2>6, WithoutType
  <2>4. /\ ToSet(Less(h[k].uses, ids)) = ToSet(h[k].uses) \ ids
        /\ ToSet(Less(h[k].results, ids)) = ToSet(h[k].results) \ ids
    BY <2>2, LessType
  <2>5. QED  BY <2>1, <2>3, <2>4
<1>7. ASSUME NEW id, id \in Uses(Strip(h, ids)) \/ id \in Results(Strip(h, ids)) PROVE id \notin ids
  BY <1>6, <1>7, BlocksAre
<1>8. QED  BY <1>7

\* The third repair leaves no block, the fourth at most what the first message has.
LEMMA StripAllBlocks ==
  ASSUME NEW T, NEW X, NEW h \in Seq(Msg(T, X)), NEW keep
  PROVE  Uses(repair(3, h, keep)) = {} /\ Results(repair(3, h, keep)) = {}
<1> DEFINE s == Strip(h, Uses(h) \cup Results(h))
<1>1. s \in Seq(Msg(T, X)) /\ Comes(s, h)
  BY StripComes
<1>3. Uses(s) \cap (Uses(h) \cup Results(h)) = {} /\ Results(s) \cap (Uses(h) \cup Results(h)) = {}
  BY StripRemoves
<1> HIDE DEF s
<1>2. Uses(s) \subseteq Uses(h) /\ Results(s) \subseteq Results(h)
  BY <1>1, ComesBlocks
<1>4. Uses(s) = {} /\ Results(s) = {}
  BY <1>2, <1>3
<1>5. DropLeading(s) \in Seq(Msg(T, X)) /\ Comes(DropLeading(s), s)
  BY <1>1, DropLeadingComes, WithinComes
<1>6. Uses(DropLeading(s)) = {} /\ Results(DropLeading(s)) = {}
  BY <1>1, <1>4, <1>5, ComesBlocks
<1>7. repair(3, h, keep) = DropLeading(s)
  BY DEF repair, s
<1>8. QED  BY <1>6, <1>7

-----------------------------------------------------------------------------
(* What is left of a history is its heir: messages of it, and a text of    *)
(* the user at its head stays there.                                       *)

Heir(r, h) == Comes(r, h) /\ (Firm(h) /\ r # <<>> => Firm(r) /\ r[1].text = h[1].text)

\* What cleaning leaves is an heir of the history.
LEMMA SanitizeHeir ==
  ASSUME NEW T, NEW X, NEW h \in Seq(Msg(T, X))
  PROVE  Heir(sanitize_history(h), h)
  BY SanitizeComes, SanitizeKeeps DEF Heir

\* So is what a trim leaves, and something is left of a history that a text of the user opens.
LEMMA TrimHeir ==
  ASSUME NEW T, NEW X, NEW h \in Seq(Msg(T, X)), NEW max \in Nat \ {0}
  PROVE  /\ Heir(trim_history(h, max), h)
         /\ Firm(h) => trim_history(h, max) # <<>>
<1>1. CASE Len(h) <= max
  BY <1>1, TrimComes DEF Heir, Firm
<1>2. CASE Len(h) > max
  <2> DEFINE c == Cut(h, Len(h) - max + 2)
  <2>1. trim_history(h, max) = sanitize_history(c)
    BY <1>2 DEF trim_history, Cut
  <2>2. Len(h) \in Nat /\ h # <<>> /\ Len(h) - max + 2 \in 2..(Len(h) + 1)
    BY <1>2
  <2>3. c \in Seq(Msg(T, X)) /\ c[1] = h[1] /\ Len(c) = max
    BY <2>2, CutWithin
  <2> HIDE DEF c
  <2>4. Firm(h) => Firm(c)
    BY <2>3 DEF Firm
  <2>5. Firm(c) => Firm(sanitize_history(c)) /\ sanitize_history(c)[1].text = c[1].text
    BY <2>3, SanitizeKeeps
  <2>6. Comes(trim_history(h, max), h)
    BY TrimComes
  <2>7. QED  BY <2>1, <2>3, <2>4, <2>5, <2>6 DEF Heir, Firm
<1>3. QED  BY <1>1, <1>2

\* So is what a repair leaves, and the text that opens the history stays.
LEMMA RepairHeir ==
  ASSUME NEW T, NEW X, NEW h \in Seq(Msg(T, X)), NEW keep \in Nat, NEW strategy \in 1..4
  PROVE  Heir(repair(strategy, h, keep), h) /\ (Firm(h) => Firm(repair(strategy, h, keep)))
<1>1. Comes(repair(strategy, h, keep), h)
  BY RepairComes
<1>2. Firm(h) => Firm(repair(strategy, h, keep)) /\ repair(strategy, h, keep)[1].text = h[1].text
  BY RepairComes, ZenonT(30)
<1>3. QED  BY <1>1, <1>2 DEF Heir

\* The last message is taken back.
LEMMA FrontHeir ==
  ASSUME NEW T, NEW X, NEW h \in Seq(Msg(T, X))
  PROVE  Heir(Front(h), h)
<1>1. CASE h = <<>>
  <2>1. Front(h) = SubSeq(h, 1, Len(h) - 1)
    BY DEF Front
  <2>2. Len(h) - 1 \in Int /\ Len(h) - 1 < 1
    BY <1>1
  <2>3. Front(h) = <<>>
    BY <2>1, <2>2, SubSeqEmpty, 1 \in Int
  <2>4. Within(h, h)
    BY WithinRefl
  <2>5. Comes(h, h)
    BY <2>4, WithinComes
  <2>6. QED  BY <1>1, <2>3, <2>5 DEF Heir
<1>2. CASE h # <<>>
  <2>1. /\ Front(h) \in Seq(Msg(T, X)) /\ Within(Front(h), h) /\ Len(Front(h)) = Len(h) - 1
        /\ \A k \in 1..(Len(h) - 1) : Front(h)[k] = h[k]
    BY <1>2, FrontWithin
  <2>2. Comes(Front(h), h)
    BY <2>1, WithinComes
  <2>3. ASSUME Front(h) # <<>> PROVE Front(h)[1] = h[1]
    <3>1. Len(Front(h)) # 0 /\ Len(h) \in Nat
      BY <2>1, <2>3
    <3>2. 1 \in 1..(Len(h) - 1)
      BY <2>1, <3>1
    <3>3. QED  BY <2>1, <3>2
  <2>4. QED  BY <1>2, <2>2, <2>3 DEF Heir, Firm
<1>3. QED  BY <1>1, <1>2

\* The heir of an heir is an heir.
LEMMA HeirTrans ==
  ASSUME NEW T, NEW X, NEW r \in Seq(Msg(T, X)), NEW s \in Seq(Msg(T, X)), NEW h \in Seq(Msg(T, X)),
         Heir(r, s), Heir(s, h), r # <<>> => s # <<>>
  PROVE  Heir(r, h)
<1>1. Comes(r, h)
  BY ComesTrans DEF Heir
<1>2. ASSUME Firm(h), r # <<>> PROVE Firm(r) /\ r[1].text = h[1].text
  BY <1>2 DEF Heir
<1>3. QED  BY <1>1, <1>2 DEF Heir

\* An empty history leaves nothing.
LEMMA HeirEmpty ==
  ASSUME NEW T, NEW X, NEW r \in Seq(Msg(T, X)), NEW h \in Seq(Msg(T, X)), Heir(r, h), h = <<>>
  PROVE  r = <<>>
<1>1. Len(r) <= Len(h)
  BY ComesShorter DEF Heir
<1>2. Len(h) = 0 /\ Len(r) \in Nat
  OBVIOUS
<1>3. QED  BY <1>1, <1>2

\* What a message added brings.
LEMMA AppendBlocks ==
  ASSUME NEW T, NEW X, NEW h \in Seq(Msg(T, X)), NEW m \in Msg(T, X)
  PROVE  /\ Uses(Append(h, m)) = Uses(h) \cup ToSet(m.uses)
         /\ Results(Append(h, m)) = Results(h) \cup ToSet(m.results)
         /\ Firm(h) => Firm(Append(h, m)) /\ Append(h, m)[1].text = h[1].text
<1> DEFINE r == Append(h, m)
           n == Len(h)
<1>1. n \in Nat /\ DOMAIN r = 1..(n + 1) /\ DOMAIN h = 1..n /\ r[n + 1] = m /\ \A k \in 1..n : r[k] = h[k]
  OBVIOUS
<1>5. DOMAIN r = DOMAIN h \cup {n + 1}
  BY <1>1
<1> HIDE DEF r, n
<1>2. \A id : id \in Uses(r) <=> id \in Uses(h) \/ id \in ToSet(m.uses)
  BY <1>1, <1>5, BlocksAre
<1>3. \A id : id \in Results(r) <=> id \in Results(h) \/ id \in ToSet(m.results)
  BY <1>1, <1>5, BlocksAre
<1>4. Firm(h) => Firm(r) /\ r[1].text = h[1].text
  <2>1. h # <<>> => 1 \in 1..n /\ r # <<>>
    BY <1>1 DEF n
  <2>2. QED  BY <1>1, <2>1 DEF Firm
<1>6. QED  BY <1>2, <1>3, <1>4 DEF r

\* The members of a sequence that grew are those it had and the new one.
LEMMA ToSetIs ==
  ASSUME NEW X, NEW s \in Seq(X), NEW id
  PROVE  ToSet(Append(s, id)) = ToSet(s) \cup {id} /\ ToSet(<<>>) = {} /\ ToSet(<<id>>) = {id}
<1>1. Len(s) \in Nat /\ DOMAIN s = 1..Len(s) /\ DOMAIN Append(s, id) = 1..(Len(s) + 1)
  OBVIOUS
<1>2. Append(s, id)[Len(s) + 1] = id /\ \A k \in DOMAIN s : Append(s, id)[k] = s[k]
  OBVIOUS
<1> DEFINE r == Append(s, id)
<1>5. DOMAIN r = DOMAIN s \cup {Len(s) + 1}
  BY <1>1
<1> HIDE DEF r
<1>3. ToSet(r) = ToSet(s) \cup {id}
  BY <1>2, <1>5 DEF ToSet, r
<1>4. ToSet(<<>>) = {} /\ ToSet(<<id>>) = {id}
  <2>1. DOMAIN <<>> = {} /\ DOMAIN <<id>> = {1} /\ <<id>>[1] = id
    OBVIOUS
  <2>2. ToSet(<<>>) = {}
    BY DEF ToSet
  <2>3. \A i : i \in ToSet(<<id>>) <=> i = id
    BY <2>1 DEF ToSet
  <2>4. QED  BY <2>2, <2>3
<1>6. QED  BY <1>3, <1>4 DEF r

\* A result adds its own block and no other, and leaves the text that opens the history.
LEMMA AddResultBlocks ==
  ASSUME NEW T, NEW X, NoText \in T, NEW h \in Seq(Msg(T, X)), NEW id \in X
  PROVE  /\ Uses(add_tool_result(h, id)) = Uses(h)
         /\ Results(add_tool_result(h, id)) = Results(h) \cup {id}
         /\ Firm(h) => Firm(add_tool_result(h, id)) /\ add_tool_result(h, id)[1].text = h[1].text
<1>1. CASE Joins(h)
  <2> DEFINE n == Len(h)
             r == [h EXCEPT ![n].results = Append(@, id)]
  <2>1. add_tool_result(h, id) = r
    BY <1>1 DEF add_tool_result
  <2>2. n \in DOMAIN h /\ Last(h) = h[n] /\ h[n] \in Msg(T, X)
    BY <1>1 DEF Last, Joins
  <2>3. h[n].results \in Seq(X)
    BY <2>2 DEF Msg
  <2>4. DOMAIN r = DOMAIN h /\ \A k \in DOMAIN h : k # n => r[k] = h[k]
    OBVIOUS
  <2>5. /\ r[n].results = Append(h[n].results, id) /\ r[n].uses = h[n].uses
        /\ r[n].role = h[n].role /\ r[n].text = h[n].text
    BY <2>2 DEF Msg
  <2>6. ToSet(r[n].results) = ToSet(h[n].results) \cup {id}
    BY <2>3, <2>5, ToSetIs
  <2> HIDE DEF r, n
  <2>7. \A i : i \in Uses(r) <=> i \in Uses(h)
    BY <2>4, <2>5, BlocksAre
  <2>8. \A i : i \in Results(r) <=> i \in Results(h) \/ i = id
    <3>1. ASSUME NEW i, i \in Results(r) PROVE i \in Results(h) \/ i = id
      <4>1. PICK k \in DOMAIN r : i \in ToSet(r[k].results)
        BY <3>1, BlocksAre
      <4>2. QED  BY <2>2, <2>4, <2>6, <4>1, BlocksAre
    <3>2. ASSUME NEW i, i \in Results(h) PROVE i \in Results(r)
      <4>1. PICK k \in DOMAIN h : i \in ToSet(h[k].results)
        BY <3>2, BlocksAre
      <4>2. i \in ToSet(r[k].results) /\ k \in DOMAIN r
        BY <2>4, <2>6, <4>1
      <4>3. QED  BY <4>2, BlocksAre
    <3>3. id \in Results(r)
      BY <2>2, <2>4, <2>6, BlocksAre
    <3>4. QED  BY <3>1, <3>2, <3>3
  <2>9. r # <<>> /\ 1 \in DOMAIN h
    BY <1>1, <2>2, <2>4 DEF Joins
  <2>10. r[1].text = h[1].text /\ r[1].role = h[1].role
    BY <2>4, <2>5, <2>9
  <2>11. QED  BY <2>1, <2>7, <2>8, <2>9, <2>10 DEF Firm
<1>2. CASE ~Joins(h)
  <2>1. add_tool_result(h, id) = Append(h, ToolResult(id))
    BY <1>2 DEF add_tool_result
  <2>2. ToolResult(id) \in Msg(T, X) /\ ToolResult(id).uses = <<>> /\ ToolResult(id).results = <<id>>
    BY DEF ToolResult, Message, Msg
  <2>3. ToSet(<<>>) = {} /\ ToSet(<<id>>) = {id}
    BY ToSetIs, <<>> \in Seq(X)
  <2> DEFINE m == ToolResult(id)
  <2>4. m \in Msg(T, X) /\ ToSet(m.uses) = {} /\ ToSet(m.results) = {id}
    BY <2>2, <2>3
  <2> HIDE DEF m
  <2>5. /\ Uses(Append(h, m)) = Uses(h) \cup ToSet(m.uses)
        /\ Results(Append(h, m)) = Results(h) \cup ToSet(m.results)
        /\ Firm(h) => Firm(Append(h, m)) /\ Append(h, m)[1].text = h[1].text
    <3>1. m \in Msg(T, X)
      BY <2>4
    <3>2. Uses(Append(h, m)) = Uses(h) \cup ToSet(m.uses)
      BY ONLY <3>1, AppendBlocks, h \in Seq(Msg(T, X))
    <3>3. Results(Append(h, m)) = Results(h) \cup ToSet(m.results)
      BY ONLY <3>1, AppendBlocks, h \in Seq(Msg(T, X))
    <3>4. Firm(h) => Firm(Append(h, m)) /\ Append(h, m)[1].text = h[1].text
      BY ONLY <3>1, AppendBlocks, h \in Seq(Msg(T, X)) DEF Firm
    <3>5. QED  BY <3>2, <3>3, <3>4
  <2>6. add_tool_result(h, id) = Append(h, m)
    BY <2>1 DEF m
  <2>7. QED  BY <2>4, <2>5, <2>6
<1>3. QED  BY <1>1, <1>2

\* What the user says last is not trimmed away, if two messages may stay.
LEMMA TrimSpoken ==
  ASSUME NEW T, NEW X, NEW h \in Seq(Msg(T, X)), NEW m \in Msg(T, X), m.role = "user", m.text # NoText,
         NEW max \in Nat, max >= 2
  PROVE  Spoken(trim_history(Append(h, m), max))
<1> DEFINE r == Append(h, m)
           n == Len(h) + 1
<1>1. r \in Seq(Msg(T, X)) /\ Len(r) = n /\ n \in Nat /\ n >= 1 /\ r[n] = m
  OBVIOUS
<1> HIDE DEF r, n
<1>2. CASE n <= max
  <2>1. trim_history(r, max) = r
    BY <1>1, <1>2 DEF trim_history
  <2>2. Spoken(r)
    BY <1>1 DEF Spoken
  <2>3. QED  BY <2>1, <2>2 DEF r
<1>3. CASE n > max
  <2> DEFINE c == Cut(r, n - max + 2)
  <2>1. trim_history(r, max) = sanitize_history(c)
    BY <1>1, <1>3 DEF trim_history, Cut
  <2>2. r # <<>> /\ n - max + 2 \in 2..(n + 1)
    BY <1>1, <1>3
  <2>3. /\ c \in Seq(Msg(T, X)) /\ Len(c) = n - (n - max + 2) + 2
        /\ \A k \in 2..(n - (n - max + 2) + 2) : c[k] = r[k + (n - max + 2) - 2]
    BY <1>1, <2>2, CutWithin
  <2>4. Len(c) = max /\ max \in 2..(n - (n - max + 2) + 2) /\ max + (n - max + 2) - 2 = n
    BY <1>1, <2>3
  <2>5. max \in DOMAIN c /\ c[max] = m
    BY <1>1, <2>3, <2>4
  <2> HIDE DEF c
  <2>6. Spoken(c)
    BY <2>5 DEF Spoken
  <2>7. Spoken(sanitize_history(c))
    BY <2>3, <2>6, SanitizeKeeps
  <2>8. QED  BY <2>1, <2>7 DEF r
<1>4. QED  BY <1>1, <1>2, <1>3

-----------------------------------------------------------------------------
(* How long it is. *)

\* A message of results is the user's, and nothing else is in it.
Tidy(h) == \A k \in DOMAIN h : h[k].results # <<>> => h[k].role = "user" /\ h[k].text = NoText

\* What comes from a tidy history is tidy.
LEMMA ComesTidy ==
  ASSUME NEW T, NEW X, NEW r \in Seq(Msg(T, X)), NEW h \in Seq(Msg(T, X)), Comes(r, h), Tidy(h)
  PROVE  Tidy(r)
<1>1. PICK g : Embeds(g, r, h) /\ \A k \in DOMAIN r : Lessened(r[k], h[g[k]])
  BY DEF Comes
<1>2. ASSUME NEW k \in DOMAIN r, r[k].results # <<>> PROVE r[k].role = "user" /\ r[k].text = NoText
  <2>1. g[k] \in DOMAIN h
    BY <1>1 DEF Embeds
  <2>2. r[k] \in Msg(T, X) /\ h[g[k]] \in Msg(T, X)
    BY <2>1
  <2>3. r[k].results \in Seq(X) /\ h[g[k]].results \in Seq(X) /\ Within(r[k].results, h[g[k]].results)
    BY <1>1, <2>2 DEF Msg, Lessened
  <2>4. h[g[k]].results # <<>>
    <3>1. 1 \in DOMAIN r[k].results
      BY <1>2, <2>3
    <3>2. DOMAIN h[g[k]].results # {}
      BY <2>3, <3>1 DEF Within, Embeds
    <3>3. QED  BY <3>2
  <2>5. QED  BY <1>1, <2>1, <2>4 DEF Lessened, Tidy
<1>3. QED  BY <1>2 DEF Tidy

\* A part of a tidy history is tidy.
LEMMA WithinTidy ==
  ASSUME NEW T, NEW X, NEW r \in Seq(Msg(T, X)), NEW h \in Seq(Msg(T, X)), Within(r, h), Tidy(h)
  PROVE  Tidy(r)
  BY WithinComes, ComesTidy

\* Where nothing was left out, every message is in its place.
LEMMA ComesInPlace ==
  ASSUME NEW T, NEW X, NEW r \in Seq(Msg(T, X)), NEW h \in Seq(Msg(T, X)), Comes(r, h), Len(r) = Len(h)
  PROVE  \A k \in DOMAIN r : Lessened(r[k], h[k])
<1>1. PICK g : Embeds(g, r, h) /\ \A k \in DOMAIN r : Lessened(r[k], h[g[k]])
  BY DEF Comes
<1> DEFINE n == Len(h)
           G == DOMAIN r
<1>2. n \in Nat /\ G = 1..n /\ DOMAIN h = 1..n
  OBVIOUS
<1>3. g \in [G -> 1..n] /\ \A k \in G : k <= g[k] /\ \A j \in G : j < k => g[j] < g[k]
  BY <1>1, <1>2 DEF Embeds
<1> HIDE DEF n, G
<1>5. ASSUME NEW k \in G PROVE g[k] = k
  <2>1. \A S \in SUBSET (1..n) : S # {} => \E l \in S : \A j \in S : j <= l
    BY <1>2, LargestExists
  <2> DEFINE S == {l \in G : l < g[l]}
  <2>2. S \in SUBSET (1..n)
    BY <1>2
  <2>3. ASSUME S # {} PROVE FALSE
    <3>1. PICK l \in S : \A j \in S : j <= l
      BY <2>1, <2>2, <2>3
    <3>2. l \in G /\ l < g[l] /\ g[l] \in 1..n /\ l \in 1..n
      BY <1>2, <1>3, <3>1
    <3>3. g[l] \in G /\ g[l] \notin S
      BY <1>2, <3>1, <3>2
    <3>4. g[g[l]] = g[l]
      <4>1. g[l] <= g[g[l]] /\ g[g[l]] \in 1..n
        BY <1>3, <3>3
      <4>2. ~(g[l] < g[g[l]])
        BY <3>3
      <4>3. QED  BY <3>2, <4>1, <4>2
    <3>5. g[l] < g[g[l]]
      BY <1>3, <3>2, <3>3
    <3>6. QED  BY <3>2, <3>4, <3>5
  <2>4. k \notin S /\ k \in 1..n /\ g[k] \in 1..n /\ k <= g[k]
    BY <1>2, <1>3, <2>3
  <2>5. QED  BY <2>4
<1>6. QED  BY <1>1, <1>5 DEF G

\* What is left of a history is no longer than the history might be.
LEMMA ComesFits ==
  ASSUME NEW T, NEW X, NEW r \in Seq(Msg(T, X)), NEW h \in Seq(Msg(T, X)), Comes(r, h),
         Sound(r), Sound(h), Tidy(h), NEW n \in Nat, Fits(h, n)
  PROVE  Fits(r, n)
<1>1. Len(r) \in Nat /\ Len(h) \in Nat /\ Len(r) <= Len(h)
  BY ComesShorter
<1>2. CASE Len(r) < Len(h)
  BY <1>1, <1>2 DEF Fits, Excess, Joins
<1>3. CASE Len(r) = Len(h) /\ Excess(h) = 0
  BY <1>1, <1>3 DEF Fits, Excess
<1>4. CASE Len(r) = Len(h) /\ Excess(h) = 1
  <2> DEFINE e == Len(h)
  <2>1. h # <<>> /\ Last(h).results # <<>> /\ Last(h) = h[e] /\ e \in DOMAIN h /\ e \in DOMAIN r /\ Last(r) = r[e]
    BY <1>4 DEF Excess, Joins, Last
  <2>2. Lessened(r[e], h[e])
    BY <1>4, <2>1, ComesInPlace
  <2>3. h[e].role = "user" /\ h[e].text = NoText /\ h[e].uses = <<>>
    BY <2>1 DEF Tidy, Sound
  <2>4. r[e] \in Msg(T, X)
    BY <2>1
  <2>5. r[e].role = "user" /\ r[e].text = NoText /\ r[e].uses = <<>>
    BY <2>1, <2>2, <2>3 DEF Lessened, Sound
  <2>6. r[e].results # <<>>
    BY <2>1, <2>5 DEF Sound, Blank
  <2>7. r # <<>>
    BY <2>1
  <2>8. Excess(r) = 1
    BY <2>1, <2>6, <2>7 DEF Excess, Joins
  <2>9. QED  BY <1>4, <2>8 DEF Fits
<1>5. QED  BY <1>1, <1>2, <1>3, <1>4 DEF Excess

\* A tidy history stays tidy when a message is appended.
LEMMA AppendTidy ==
  ASSUME NEW T, NEW X, NEW h \in Seq(Msg(T, X)), NEW m \in Msg(T, X), Tidy(h),
         m.results # <<>> => m.role = "user" /\ m.text = NoText
  PROVE  Tidy(Append(h, m))
<1> DEFINE r == Append(h, m)
<1>1. /\ \A k \in DOMAIN r : k \in DOMAIN h \/ k = Len(h) + 1
      /\ r[Len(h) + 1] = m /\ \A k \in DOMAIN h : r[k] = h[k]
  OBVIOUS
<1> HIDE DEF r
<1>2. Tidy(r)
  BY <1>1 DEF Tidy
<1>3. QED  BY <1>2 DEF r

\* A result makes the history longer only where it makes a message of results.
LEMMA AddResultFits ==
  ASSUME NEW T, NEW X, NoText \in T, NEW h \in Seq(Msg(T, X)), NEW id \in X, Tidy(h), NEW n \in Nat, Fits(h, n)
  PROVE  Tidy(add_tool_result(h, id)) /\ Fits(add_tool_result(h, id), n)
<1> DEFINE r == add_tool_result(h, id)
<1>0. r \in Seq(Msg(T, X))
  BY AddResultType
<1>1. CASE Joins(h)
  <2>11. Len(r) = Len(h)
    BY <1>1, AddResultType
  <2>12. Last(r).results = Append(Last(h).results, id)
    BY <1>1, AddResultType
  <2>2. \A k \in 1..Len(h) : /\ r[k].role = h[k].role /\ r[k].text = h[k].text
                             /\ k < Len(h) => r[k] = h[k]
    BY <1>1, AddResultType
  <2> HIDE DEF r
  <2>1. Len(r) = Len(h) /\ r \in Seq(Msg(T, X)) /\ Last(r).results = Append(Last(h).results, id)
    BY <1>0, <2>11, <2>12
  <2>3. Len(h) \in Nat /\ Len(h) # 0 /\ Last(h) = h[Len(h)] /\ Last(h) \in Msg(T, X)
    BY <1>1 DEF Last, Joins
  <2>4. Last(h).results \in Seq(X)
    BY <2>3 DEF Msg
  <2>5. Last(r).results # <<>> /\ r # <<>>
    <3>1. ASSUME NEW s \in Seq(X) PROVE Append(s, id) # <<>>
      OBVIOUS
    <3>2. Append(Last(h).results, id) # <<>>
      BY ONLY <2>4, <3>1
    <3>3. QED  BY ONLY <2>1, <2>3, <3>2
  <2>6. Fits(r, n)
    BY <1>1, <2>1, <2>5 DEF Fits, Excess, Joins
  <2>7. DOMAIN r = 1..Len(h) /\ DOMAIN h = 1..Len(h) /\ Len(h) \in 1..Len(h)
    BY <2>1, <2>3
  <2>8. h[Len(h)].role = "user" /\ h[Len(h)].text = NoText
    BY <1>1, <2>3, <2>7 DEF Tidy, Joins
  <2>9. ASSUME NEW k \in 1..Len(h), r[k].results # <<>> PROVE r[k].role = "user" /\ r[k].text = NoText
    <3>1. CASE k = Len(h)
      BY <2>2, <2>8, <3>1
    <3>2. CASE k < Len(h)
      BY <2>2, <2>7, <2>9, <3>2 DEF Tidy
    <3>3. QED  BY <2>3, <3>1, <3>2
  <2>10. QED  BY <2>6, <2>7, <2>9 DEF Tidy, r
<1>2. CASE ~Joins(h)
  <2> DEFINE m == ToolResult(id)
  <2>1. r = Append(h, m)
    BY <1>2 DEF add_tool_result, Joins
  <2>2. m \in Msg(T, X) /\ m.role = "user" /\ m.text = NoText /\ m.results # <<>>
    BY DEF ToolResult, Message, Msg
  <2> HIDE DEF m
  <2>3. Tidy(r)
    BY <2>1, <2>2, AppendTidy
  <2>4. Len(r) = Len(h) + 1 /\ r # <<>> /\ Last(r) = m
    BY <2>1 DEF Last
  <2>5. Excess(h) = 0 /\ Excess(r) = 1
    BY <1>2, <2>2, <2>4 DEF Excess, Joins
  <2>6. QED  BY <2>3, <2>4, <2>5 DEF Fits
<1>3. QED  BY <1>1, <1>2

\* A compaction brings back what it kept, and what came since.
LEMMA CompactedFits ==
  ASSUME NEW T, NEW X, NEW h \in Seq(Msg(T, X)), NEW before \in Nat, NEW keep \in Seq(Msg(T, X)),
         NEW plan, plan.before = before, plan.keep = keep, NEW summary \in T, summary # NoText,
         Tidy(h), Tidy(keep), keep # <<>>, Len(keep) + 1 <= before,
         NEW n \in Nat, Fits(h, n), NEW m \in Nat, Len(keep) + 1 <= m + Excess(keep)
  PROVE  LET r == Compacted(h, plan, summary)
         IN  Tidy(r) /\ (Fits(r, n) \/ Fits(r, m))
<1> DEFINE new == Newer(h, before)
           r == Compacted(h, plan, summary)
<1>11. r \in Seq(Msg(T, X))
  BY CompactedParts
<1>12. Len(r) = 1 + Len(keep) + new
  BY CompactedParts
<1>13. r[1] = UserText(summary)
  BY CompactedParts
<1>14. \A k \in 1..Len(keep) : r[k + 1] = keep[k]
  BY CompactedParts
<1>15. \A k \in 1..new : r[k + 1 + Len(keep)] = h[k + before]
  BY CompactedParts
<1>1. /\ r \in Seq(Msg(T, X)) /\ Len(r) = 1 + Len(keep) + new
      /\ r[1] = UserText(summary)
      /\ \A k \in 1..Len(keep) : r[k + 1] = keep[k]
      /\ \A k \in 1..new : r[k + 1 + Len(keep)] = h[k + before]
  BY <1>11, <1>12, <1>13, <1>14, <1>15
<1>2. Len(h) \in Nat /\ Len(keep) \in Nat /\ Len(keep) # 0 /\ new \in Nat
  BY DEF Newer
<1> HIDE DEF r
<1>8. Len(r) \in Nat
  BY <1>11
<1>3. Last(r) = r[Len(r)] /\ Last(h) = h[Len(h)] /\ Last(keep) = keep[Len(keep)]
  BY DEF Last
<1>4. ASSUME before < Len(h) PROVE Fits(r, n)
  <2>1. new = Len(h) - before /\ new \in 1..new /\ Len(r) = new + 1 + Len(keep) /\ new + before = Len(h)
    BY <1>1, <1>2, <1>4 DEF Newer
  <2>2. r[new + 1 + Len(keep)] = h[new + before]
    BY <1>1, <2>1
  <2>3. Last(r) = Last(h)
    BY <1>3, <2>1, <2>2
  <2>4. r # <<>> /\ h # <<>>
    BY <1>1, <1>2, <1>4
  <2>5. Excess(r) = Excess(h)
    BY <2>3, <2>4 DEF Excess, Joins
  <2>6. Len(r) <= Len(h)
    BY <1>2, <2>1
  <2>7. Excess(h) \in Nat /\ Len(h) <= n + Excess(h)
    BY DEF Excess, Fits
  <2>9. Len(r) <= n + Excess(r)
    BY <1>2, <1>8, <2>5, <2>6, <2>7
  <2>10. QED  BY <2>9 DEF Fits
<1>5. ASSUME ~(before < Len(h)) PROVE Fits(r, m)
  <2>1. Len(r) = Len(keep) + 1 /\ Len(keep) \in 1..Len(keep)
    BY <1>1, <1>2, <1>5 DEF Newer
  <2>2. Last(r) = Last(keep)
    BY <1>1, <1>3, <2>1
  <2>3. r # <<>>
    BY <1>2, <2>1
  <2>4. Excess(r) = Excess(keep)
    BY <2>2, <2>3 DEF Excess, Joins
  <2>5. QED  BY <2>1, <2>4 DEF Fits
<1>6. Tidy(r)
  <2>1. UserText(summary).results = <<>>
    BY DEF UserText, Message
  <2>2. ASSUME NEW k \in DOMAIN r, r[k].results # <<>> PROVE r[k].role = "user" /\ r[k].text = NoText
    <3>1. k \in 1..(1 + Len(keep) + new)
      BY <1>1
    <3>2. CASE k = 1
      BY <1>1, <2>1, <2>2, <3>2
    <3>3. CASE k > 1 /\ k <= 1 + Len(keep)
      <4>1. k - 1 \in 1..Len(keep) /\ (k - 1) + 1 = k /\ k - 1 \in DOMAIN keep
        BY <1>2, <3>1, <3>3
      <4>2. r[k] = keep[k - 1]
        BY <1>1, <4>1
      <4>3. QED  BY <2>2, <4>1, <4>2 DEF Tidy
    <3>4. CASE k > 1 + Len(keep)
      <4>1. k - 1 - Len(keep) \in 1..new /\ (k - 1 - Len(keep)) + 1 + Len(keep) = k
        BY <1>2, <3>1, <3>4
      <4>2. r[k] = h[k - 1 - Len(keep) + before]
        BY <1>1, <4>1
      <4>3. k - 1 - Len(keep) + before \in DOMAIN h
        BY <1>2, <4>1 DEF Newer
      <4>4. QED  BY <2>2, <4>2, <4>3 DEF Tidy
    <3>5. QED  BY <1>2, <3>1, <3>2, <3>3, <3>4
  <2>3. QED  BY <2>2 DEF Tidy
<1>7. QED  BY <1>4, <1>5, <1>6 DEF r
-----------------------------------------------------------------------------
(* Which results are there once. *)

\* No result but those in E is at two places.
Single(h, E) ==
  \A k, l \in DOMAIN h : \A i \in DOMAIN h[k].results, j \in DOMAIN h[l].results :
    h[k].results[i] = h[l].results[j] => (k = l /\ i = j) \/ h[k].results[i] \in E

\* None of ids is beyond the place n.
Past(h, n, ids) == \A k \in DOMAIN h : k > n => \A i \in DOMAIN h[k].results : h[k].results[i] \notin ids

\* An increasing map takes no two places to one.
LEMMA EmbedsApart ==
  ASSUME NEW X, NEW Y, NEW r \in Seq(X), NEW h \in Seq(Y), NEW g, Embeds(g, r, h)
  PROVE  \A j, k \in DOMAIN r : g[j] = g[k] => j = k
<1>1. DOMAIN r \subseteq Nat /\ DOMAIN h \subseteq Nat
  OBVIOUS
<1>2. ASSUME NEW j \in DOMAIN r, NEW k \in DOMAIN r, g[j] = g[k], j # k PROVE FALSE
  <2>1. g[j] \in Nat /\ (j < k \/ k < j)
    BY <1>1, <1>2 DEF Embeds
  <2>2. (j < k => g[j] < g[k]) /\ (k < j => g[k] < g[j])
    BY DEF Embeds
  <2>3. QED  BY <1>2, <2>1, <2>2
<1>3. QED  BY <1>2

\* What comes from a history has a result at two places only if it has, and
\* no result further down.
LEMMA ComesSingle ==
  ASSUME NEW T, NEW X, NEW r \in Seq(Msg(T, X)), NEW h \in Seq(Msg(T, X)), Comes(r, h), NEW E
  PROVE  /\ Single(h, E) => Single(r, E)
         /\ \A n \in Nat : \A ids : Past(h, n, ids) => Past(r, n, ids)
<1>1. PICK g : Embeds(g, r, h) /\ \A k \in DOMAIN r : Lessened(r[k], h[g[k]])
  BY DEF Comes
<1>2. \A k \in DOMAIN r : g[k] \in DOMAIN h /\ k <= g[k]
  BY <1>1 DEF Embeds
<1>3. \A j, k \in DOMAIN r : g[j] = g[k] => j = k
  BY <1>1, EmbedsApart
<1>4. ASSUME NEW k \in DOMAIN r
      PROVE  \E f : /\ \A i \in DOMAIN r[k].results :
                         f[i] \in DOMAIN h[g[k]].results /\ r[k].results[i] = h[g[k]].results[f[i]]
                    /\ \A i, j \in DOMAIN r[k].results : f[i] = f[j] => i = j
  <2>1. r[k] \in Msg(T, X) /\ h[g[k]] \in Msg(T, X)
    BY <1>2
  <2>2. r[k].results \in Seq(X) /\ h[g[k]].results \in Seq(X)
    BY <2>1 DEF Msg
  <2>3. PICK f : /\ Embeds(f, r[k].results, h[g[k]].results)
                 /\ \A i \in DOMAIN r[k].results : r[k].results[i] = h[g[k]].results[f[i]]
    BY <1>1 DEF Lessened, Within
  <2>4. \A i, j \in DOMAIN r[k].results : f[i] = f[j] => i = j
    BY <2>2, <2>3, EmbedsApart
  <2>5. \A i \in DOMAIN r[k].results : f[i] \in DOMAIN h[g[k]].results
    BY <2>3 DEF Embeds
  <2>6. QED  BY <2>3, <2>4, <2>5
<1>5. ASSUME Single(h, E) PROVE Single(r, E)
  <2>1. ASSUME NEW k \in DOMAIN r, NEW l \in DOMAIN r,
               NEW i \in DOMAIN r[k].results, NEW j \in DOMAIN r[l].results,
               r[k].results[i] = r[l].results[j], r[k].results[i] \notin E
        PROVE  k = l /\ i = j
    <3>1. PICK f : /\ \A a \in DOMAIN r[k].results :
                        f[a] \in DOMAIN h[g[k]].results /\ r[k].results[a] = h[g[k]].results[f[a]]
                   /\ \A a, b \in DOMAIN r[k].results : f[a] = f[b] => a = b
      BY <1>4
    <3>2. CASE k = l
      <4> DEFINE q == h[g[k]].results
      <4>1. f[i] \in DOMAIN q /\ f[j] \in DOMAIN q /\ q[f[i]] = q[f[j]] /\ q[f[i]] \notin E
        BY <2>1, <3>1, <3>2
      <4>2. f[i] = f[j]
        BY <1>2, <1>5, <4>1 DEF Single
      <4>3. QED  BY <2>1, <3>1, <3>2, <4>2
    <3>3. CASE k # l
      <4>1. PICK e : \A a \in DOMAIN r[l].results :
                       e[a] \in DOMAIN h[g[l]].results /\ r[l].results[a] = h[g[l]].results[e[a]]
        BY <1>4
      <4> DEFINE q == h[g[k]].results
                 p == h[g[l]].results
      <4>2. f[i] \in DOMAIN q /\ e[j] \in DOMAIN p /\ q[f[i]] = p[e[j]] /\ q[f[i]] \notin E
        BY <2>1, <3>1, <4>1
      <4>3. g[k] = g[l]
        BY <1>2, <1>5, <4>2 DEF Single
      <4>4. QED  BY <1>3, <3>3, <4>3
    <3>4. QED  BY <3>2, <3>3
  <2>2. QED  BY <2>1 DEF Single
<1>6. ASSUME NEW n \in Nat, NEW ids, Past(h, n, ids) PROVE Past(r, n, ids)
  <2>1. ASSUME NEW k \in DOMAIN r, k > n, NEW i \in DOMAIN r[k].results PROVE r[k].results[i] \notin ids
    <3>1. g[k] \in DOMAIN h /\ g[k] > n
      <4>1. k \in Nat /\ g[k] \in Nat
        BY <1>2
      <4>2. QED  BY <1>2, <2>1, <4>1
    <3>2. QED  BY <1>4, <1>6, <3>1 DEF Past
  <2>2. QED  BY <2>1 DEF Past
<1>7. QED  BY <1>5, <1>6

\* A message without results.
LEMMA AppendSingle ==
  ASSUME NEW T, NEW X, NEW h \in Seq(Msg(T, X)), NEW m \in Msg(T, X), m.results = <<>>, NEW E
  PROVE  /\ Single(h, E) => Single(Append(h, m), E)
         /\ \A n, ids : Past(h, n, ids) => Past(Append(h, m), n, ids)
<1> DEFINE r == Append(h, m)
<1>1. \A k \in DOMAIN r : (k \in DOMAIN h /\ r[k] = h[k]) \/ r[k] = m
  OBVIOUS
<1>2. DOMAIN m.results = {}
  OBVIOUS
<1> HIDE DEF r
<1>3. \A k \in DOMAIN r : \A i \in DOMAIN r[k].results : k \in DOMAIN h /\ r[k] = h[k]
  BY <1>1, <1>2
<1>4. Single(h, E) => Single(r, E)
  BY <1>3 DEF Single
<1>5. ASSUME NEW n, NEW ids, Past(h, n, ids) PROVE Past(r, n, ids)
  BY <1>3, <1>5 DEF Past
<1>6. QED  BY <1>4, <1>5 DEF r

\* A result that is added: the others stay where they are.
LEMMA AddResultSingle ==
  ASSUME NEW T, NEW X, NoText \in T, NEW h \in Seq(Msg(T, X)), NEW id \in X, NEW E,
         id \in Results(h) => id \in E
  PROVE  /\ Single(h, E) => Single(add_tool_result(h, id), E)
         /\ \A n, ids : id \notin ids /\ Past(h, n, ids) => Past(add_tool_result(h, id), n, ids)
<1> DEFINE r == add_tool_result(h, id)
           Old(k, i) == k \in DOMAIN h /\ i \in DOMAIN h[k].results /\ r[k].results[i] = h[k].results[i]
           New(k, i) == k = Len(r) /\ i = Len(r[k].results) /\ r[k].results[i] = id
<1>1. \A k \in DOMAIN r : \A i \in DOMAIN r[k].results : Old(k, i) \/ New(k, i)
  <2>1. CASE Joins(h)
    <3> DEFINE n == Len(h)
    <3>1. /\ r \in Seq(Msg(T, X)) /\ Len(r) = n /\ Last(r).results = Append(Last(h).results, id)
          /\ \A k \in 1..n : k < n => r[k] = h[k]
      BY <2>1, AddResultType
    <3> HIDE DEF r
    <3>2. n \in Nat /\ n \in DOMAIN h /\ DOMAIN r = 1..n /\ DOMAIN h = 1..n
      BY <2>1, <3>1 DEF Joins
    <3>3. h[n] \in Msg(T, X) /\ r[n].results = Append(h[n].results, id)
      BY <3>1, <3>2 DEF Last
    <3>4. h[n].results \in Seq(X)
      BY <3>3 DEF Msg
    <3>5. \A i \in DOMAIN r[n].results : Old(n, i) \/ New(n, i)
      BY <3>1, <3>2, <3>3, <3>4
    <3>6. ASSUME NEW k \in DOMAIN r, k # n, NEW i \in DOMAIN r[k].results PROVE Old(k, i)
      BY <3>1, <3>2, <3>6
    <3>7. QED  BY <3>5, <3>6
  <2>2. CASE ~Joins(h)
    <3>1. r = Append(h, ToolResult(id))
      BY <2>2, AddResultType
    <3>2. ToolResult(id).results = <<id>>
      BY DEF ToolResult, Message
    <3> HIDE DEF r
    <3>3. /\ Len(h) \in Nat /\ DOMAIN h = 1..Len(h) /\ DOMAIN r = 1..Len(r) /\ Len(r) = Len(h) + 1
          /\ \A k \in 1..Len(h) : r[k] = h[k]
          /\ r[Len(h) + 1] = ToolResult(id)
      BY <3>1
    <3>4. ASSUME NEW k \in DOMAIN r, NEW i \in DOMAIN r[k].results PROVE Old(k, i) \/ New(k, i)
      <4>1. CASE k \in 1..Len(h)
        BY <3>3, <3>4, <4>1
      <4>2. CASE k = Len(h) + 1
        <5>1. r[k].results = <<id>> /\ i = 1
          BY <3>2, <3>3, <3>4, <4>2
        <5>2. k = Len(r)
          BY <3>3, <4>2
        <5>3. Len(<<id>>) = 1 /\ <<id>>[1] = id
          OBVIOUS
        <5>4. New(k, i)
          BY <5>1, <5>2, <5>3
        <5>5. QED  BY <5>4
      <4>3. QED  BY <3>3, <4>1, <4>2
    <3>5. QED  BY <3>4
  <2>3. QED  BY <2>1, <2>2
<1>2. \A k, i : Old(k, i) => h[k].results[i] \in Results(h)
  <2>1. ASSUME NEW k \in DOMAIN h, NEW i \in DOMAIN h[k].results PROVE h[k].results[i] \in Results(h)
    <3>1. h[k].results[i] \in ToSet(h[k].results)
      BY DEF ToSet
    <3>2. QED  BY <3>1, BlocksAre
  <2>2. QED  BY <2>1
<1> HIDE DEF r
<1>3. ASSUME Single(h, E) PROVE Single(r, E)
  <2>1. ASSUME NEW k \in DOMAIN r, NEW l \in DOMAIN r,
               NEW i \in DOMAIN r[k].results, NEW j \in DOMAIN r[l].results,
               r[k].results[i] = r[l].results[j], r[k].results[i] \notin E
        PROVE  k = l /\ i = j
    <3>1. CASE Old(k, i) /\ Old(l, j)
      BY <1>3, <2>1, <3>1 DEF Single
    <3>2. CASE Old(k, i) /\ New(l, j)
      BY <1>2, <2>1, <3>2
    <3>3. CASE New(k, i) /\ Old(l, j)
      BY <1>2, <2>1, <3>3
    <3>4. CASE New(k, i) /\ New(l, j)
      BY <3>4
    <3>5. QED  BY <1>1, <3>1, <3>2, <3>3, <3>4
  <2>2. QED  BY <2>1 DEF Single
<1>4. ASSUME NEW n, NEW ids, id \notin ids, Past(h, n, ids) PROVE Past(r, n, ids)
  BY <1>1, <1>4 DEF Past
<1>5. QED  BY <1>3, <1>4 DEF r

\* What a compaction leaves: a result it kept is not among what it brings
\* from beyond the length there was.
LEMMA CompactedSingle ==
  ASSUME NEW T, NEW X, NEW h \in Seq(Msg(T, X)), NEW before \in Nat, NEW keep \in Seq(Msg(T, X)),
         NEW plan, plan.before = before, plan.keep = keep, NEW summary \in T, summary # NoText,
         NEW E, Single(h, E), Single(keep, E), Past(h, before, Results(keep) \ E)
  PROVE  /\ Single(Compacted(h, plan, summary), E)
         /\ Results(Compacted(h, plan, summary)) \subseteq Results(h) \cup Results(keep)
<1> DEFINE r == Compacted(h, plan, summary)
           n == Len(keep)
           Kept(k) == k - 1 \in DOMAIN keep /\ r[k] = keep[k - 1]
           Came(k) == k - 1 - n + before \in DOMAIN h /\ k - 1 - n + before > before
                      /\ r[k] = h[k - 1 - n + before]
<1>1. /\ r \in Seq(Msg(T, X)) /\ Len(r) = 1 + n + Newer(h, before)
      /\ r[1] = UserText(summary)
      /\ \A k \in 1..n : r[k + 1] = keep[k]
      /\ \A k \in 1..Newer(h, before) : r[k + 1 + n] = h[k + before]
  BY CompactedParts
<1> HIDE DEF r
<1>2. n \in Nat /\ Newer(h, before) \in Nat /\ DOMAIN keep = 1..n /\ DOMAIN r \subseteq Nat
  BY <1>1 DEF Newer
<1>3. DOMAIN r[1].results = {}
  BY <1>1 DEF UserText, Message
<1>4. ASSUME NEW k \in DOMAIN r, k # 1 PROVE Kept(k) \/ Came(k)
  <2>1. k \in Nat /\ 1 <= k /\ k <= 1 + n + Newer(h, before)
    BY <1>1
  <2>2. k - 1 \in 1..n \/ k - 1 - n \in 1..Newer(h, before)
    BY <1>2, <1>4, <2>1
  <2>3. CASE k - 1 \in 1..n
    <3>1. (k - 1) + 1 = k
      BY <2>1
    <3>2. QED  BY <1>1, <1>2, <2>3, <3>1
  <2>4. CASE k - 1 - n \in 1..Newer(h, before)
    <3> DEFINE j == k - 1 - n
    <3>1. j \in 1..Newer(h, before) /\ j + 1 + n = k
      BY <1>2, <2>1, <2>4
    <3>2. r[k] = h[j + before]
      BY <1>1, <3>1
    <3>3. j + before \in DOMAIN h /\ j + before > before
      BY <3>1 DEF Newer
    <3>4. QED  BY <3>2, <3>3
  <2>5. QED  BY <2>2, <2>3, <2>4
<1>5. ASSUME NEW k, NEW l, Kept(k), Came(l),
             NEW i \in DOMAIN r[k].results, NEW j \in DOMAIN r[l].results,
             r[k].results[i] = r[l].results[j]
      PROVE  r[k].results[i] \in E
  <2>1. r[k].results[i] \in ToSet(keep[k - 1].results)
    BY <1>5 DEF ToSet
  <2>2. r[k].results[i] \in Results(keep)
    BY <1>5, <2>1, BlocksAre
  <2>3. r[l].results[j] \notin Results(keep) \ E
    <3> DEFINE m == l - 1 - n + before
    <3>1. m \in DOMAIN h /\ m > before /\ r[l] = h[m]
      BY <1>5
    <3> HIDE DEF m
    <3>2. QED  BY <1>5, <3>1 DEF Past
  <2>4. QED  BY <1>5, <2>2, <2>3
<1>6. ASSUME NEW k \in DOMAIN r, NEW l \in DOMAIN r,
             NEW i \in DOMAIN r[k].results, NEW j \in DOMAIN r[l].results,
             r[k].results[i] = r[l].results[j], r[k].results[i] \notin E
      PROVE  k = l /\ i = j
  <2>1. (Kept(k) \/ Came(k)) /\ (Kept(l) \/ Came(l)) /\ k \in Nat /\ l \in Nat
    <3>1. k # 1 /\ l # 1
      BY <1>3
    <3>2. QED  BY <1>2, <1>4, <3>1
  <2>2. CASE Kept(k) /\ Kept(l)
    <3>1. k - 1 = l - 1 /\ i = j
      BY <1>6, <2>2 DEF Single
    <3>2. QED  BY <2>1, <3>1
  <2>3. CASE Came(k) /\ Came(l)
    <3> DEFINE m == k - 1 - n + before
               o == l - 1 - n + before
    <3>1. m \in DOMAIN h /\ o \in DOMAIN h /\ r[k] = h[m] /\ r[l] = h[o]
      BY <2>3
    <3> HIDE DEF m, o
    <3>2. m = o /\ i = j
      BY <1>6, <3>1 DEF Single
    <3>3. QED  BY <1>2, <2>1, <3>2 DEF m, o
  <2>4. QED  BY <1>5, <1>6, <2>1, <2>2, <2>3
<1>7. Single(r, E)
  BY <1>6 DEF Single
<1>8. ASSUME NEW id \in Results(r) PROVE id \in Results(h) \cup Results(keep)
  <2>1. PICK k \in DOMAIN r : id \in ToSet(r[k].results)
    BY BlocksAre
  <2>2. k # 1
    BY <1>3, <2>1 DEF ToSet
  <2>3. CASE Kept(k)
    BY <2>1, <2>3, BlocksAre
  <2>4. CASE Came(k)
    BY <2>1, <2>4, BlocksAre
  <2>5. QED  BY <1>4, <2>2, <2>3, <2>4
<1>9. QED  BY <1>7, <1>8 DEF r

-----------------------------------------------------------------------------
(* What a provider would find in what is left. *)

\* An id is there once when one place holds it, and no other.
LEMMA TimesOne ==
  ASSUME NEW X, NEW s \in Seq(X), NEW id
  PROVE  Times(id, s) = 1 <=> \E i \in DOMAIN s : s[i] = id /\ \A j \in DOMAIN s : s[j] = id => j = i
<1> DEFINE S == {k \in DOMAIN s : s[k] = id}
<1>1. Len(s) \in Nat /\ DOMAIN s = 1..Len(s)
  OBVIOUS
<1>2. IsFiniteSet(1..Len(s))
  BY <1>1, FS_Interval, 0 <= Len(s)
<1>3. IsFiniteSet(S)
  BY <1>1, <1>2, FS_Subset
<1>4. Times(id, s) = Cardinality(S)
  BY DEF Times
<1>5. Cardinality(S) = 1 <=> \E i : S = {i}
  BY <1>3, FS_Singleton
<1>6. (\E i : S = {i}) <=> \E i \in DOMAIN s : s[i] = id /\ \A j \in DOMAIN s : s[j] = id => j = i
  <2>1. ASSUME NEW i, S = {i} PROVE i \in DOMAIN s /\ s[i] = id /\ \A j \in DOMAIN s : s[j] = id => j = i
    <3>1. i \in S /\ \A j \in S : j = i
      BY <2>1
    <3>2. QED  BY <3>1
  <2>2. ASSUME NEW i \in DOMAIN s, s[i] = id, \A j \in DOMAIN s : s[j] = id => j = i PROVE S = {i}
    BY <2>2
  <2>3. QED  BY <2>1, <2>2
<1>7. QED  BY <1>4, <1>5, <1>6

\* Leaving others out, it is still there once.
LEMMA LessTimes ==
  ASSUME NEW X, NEW s \in Seq(X), NEW ids, NEW id, id \notin ids, Times(id, s) = 1
  PROVE  Times(id, Less(s, ids)) = 1
<1> DEFINE S == {k \in DOMAIN s : s[k] \notin ids}
           r == Less(s, ids)
<1>1. PICK i \in DOMAIN s : s[i] = id /\ \A j \in DOMAIN s : s[j] = id => j = i
  BY TimesOne
<1>2. r = Only(s, S) /\ S \in SUBSET DOMAIN s /\ Len(s) \in Nat /\ DOMAIN s = 1..Len(s)
  BY DEF Less
<1>3. /\ r \in Seq(X) /\ DOMAIN r = 1..Cardinality(S)
      /\ \A n \in 1..Cardinality(S) : Nth(S, n) \in DOMAIN s /\ r[n] = s[Nth(S, n)]
  BY <1>2, OnlyPicks
<1> HIDE DEF r
<1>4. i \in S
  BY <1>1
<1>5. PICK n \in 1..Cardinality(S) : Nth(S, n) = i
  BY <1>2, <1>4, NthEnumerates
<1>6. ASSUME NEW m \in DOMAIN r, r[m] = id PROVE m = n
  <2>1. m \in 1..Cardinality(S) /\ Nth(S, m) = i
    BY <1>1, <1>3, <1>6
  <2>2. Cardinality(S) \in Nat /\ m \in Nat /\ n \in Nat
    BY <1>2, <2>1, NthEnumerates
  <2>3. (m < n => Nth(S, m) < Nth(S, n)) /\ (n < m => Nth(S, n) < Nth(S, m))
    BY <1>2, <2>1, NthEnumerates
  <2>4. i \in Nat
    BY <1>1, <1>2
  <2>5. QED  BY <1>5, <2>1, <2>2, <2>3, <2>4
<1>7. n \in DOMAIN r /\ r[n] = id
  BY <1>1, <1>3, <1>5
<1>8. QED  BY <1>3, <1>6, <1>7, TimesOne DEF r

\* Two neighbours that are both picked are neighbours in what is picked.
LEMMA NthNext ==
  ASSUME NEW m \in Nat, NEW S \in SUBSET (1..m), NEW n \in 1..Cardinality(S), Nth(S, n) + 1 \in S
  PROVE  n + 1 \in 1..Cardinality(S) /\ Nth(S, n + 1) = Nth(S, n) + 1
<1> DEFINE N == Cardinality(S)
           p == Nth(S, n)
<1>0. N \in Nat /\ n \in Nat /\ \A k \in S : k \in Nat
  BY NthEnumerates
<1>1. p \in S /\ p \in Nat
  BY <1>0, NthEnumerates
<1>2. PICK l \in 1..N : Nth(S, l) = p + 1
  BY NthEnumerates
<1>3. l \in Nat /\ l > n
  <2>1. l \in Nat
    BY <1>0
  <2>2. l < n => Nth(S, l) < p
    BY NthEnumerates
  <2>3. QED  BY <1>0, <1>1, <1>2, <2>1, <2>2
<1>4. n + 1 \in 1..N
  BY <1>0, <1>3
<1>5. Nth(S, n + 1) \in S /\ p < Nth(S, n + 1)
  <2>1. n < n + 1
    BY <1>0
  <2>2. QED  BY <1>4, <2>1, NthEnumerates
<1>6. ~(n + 1 < l)
  <2>1. n + 1 < l => Nth(S, n + 1) < p + 1
    BY <1>2, <1>4, NthEnumerates
  <2>2. Nth(S, n + 1) \in Nat
    BY <1>0, <1>5
  <2>3. QED  BY <1>1, <1>5, <2>1, <2>2
<1>7. l = n + 1
  BY <1>0, <1>3, <1>6
<1>8. QED  BY <1>2, <1>4, <1>7

\* One that follows a picked place, itself picked, was its neighbour.
LEMMA NthBefore ==
  ASSUME NEW m \in Nat, NEW S \in SUBSET (1..m), NEW n \in 1..Cardinality(S), NEW k \in S, k + 1 = Nth(S, n)
  PROVE  n - 1 \in 1..Cardinality(S) /\ Nth(S, n - 1) = k
<1> DEFINE N == Cardinality(S)
<1>0. N \in Nat /\ n \in Nat /\ k \in Nat
  BY NthEnumerates
<1>1. PICK l \in 1..N : Nth(S, l) = k
  BY NthEnumerates
<1>2. Nth(S, l) + 1 \in S
  BY <1>1, NthEnumerates
<1>3. l + 1 \in 1..N /\ Nth(S, l + 1) = k + 1
  BY <1>1, <1>2, NthNext
<1>4. l \in Nat /\ l + 1 = n
  <2>1. l \in Nat
    BY <1>0
  <2>2. (l + 1 < n => Nth(S, l + 1) < Nth(S, n)) /\ (n < l + 1 => Nth(S, n) < Nth(S, l + 1))
    BY <1>3, NthEnumerates
  <2>3. QED  BY <1>0, <1>3, <2>1, <2>2
<1>5. n - 1 = l
  BY <1>0, <1>4
<1>6. QED  BY <1>1, <1>5

\* What is stripped is no flaw any more, and stripping both sides of a pair
\* makes no other.
LEMMA StripFlaws ==
  ASSUME NEW T, NEW X, NEW h \in Seq(Msg(T, X)), NEW ids
  PROVE  Flaws(Strip(h, ids)) \subseteq Flaws(h) \ ids
<1> DEFINE s == Stripped(h, ids)
           S == {k \in DOMAIN h : LET m == Without(h[k], ids) IN m = h[k] \/ ~Blank(m)}
           r == Strip(h, ids)
           N == Cardinality(S)
<1>1. \A k \in DOMAIN h : Without(h[k], ids) \in Msg(T, X)
  BY WithoutType
<1>2. s \in Seq(Msg(T, X)) /\ DOMAIN s = DOMAIN h /\ \A k \in DOMAIN h : s[k] = Without(h[k], ids)
  BY <1>1 DEF Stripped
<1>3. r = Only(s, S) /\ S \in SUBSET DOMAIN s
  BY <1>2 DEF Strip
<1>4. Len(h) \in Nat /\ DOMAIN h = 1..Len(h) /\ S \in SUBSET (1..Len(h))
  OBVIOUS
<1>5. /\ r \in Seq(Msg(T, X)) /\ DOMAIN r = 1..N /\ Len(r) = N
      /\ \A n \in 1..N : Nth(S, n) \in S /\ r[n] = Without(h[Nth(S, n)], ids)
  <2>1. r \in Seq(Msg(T, X)) /\ DOMAIN r = 1..N /\ Len(r) = N /\ \A n \in 1..N : r[n] = s[Nth(S, n)]
    BY <1>2, <1>3, OnlyPicks
  <2>2. \A n \in 1..N : Nth(S, n) \in S
    BY <1>4, NthEnumerates
  <2>3. QED  BY <1>2, <1>3, <2>1, <2>2
<1>6. ASSUME NEW k \in DOMAIN h
      PROVE  /\ h[k].uses \in Seq(X) /\ h[k].results \in Seq(X)
             /\ Without(h[k], ids).uses = Less(h[k].uses, ids)
             /\ Without(h[k], ids).results = Less(h[k].results, ids)
             /\ ToSet(Without(h[k], ids).uses) = ToSet(h[k].uses) \ ids
             /\ ToSet(Without(h[k], ids).results) = ToSet(h[k].results) \ ids
  <2>1. h[k] \in Msg(T, X)
    OBVIOUS
  <2>2. h[k].uses \in Seq(X) /\ h[k].results \in Seq(X)
    BY <2>1 DEF Msg
  <2>3. QED  BY <2>1, <2>2, WithoutType, LessType
<1> HIDE DEF r, s
<1>7. ASSUME NEW k \in DOMAIN h, NEW id, id \notin ids, id \in ToSet(h[k].uses) \/ id \in ToSet(h[k].results)
      PROVE  k \in S
  <2>1. id \in ToSet(Without(h[k], ids).uses) \/ id \in ToSet(Without(h[k], ids).results)
    BY <1>6, <1>7
  <2>2. ToSet(<<>>) = {}
    BY DEF ToSet
  <2>3. ~Blank(Without(h[k], ids))
    BY <2>1, <2>2 DEF Blank
  <2>4. QED  BY <2>3
<1>8. ASSUME NEW n \in 1..N, NEW id, id \in ToSet(r[n].uses), ~AnsweredNext(r, n, id)
      PROVE  id \in Flaws(h) \ ids
  <2> DEFINE k == Nth(S, n)
  <2>1. k \in S /\ k \in DOMAIN h /\ r[n] = Without(h[k], ids)
    BY <1>5
  <2>2. id \in ToSet(h[k].uses) /\ id \notin ids
    BY <1>6, <1>8, <2>1
  <2>3. ASSUME AnsweredNext(h, k, id) PROVE FALSE
    <3>1. k \in Nat /\ k + 1 \in DOMAIN h /\ Times(id, h[k + 1].results) = 1
      BY <1>4, <2>1, <2>3 DEF AnsweredNext
    <3>2. h[k + 1].results \in Seq(X)
      BY <1>6, <3>1
    <3>3. id \in ToSet(h[k + 1].results)
      <4> DEFINE q == h[k + 1].results
      <4>1. q \in Seq(X) /\ Times(id, q) = 1
        BY <3>1, <3>2
      <4> HIDE DEF q
      <4>2. \E i \in DOMAIN q : q[i] = id
        BY <4>1, TimesOne
      <4>3. QED  BY <4>2 DEF ToSet, q
    <3>4. k + 1 \in S
      BY <1>7, <2>2, <3>1, <3>3
    <3>5. n + 1 \in 1..N /\ Nth(S, n + 1) = k + 1
      BY <1>4, <3>4, NthNext
    <3>6. r[n + 1].results = Less(h[k + 1].results, ids)
      BY <1>5, <1>6, <3>1, <3>5
    <3>7. Times(id, r[n + 1].results) = 1
      BY <2>2, <3>1, <3>2, <3>6, LessTimes
    <3>8. n < Len(r)
      <4>1. N \in Nat
        BY <1>5
      <4>2. QED  BY <1>5, <3>5, <4>1
    <3>9. QED  BY <1>8, <3>7, <3>8 DEF AnsweredNext
  <2>4. QED  BY <2>1, <2>2, <2>3, BlocksAre
<1>9. ASSUME NEW n \in 1..N, NEW id, id \in ToSet(r[n].results), ~AskedBefore(r, n, id)
      PROVE  id \in Flaws(h) \ ids
  <2> DEFINE k == Nth(S, n)
  <2>1. k \in S /\ k \in DOMAIN h /\ r[n] = Without(h[k], ids)
    BY <1>5
  <2>2. id \in ToSet(h[k].results) /\ id \notin ids
    BY <1>6, <1>9, <2>1
  <2>3. ASSUME AskedBefore(h, k, id) PROVE FALSE
    <3>1. k \in Nat /\ k - 1 \in DOMAIN h /\ id \in ToSet(h[k - 1].uses) /\ (k - 1) + 1 = k
      BY <1>4, <2>1, <2>3 DEF AskedBefore
    <3>2. k - 1 \in S
      BY <1>7, <2>2, <3>1
    <3>3. n - 1 \in 1..N /\ Nth(S, n - 1) = k - 1
      <4> DEFINE j == k - 1
      <4>1. j \in S /\ j + 1 = Nth(S, n) /\ n \in 1..Cardinality(S)
        BY <3>1, <3>2
      <4> HIDE DEF j, S, k
      <4>2. Len(h) \in Nat /\ S \in SUBSET (1..Len(h))
        BY <1>4
      <4>3. n - 1 \in 1..Cardinality(S) /\ Nth(S, n - 1) = j
        BY ONLY <4>1, <4>2, NthBefore
      <4>4. QED  BY <4>3 DEF j
    <3>4. id \in ToSet(r[n - 1].uses)
      BY <1>5, <1>6, <2>2, <3>1, <3>3
    <3>5. n > 1
      <4>1. N \in Nat
        BY <1>5
      <4>2. QED  BY <3>3, <4>1
    <3>6. QED  BY <1>9, <3>4, <3>5 DEF AskedBefore
  <2>4. QED  BY <2>1, <2>2, <2>3, BlocksAre
<1>10. \A id : id \in Flaws(r) => id \in Flaws(h) \ ids
  BY <1>5, <1>8, <1>9, BlocksAre
<1>11. QED  BY <1>10 DEF r

\* A message of results was answered by nobody, where nobody could.
LEMMA TimesNone == ASSUME NEW id PROVE Times(id, <<>>) # 1
<1>1. <<>> \in Seq({id}) /\ DOMAIN <<>> = {}
  OBVIOUS
<1> DEFINE s == <<>>
<1>2. s \in Seq({id}) /\ DOMAIN s = {}
  BY <1>1
<1> HIDE DEF s
<1>3. Times(id, s) # 1
  BY <1>2, TimesOne
<1>4. QED  BY <1>3 DEF s

\* The tail of a history under another head: results may be parted from the
\* uses they answer, where it was cut.
LEMMA ShiftFlaws ==
  ASSUME NEW T, NEW X, NEW h \in Seq(Msg(T, X)), NEW r \in Seq(Msg(T, X)), NEW d \in Nat, Len(r) = Len(h) - d,
         \A k \in 2..Len(r) : r[k] = h[k + d], r[1].uses = <<>>, r[1].results = <<>>,
         NEW id, id \in Flaws(r)
  PROVE  id \in Flaws(h) \/ (Len(r) >= 2 /\ id \in ToSet(r[2].results) /\ id \in ToSet(h[1 + d].uses))
<1>1. /\ Len(h) \in Nat /\ Len(r) \in Nat /\ DOMAIN h = 1..Len(h) /\ DOMAIN r = 1..Len(r)
      /\ ToSet(<<>>) = {}
  BY DEF ToSet
<1>2. PICK k \in DOMAIN r : \/ id \in ToSet(r[k].uses) /\ ~AnsweredNext(r, k, id)
                            \/ id \in ToSet(r[k].results) /\ ~AskedBefore(r, k, id)
  BY BlocksAre
<1>3. k \in Nat /\ k # 1 /\ 2 <= k /\ k <= Len(r)
  BY <1>1, <1>2
<1>4. r[k] = h[k + d] /\ k + d \in DOMAIN h
  BY <1>1, <1>3
<1>5. CASE id \in ToSet(r[k].uses) /\ ~AnsweredNext(r, k, id)
  <2>1. ASSUME AnsweredNext(h, k + d, id) PROVE FALSE
    <3>1. k + d < Len(h) /\ Times(id, h[(k + d) + 1].results) = 1
      BY <2>1 DEF AnsweredNext
    <3> DEFINE j == k + 1
    <3>2. k < Len(r) /\ j \in 2..Len(r) /\ (k + d) + 1 = j + d
      BY <1>1, <1>3, <3>1
    <3> HIDE DEF j
    <3>5. r[j] = h[j + d]
      BY <3>2
    <3>3. r[k + 1] = h[(k + d) + 1]
      BY <3>2, <3>5 DEF j
    <3>4. QED  BY <1>5, <3>1, <3>2, <3>3 DEF AnsweredNext
  <2>2. QED  BY <1>4, <1>5, <2>1, BlocksAre
<1>6. CASE id \in ToSet(r[k].results) /\ ~AskedBefore(r, k, id)
  <2>1. CASE k = 2
    <3>1. (k + d) - 1 = 1 + d
      BY <2>1
    <3>2. ~AskedBefore(h, k + d, id) \/ id \in ToSet(h[1 + d].uses)
      BY <3>1 DEF AskedBefore
    <3>3. QED  BY <1>3, <1>4, <1>6, <2>1, <3>2, BlocksAre
  <2>2. CASE k # 2
    <3> DEFINE j == k - 1
    <3>1. k > 1 /\ k > 2
      BY <1>3, <2>2
    <3>5. j \in 2..Len(r) /\ j + d = (k + d) - 1
      BY <1>1, <1>3, <3>1
    <3> HIDE DEF j
    <3>2. r[j] = h[(k + d) - 1]
      BY <3>5
    <3>3. ~AskedBefore(h, k + d, id)
      BY <1>6, <3>1, <3>2 DEF AskedBefore, j
    <3>4. QED  BY <1>4, <1>6, <3>3, BlocksAre
  <2>3. QED  BY <2>1, <2>2
<1>7. QED  BY <1>2, <1>5, <1>6

\* A message without results brings no flaw but its own uses.
LEMMA AppendFlaws ==
  ASSUME NEW T, NEW X, NEW h \in Seq(Msg(T, X)), NEW m \in Msg(T, X), m.results = <<>>
  PROVE  Flaws(Append(h, m)) \subseteq Flaws(h) \cup ToSet(m.uses)
<1> DEFINE r == Append(h, m)
           n == Len(h)
<1>1. /\ n \in Nat /\ Len(r) = n + 1 /\ DOMAIN r = 1..(n + 1) /\ DOMAIN h = 1..n
      /\ r[n + 1] = m /\ \A k \in 1..n : r[k] = h[k]
  OBVIOUS
<1> HIDE DEF r
<1>2. ASSUME NEW k \in DOMAIN r, NEW id, id \in ToSet(r[k].uses), ~AnsweredNext(r, k, id)
      PROVE  id \in Flaws(h) \/ id \in ToSet(m.uses)
  <2>1. CASE k = n + 1
    BY <1>1, <1>2, <2>1
  <2>2. CASE k \in 1..n
    <3>1. ASSUME AnsweredNext(h, k, id) PROVE FALSE
      <4>1. k < n /\ k + 1 \in 1..n /\ Times(id, h[k + 1].results) = 1
        BY <1>1, <2>2, <3>1 DEF AnsweredNext
      <4>2. k < Len(r) /\ r[k + 1] = h[k + 1]
        BY <1>1, <2>2, <4>1
      <4>3. QED  BY <1>2, <4>1, <4>2 DEF AnsweredNext
    <3>2. QED  BY <1>1, <1>2, <2>2, <3>1, BlocksAre
  <2>3. QED  BY <1>1, <2>1, <2>2
<1>3. ASSUME NEW k \in DOMAIN r, NEW id, id \in ToSet(r[k].results), ~AskedBefore(r, k, id)
      PROVE  id \in Flaws(h)
  <2>1. k \in 1..n
    <3>1. ToSet(<<>>) = {}
      BY DEF ToSet
    <3>2. QED  BY <1>1, <1>3, <3>1
  <2>2. ASSUME AskedBefore(h, k, id) PROVE FALSE
    <3>1. k > 1 /\ k - 1 \in 1..n /\ id \in ToSet(h[k - 1].uses)
      BY <1>1, <2>1, <2>2 DEF AskedBefore
    <3>2. QED  BY <1>1, <1>3, <3>1 DEF AskedBefore
  <2>3. QED  BY <1>1, <1>3, <2>1, <2>2, BlocksAre
<1>4. \A id : id \in Flaws(r) => id \in Flaws(h) \/ id \in ToSet(m.uses)
  BY <1>2, <1>3, BlocksAre
<1>5. QED  BY <1>4 DEF r

\* Taking back a message without results leaves no flaw that was not there.
LEMMA FrontFlaws ==
  ASSUME NEW T, NEW X, NEW h \in Seq(Msg(T, X)), h # <<>>, Last(h).results = <<>>
  PROVE  Flaws(Front(h)) \subseteq Flaws(h)
<1> DEFINE r == Front(h)
           n == Len(h) - 1
<1>1. Len(h) \in Nat /\ Len(h) # 0 /\ n \in Nat /\ DOMAIN h = 1..(n + 1) /\ Len(h) = n + 1
  OBVIOUS
<1>2. Len(r) = n /\ r \in Seq(Msg(T, X)) /\ \A k \in 1..n : r[k] = h[k]
  BY FrontWithin
<1>3. h[n + 1].results = <<>>
  BY <1>1 DEF Last
<1> HIDE DEF r, n
<1>4. DOMAIN r = 1..n
  BY <1>2
<1>5. ASSUME NEW k \in DOMAIN r, NEW id, id \in ToSet(r[k].uses), ~AnsweredNext(r, k, id)
      PROVE  id \in Flaws(h)
  <2>1. ASSUME AnsweredNext(h, k, id) PROVE FALSE
    <3>1. k < n + 1 /\ Times(id, h[k + 1].results) = 1
      BY <1>1, <2>1 DEF AnsweredNext
    <3>2. CASE k = n
      BY <1>3, <3>1, <3>2, TimesNone
    <3>3. CASE k < n
      <4>1. k + 1 \in 1..n /\ r[k + 1] = h[k + 1]
        BY <1>1, <1>2, <1>4, <3>3
      <4>2. QED  BY <1>2, <1>5, <3>1, <3>3, <4>1 DEF AnsweredNext
    <3>4. QED  BY <1>1, <1>4, <3>1, <3>2, <3>3
  <2>2. k \in DOMAIN h /\ r[k] = h[k]
    BY <1>1, <1>2, <1>4
  <2>3. QED  BY <1>5, <2>1, <2>2, BlocksAre
<1>6. ASSUME NEW k \in DOMAIN r, NEW id, id \in ToSet(r[k].results), ~AskedBefore(r, k, id)
      PROVE  id \in Flaws(h)
  <2>1. k \in DOMAIN h /\ r[k] = h[k] /\ k \in 1..n
    BY <1>1, <1>2, <1>4
  <2>2. ASSUME AskedBefore(h, k, id) PROVE FALSE
    <3>1. k > 1 /\ k - 1 \in 1..n /\ id \in ToSet(h[k - 1].uses)
      BY <1>1, <2>1, <2>2 DEF AskedBefore
    <3>2. QED  BY <1>2, <1>6, <3>1 DEF AskedBefore
  <2>3. QED  BY <1>6, <2>1, <2>2, BlocksAre
<1>7. QED
  BY <1>5, <1>6, BlocksAre DEF r

\* A result added is the only one that can be out of place.
LEMMA AddResultFlaws ==
  ASSUME NEW T, NEW X, NoText \in T, NEW h \in Seq(Msg(T, X)), NEW id \in X
  PROVE  Flaws(add_tool_result(h, id)) \subseteq Flaws(h) \cup {id}
<1> DEFINE r == add_tool_result(h, id)
           n == Len(h)
<1>1. n \in Nat /\ DOMAIN h = 1..n
  OBVIOUS
<1>2. CASE ~Joins(h)
  <2>1. r = Append(h, ToolResult(id))
    BY <1>2, AddResultType
  <2>2. ToolResult(id).uses = <<>> /\ ToolResult(id).results = <<id>> /\ ToSet(<<>>) = {}
    BY DEF ToolResult, Message, ToSet
  <2>3. ToSet(<<id>>) = {id}
    BY ToSetIs, <<>> \in Seq(X)
  <2> HIDE DEF r
  <2>4. /\ Len(r) = n + 1 /\ DOMAIN r = 1..(n + 1) /\ r[n + 1] = ToolResult(id) /\ \A k \in 1..n : r[k] = h[k]
    BY <2>1
  <2>5. ASSUME NEW k \in DOMAIN r, NEW i, i \in ToSet(r[k].uses), ~AnsweredNext(r, k, i)
        PROVE  i \in Flaws(h)
    <3>1. k \in 1..n /\ r[k] = h[k]
      BY <1>1, <2>2, <2>4, <2>5
    <3>2. ASSUME AnsweredNext(h, k, i) PROVE FALSE
      <4>1. k < n /\ k + 1 \in 1..n /\ Times(i, h[k + 1].results) = 1
        BY <1>1, <3>1, <3>2 DEF AnsweredNext
      <4>2. k < Len(r) /\ r[k + 1] = h[k + 1]
        BY <1>1, <2>4, <4>1
      <4>3. QED  BY <2>5, <4>1, <4>2 DEF AnsweredNext
    <3>3. QED  BY <1>1, <2>5, <3>1, <3>2, BlocksAre
  <2>6. ASSUME NEW k \in DOMAIN r, NEW i, i \in ToSet(r[k].results), ~AskedBefore(r, k, i)
        PROVE  i \in Flaws(h) \/ i = id
    <3>1. CASE k = n + 1
      BY <2>2, <2>3, <2>4, <2>6, <3>1
    <3>2. CASE k \in 1..n
      <4>1. ASSUME AskedBefore(h, k, i) PROVE FALSE
        <5>1. k > 1 /\ k - 1 \in 1..n /\ i \in ToSet(h[k - 1].uses)
          BY <1>1, <3>2, <4>1 DEF AskedBefore
        <5>2. QED  BY <2>4, <2>6, <5>1 DEF AskedBefore
      <4>2. QED  BY <1>1, <2>4, <2>6, <3>2, <4>1, BlocksAre
    <3>3. QED  BY <1>1, <2>4, <3>1, <3>2
  <2>7. QED  BY <2>5, <2>6, BlocksAre DEF r
<1>3. CASE Joins(h)
  <2>1. /\ r \in Seq(Msg(T, X)) /\ Len(r) = n /\ Last(r).results = Append(Last(h).results, id)
        /\ \A k \in 1..n : r[k].uses = h[k].uses /\ (k < n => r[k] = h[k])
    BY <1>3, AddResultType
  <2> HIDE DEF r
  <2>2. DOMAIN r = 1..n /\ n \in DOMAIN h /\ Last(r) = r[n] /\ Last(h) = h[n]
    BY <1>1, <1>3, <2>1 DEF Joins, Last
  <2>3. h[n] \in Msg(T, X)
    BY <2>2
  <2>4. h[n].results \in Seq(X) /\ r[n].results = Append(h[n].results, id)
    BY <2>1, <2>2, <2>3 DEF Msg
  <2>5. ToSet(r[n].results) = ToSet(h[n].results) \cup {id}
    BY <2>4, ToSetIs
  <2>6. ASSUME NEW i, i # id, Times(i, h[n].results) = 1 PROVE Times(i, r[n].results) = 1
    <3> DEFINE q == h[n].results
    <3>1. q \in Seq(X) /\ r[n].results = Append(q, id) /\ Times(i, q) = 1
      BY <2>4, <2>6
    <3> HIDE DEF q
    <3>2. PICK a \in DOMAIN q : q[a] = i /\ \A b \in DOMAIN q : q[b] = i => b = a
      BY <3>1, TimesOne
    <3>3. /\ a \in DOMAIN Append(q, id) /\ Append(q, id)[a] = i
          /\ \A b \in DOMAIN Append(q, id) : Append(q, id)[b] = i => b = a
      BY <2>6, <3>1, <3>2
    <3>4. Append(q, id) \in Seq(X)
      BY <3>1
    <3>5. Times(i, Append(q, id)) = 1
      BY <3>3, <3>4, TimesOne
    <3>6. QED  BY <3>1, <3>5
  <2>7. ASSUME NEW k \in DOMAIN r, NEW i, i \in ToSet(r[k].uses), ~AnsweredNext(r, k, i)
        PROVE  i \in Flaws(h) \/ i = id
    <3>1. ASSUME AnsweredNext(h, k, i), i # id PROVE FALSE
      <4>1. k < n /\ k + 1 \in 1..n /\ Times(i, h[k + 1].results) = 1
        BY <1>1, <2>2, <3>1 DEF AnsweredNext
      <4>2. CASE k + 1 = n
        BY <2>1, <2>6, <2>7, <3>1, <4>1, <4>2 DEF AnsweredNext
      <4>3. CASE k + 1 < n
        BY <2>1, <2>7, <4>1, <4>3 DEF AnsweredNext
      <4>4. QED  BY <1>1, <4>1, <4>2, <4>3
    <3>2. i \in ToSet(h[k].uses) /\ k \in DOMAIN h
      BY <1>1, <2>1, <2>2, <2>7
    <3>3. QED  BY <3>1, <3>2, BlocksAre
  <2>8. ASSUME NEW k \in DOMAIN r, NEW i, i \in ToSet(r[k].results), ~AskedBefore(r, k, i)
        PROVE  i \in Flaws(h) \/ i = id
    <3>1. ASSUME AskedBefore(h, k, i) PROVE FALSE
      <4>1. k > 1 /\ k - 1 \in 1..n /\ i \in ToSet(h[k - 1].uses)
        BY <1>1, <2>2, <3>1 DEF AskedBefore
      <4>2. QED  BY <2>1, <2>8, <4>1 DEF AskedBefore
    <3>2. i \in ToSet(h[k].results) \/ i = id
      <4>1. k \in Nat /\ k <= n
        BY <1>1, <2>2
      <4>2. CASE k = n
        BY <2>5, <2>8, <4>2
      <4>3. CASE k < n
        BY <2>1, <2>2, <2>8, <4>3
      <4>4. QED  BY <1>1, <4>1, <4>2, <4>3
    <3>3. QED  BY <1>1, <2>2, <3>1, <3>2, BlocksAre
  <2>9. QED  BY <2>7, <2>8, BlocksAre DEF r
<1>4. QED  BY <1>2, <1>3

\* No tool use is asked for in two messages.
UsedOnce(h) ==
  \A j, k \in DOMAIN h : \A id \in ToSet(h[j].uses) : id \in ToSet(h[k].uses) => j = k

\* What comes from a history asks for a tool in two messages only if it does.
LEMMA ComesUsedOnce ==
  ASSUME NEW T, NEW X, NEW r \in Seq(Msg(T, X)), NEW h \in Seq(Msg(T, X)), Comes(r, h), UsedOnce(h)
  PROVE  UsedOnce(r)
<1>1. PICK g : Embeds(g, r, h) /\ \A k \in DOMAIN r : Lessened(r[k], h[g[k]])
  BY DEF Comes
<1>2. \A j, k \in DOMAIN r : g[j] = g[k] => j = k
  BY <1>1, EmbedsApart
<1>3. ASSUME NEW k \in DOMAIN r
      PROVE  g[k] \in DOMAIN h /\ ToSet(r[k].uses) \subseteq ToSet(h[g[k]].uses)
  <2>1. g[k] \in DOMAIN h
    BY <1>1 DEF Embeds
  <2>2. r[k] \in Msg(T, X) /\ h[g[k]] \in Msg(T, X)
    BY <2>1
  <2>3. r[k].uses \in Seq(X) /\ h[g[k]].uses \in Seq(X) /\ Within(r[k].uses, h[g[k]].uses)
    BY <1>1, <2>2 DEF Msg, Lessened
  <2>4. ASSUME NEW u \in Seq(X), NEW v \in Seq(X), Within(u, v) PROVE ToSet(u) \subseteq ToSet(v)
    BY <2>4 DEF Within, Embeds, ToSet
  <2>5. QED  BY <2>1, <2>3, <2>4
<1>4. ASSUME NEW j \in DOMAIN r, NEW k \in DOMAIN r, NEW id, id \in ToSet(r[j].uses), id \in ToSet(r[k].uses)
      PROVE  j = k
  <2> DEFINE a == g[j]
             b == g[k]
  <2>1. a \in DOMAIN h /\ b \in DOMAIN h /\ id \in ToSet(h[a].uses) /\ id \in ToSet(h[b].uses)
    BY <1>3, <1>4
  <2>2. a = b
    <3> HIDE DEF a, b
    <3>1. QED  BY <2>1 DEF UsedOnce
  <2>3. QED  BY <1>2, <2>2
<1>5. QED  BY <1>4 DEF UsedOnce

\* New uses are added once.
LEMMA AppendUsedOnce ==
  ASSUME NEW T, NEW X, NEW h \in Seq(Msg(T, X)), NEW m \in Msg(T, X), UsedOnce(h), ToSet(m.uses) \cap Uses(h) = {}
  PROVE  UsedOnce(Append(h, m))
<1> DEFINE r == Append(h, m)
           n == Len(h) + 1
<1>1. /\ \A k \in DOMAIN r : (k \in DOMAIN h /\ r[k] = h[k]) \/ k = n
      /\ r[n] = m
  OBVIOUS
<1> HIDE DEF r, n
<1>2. \A k \in DOMAIN h : \A id \in ToSet(h[k].uses) : id \in Uses(h)
  BY BlocksAre
<1>3. ASSUME NEW j \in DOMAIN r, NEW k \in DOMAIN r, NEW id, id \in ToSet(r[j].uses), id \in ToSet(r[k].uses)
      PROVE  j = k
  BY <1>1, <1>2, <1>3 DEF UsedOnce
<1>4. QED  BY <1>3 DEF UsedOnce, r

\* A result asks for nothing.
LEMMA AddResultUsedOnce ==
  ASSUME NEW T, NEW X, NoText \in T, NEW h \in Seq(Msg(T, X)), NEW id \in X, UsedOnce(h)
  PROVE  UsedOnce(add_tool_result(h, id))
<1> DEFINE r == add_tool_result(h, id)
<1>1. CASE Joins(h)
  <2>1. r \in Seq(Msg(T, X)) /\ Len(r) = Len(h) /\ \A k \in 1..Len(h) : r[k].uses = h[k].uses
    BY <1>1, AddResultType
  <2>2. DOMAIN r = 1..Len(h) /\ DOMAIN h = 1..Len(h)
    <3> HIDE DEF r
    <3>1. QED  BY <2>1
  <2>3. QED  BY <2>1, <2>2 DEF UsedOnce
<1>2. CASE ~Joins(h)
  <2> DEFINE m == ToolResult(id)
  <2>1. r = Append(h, m)
    BY <1>2, AddResultType
  <2>2. m \in Msg(T, X) /\ m.uses = <<>>
    BY DEF ToolResult, Message, Msg
  <2>3. ToSet(m.uses) \cap Uses(h) = {}
    BY <2>2 DEF ToSet
  <2> HIDE DEF m
  <2>4. QED  BY <2>1, <2>2, <2>3, AppendUsedOnce
<1>3. QED  BY <1>1, <1>2

-----------------------------------------------------------------------------
\* What sanitize_history strips.
Orphans(h) == (Results(h) \ Uses(h)) \cup ((Uses(h) \ Results(h)) \ InFlight(h))

\* A history that opens with a text of the user loses its orphans, and nothing else.
LEMMA SanitizeIs ==
  ASSUME NEW T, NEW X, NEW h \in Seq(Msg(T, X)), Firm(h)
  PROVE  sanitize_history(h) = Strip(h, Orphans(h))
<1> DEFINE s == Strip(h, Orphans(h))
<1>1. DropLeading(h) = h
  BY DropNothing DEF Firm, Opens
<1>2. sanitize_history(h) = DropLeading(s)
  BY <1>1 DEF sanitize_history, Orphans
<1>3. s \in Seq(Msg(T, X)) /\ Firm(s)
  BY StripComes, StripKeeps
<1> HIDE DEF s
<1>4. DropLeading(s) = s
  BY <1>3, DropNothing DEF Firm, Opens
<1>5. QED  BY <1>2, <1>4 DEF s

\* The text it opens with is all its first message has.
LEMMA FirmFirst ==
  ASSUME NEW T, NEW X, NEW h \in Seq(Msg(T, X)), Firm(h), Sound(h), Tidy(h)
  PROVE  h[1].uses = <<>> /\ h[1].results = <<>>
<1>1. 1 \in DOMAIN h
  BY DEF Firm
<1>2. QED  BY <1>1 DEF Firm, Sound, Tidy

\* Alone, it has no flaw.
LEMMA FirmSingle ==
  ASSUME NEW T, NEW X, NEW h \in Seq(Msg(T, X)), Firm(h), Sound(h), Tidy(h), Len(h) <= 1
  PROVE  Flaws(h) = {} /\ Last(h).results = <<>>
<1>1. DOMAIN h = {1} /\ Len(h) = 1
  <2>1. Len(h) \in Nat /\ Len(h) # 0 /\ DOMAIN h = 1..Len(h)
    BY DEF Firm
  <2>2. Len(h) = 1
    BY <2>1
  <2>3. QED  BY <2>1, <2>2
<1>2. h[1].uses = <<>> /\ h[1].results = <<>> /\ ToSet(<<>>) = {}
  BY FirmFirst DEF ToSet
<1>3. \A id : id \notin Flaws(h)
  BY <1>1, <1>2, BlocksAre
<1>4. QED  BY <1>1, <1>2, <1>3 DEF Last

\* What is left after the oldest messages were cut off and the orphans
\* stripped has no flaw that was not there: a result parted from its use is
\* an orphan, as the use is nowhere else.
LEMMA CutFlaws ==
  ASSUME NEW T, NEW X, NEW h \in Seq(Msg(T, X)), Firm(h), Sound(h), Tidy(h), UsedOnce(h), NEW n \in 2..(Len(h) + 1)
  PROVE  Flaws(sanitize_history(Cut(h, n))) \subseteq Flaws(h)
<1> DEFINE c == Cut(h, n)
           d == n - 2
<1>1. /\ c \in Seq(Msg(T, X)) /\ Len(c) = Len(h) - n + 2 /\ c[1] = h[1]
      /\ \A k \in 2..(Len(h) - n + 2) : c[k] = h[k + n - 2]
  BY CutWithin DEF Firm
<1>2. Len(h) \in Nat /\ n \in Nat /\ 2 <= n /\ n <= Len(h) + 1 /\ d \in Nat /\ n = d + 2
  OBVIOUS
<1> HIDE DEF c
<1>3. Firm(c)
  <2>1. c # <<>>
    BY <1>1, <1>2
  <2>2. QED  BY <1>1, <2>1 DEF Firm
<1>4. Flaws(sanitize_history(c)) \subseteq Flaws(c) \ Orphans(c)
  BY <1>1, <1>3, SanitizeIs, StripFlaws
<1>5. h[1].uses = <<>> /\ h[1].results = <<>> /\ ToSet(<<>>) = {}
  BY FirmFirst DEF ToSet
<1>6. Len(c) = Len(h) - d /\ \A k \in 2..Len(c) : c[k] = h[k + d]
  <2>1. Len(c) = Len(h) - d
    BY <1>1, <1>2
  <2>2. ASSUME NEW k \in 2..Len(c) PROVE c[k] = h[k + d]
    <3>1. k + d = k + n - 2 /\ k \in 2..(Len(h) - n + 2)
      BY <1>1, <1>2
    <3>2. QED  BY <1>1, <3>1
  <2>3. QED  BY <2>1, <2>2
<1> HIDE DEF d
<1>7. ASSUME NEW id \in Flaws(c), Len(c) >= 2, id \in ToSet(c[2].results), id \in ToSet(h[1 + d].uses)
      PROVE  id \in Orphans(c)
  <2>1. 2 \in DOMAIN c /\ 1 + d \in DOMAIN h /\ DOMAIN h = 1..Len(h) /\ DOMAIN c = 1..Len(c)
    BY <1>1, <1>2, <1>7
  <2>2. id \in Results(c)
    BY <1>7, <2>1, BlocksAre
  <2>3. ASSUME NEW k \in DOMAIN c, id \in ToSet(c[k].uses) PROVE FALSE
    <3>1. k # 1
      BY <1>1, <1>5, <2>3
    <3>2. k \in 2..Len(c) /\ k + d \in DOMAIN h /\ k + d # 1 + d
      BY <1>1, <1>2, <1>6, <2>1, <3>1
    <3>3. id \in ToSet(h[k + d].uses)
      BY <1>6, <2>3, <3>2
    <3>4. QED  BY <1>7, <2>1, <3>2, <3>3 DEF UsedOnce
  <2>4. id \notin Uses(c)
    BY <2>3, BlocksAre
  <2>5. QED  BY <2>2, <2>4 DEF Orphans
<1>8. ASSUME NEW id \in Flaws(sanitize_history(c)) PROVE id \in Flaws(h)
  <2>1. id \in Flaws(c) /\ id \notin Orphans(c)
    BY <1>4
  <2>2. c[1].uses = <<>> /\ c[1].results = <<>>
    BY <1>1, <1>5
  <2>3. id \in Flaws(h) \/ (Len(c) >= 2 /\ id \in ToSet(c[2].results) /\ id \in ToSet(h[1 + d].uses))
    BY <1>1, <1>2, <1>6, <2>1, <2>2, ShiftFlaws
  <2>4. QED  BY <1>7, <2>1, <2>3
<1>9. QED  BY <1>8 DEF c

\* A trim makes no flaw.
LEMMA TrimFlaws ==
  ASSUME NEW T, NEW X, NEW h \in Seq(Msg(T, X)), Firm(h), Sound(h), Tidy(h), UsedOnce(h), NEW max \in Nat \ {0}
  PROVE  Flaws(trim_history(h, max)) \subseteq Flaws(h)
<1>0. Len(h) \in Nat
  OBVIOUS
<1>1. CASE Len(h) <= max
  BY <1>1 DEF trim_history
<1>2. CASE Len(h) > max
  <2>1. Len(h) - max + 2 \in 2..(Len(h) + 1)
    BY <1>0, <1>2
  <2>2. trim_history(h, max) = sanitize_history(Cut(h, Len(h) - max + 2))
    BY <1>2 DEF trim_history, Cut
  <2>3. QED  BY <2>1, <2>2, CutFlaws
<1>3. QED  BY <1>0, <1>1, <1>2

\* Nor does a repair.
LEMMA RepairFlaws ==
  ASSUME NEW T, NEW X, NEW h \in Seq(Msg(T, X)), Firm(h), Sound(h), Tidy(h), UsedOnce(h),
         NEW keep \in Nat, NEW strategy \in 1..4
  PROVE  Flaws(repair(strategy, h, keep)) \subseteq Flaws(h)
<1>0. Len(h) \in Nat
  OBVIOUS
<1>1. Flaws(sanitize_history(h)) \subseteq Flaws(h)
  BY SanitizeIs, StripFlaws
<1>2. CASE strategy = 1
  BY <1>1, <1>2 DEF repair
<1>3. CASE strategy = 2
  <2>1. CASE Len(h) <= keep + 1
    BY <1>1, <1>3, <2>1 DEF repair, CompactTo
  <2>2. CASE Len(h) > keep + 1
    <3>1. Len(h) - keep + 1 \in 2..(Len(h) + 1)
      BY <1>0, <2>2
    <3>2. repair(strategy, h, keep) = sanitize_history(Cut(h, Len(h) - keep + 1))
      BY <1>0, <1>3, <2>2 DEF repair, CompactTo, Cut
    <3>3. QED  BY <3>1, <3>2, CutFlaws
  <2>3. QED  BY <1>0, <2>1, <2>2
<1>4. CASE strategy = 3
  <2> DEFINE r == repair(3, h, keep)
  <2>1. r \in Seq(Msg(T, X)) /\ Uses(r) = {} /\ Results(r) = {}
    <3>1. 3 \in 1..4
      OBVIOUS
    <3>2. r \in Seq(Msg(T, X))
      BY <3>1, RepairComes
    <3>3. Uses(r) = {} /\ Results(r) = {}
      BY StripAllBlocks
    <3>4. QED  BY <3>2, <3>3
  <2> HIDE DEF r
  <2>2. Flaws(r) = {}
    BY <2>1, FlawsWithin
  <2>3. QED  BY <1>4, <2>2 DEF r
<1>5. CASE strategy = 4
  <2> DEFINE r == <<h[1]>>
  <2>1. repair(strategy, h, keep) = r
    BY <1>5 DEF repair, Firm
  <2>2. r \in Seq(Msg(T, X)) /\ Within(r, h)
    BY FirstWithin DEF Firm
  <2>3. Firm(r) /\ Len(r) <= 1
    BY DEF Firm
  <2> HIDE DEF r
  <2>4. Sound(r) /\ Tidy(r)
    BY <2>2, WithinSound, WithinTidy
  <2>5. QED  BY <2>1, <2>2, <2>3, <2>4, FirmSingle
<1>6. QED  BY <1>2, <1>3, <1>4, <1>5

\* A compaction whose plan fits the history leaves no other flaws: it does
\* not part the results it keeps from their uses.
LEMMA CompactedFlaws ==
  ASSUME NEW T, NEW X, NEW h \in Seq(Msg(T, X)), Firm(h), Sound(h), Tidy(h), UsedOnce(h), Len(h) > Recent,
         NEW plan, plan.before = Len(h), plan.keep = ToKeep(h), NEW summary \in T, summary # NoText
  PROVE  LET r == Compacted(h, plan, summary)
         IN  Flaws(r) \subseteq Flaws(h) /\ UsedOnce(r) /\ Uses(r) \subseteq Uses(h)
<1> DEFINE split == SplitPoint(h)
           d == split - 1
           r == Compacted(h, plan, summary)
           keep == ToKeep(h)
<1>1. /\ Len(h) \in Nat /\ split \in Nat /\ 1 <= split /\ split <= Len(h) - 1 /\ split + 1 <= Len(h)
      /\ \/ h[split + 1].results = <<>>
         \/ split = Len(h) - Recent /\ \A k \in 1..(Len(h) - Recent) : h[k + 1].results # <<>>
  BY SplitPointBounds
<1>2. /\ keep \in Seq(Msg(T, X)) /\ Len(keep) = Len(h) - split
      /\ \A k \in 1..(Len(h) - split) : keep[k] = h[k + split]
  BY ToKeepWithin
<1>3. Newer(h, Len(h)) = 0
  BY <1>1 DEF Newer
<1>4. /\ r \in Seq(Msg(T, X)) /\ Len(r) = 1 + Len(keep) + Newer(h, Len(h)) /\ r[1] = UserText(summary)
      /\ \A k \in 1..Len(keep) : r[k + 1] = keep[k]
  <2> HIDE DEF r, keep
  <2>1. Len(h) \in Nat /\ plan.keep = keep
    BY <1>1 DEF keep
  <2>2. QED  BY <1>2, <2>1, CompactedParts DEF r
<1> HIDE DEF split, r, keep
<1>5. d \in Nat /\ split = d + 1 /\ Len(r) = Len(h) - d
  BY <1>1, <1>2, <1>3, <1>4
<1>6. ASSUME NEW k \in 2..Len(r) PROVE r[k] = h[k + d] /\ k + d \in DOMAIN h
  <2> DEFINE j == k - 1
  <2>1. j \in 1..Len(keep) /\ j + 1 = k /\ j + split = k + d
    BY <1>1, <1>2, <1>4, <1>5
  <2>2. k + d \in DOMAIN h
    BY <1>1, <1>5
  <2> HIDE DEF j, d
  <2>3. r[k] = keep[j] /\ keep[j] = h[j + split]
    BY <1>2, <1>4, <2>1
  <2>4. QED  BY <2>1, <2>2, <2>3
<1> HIDE DEF d
<1>7. r[1].uses = <<>> /\ r[1].results = <<>> /\ ToSet(<<>>) = {}
  BY <1>4 DEF UserText, Message, ToSet
<1>8. ASSUME NEW id, Len(r) >= 2, id \in ToSet(r[2].results), id \in ToSet(h[1 + d].uses) PROVE FALSE
  <2>1. r[2] = h[split + 1] /\ h[split].uses # <<>> /\ h[split + 1].results # <<>>
    <3>1. 2 \in 2..Len(r) /\ 2 + d = split + 1 /\ 1 + d = split
      BY <1>4, <1>5, <1>8
    <3>2. r[2] = h[2 + d]
      BY <1>6, <3>1
    <3>3. QED  BY <1>7, <1>8, <3>1, <3>2
  <2>2. split = Len(h) - Recent /\ \A k \in 1..split : h[k + 1].results # <<>>
    BY <1>1, <2>1
  <2>3. CASE split = 1
    BY <2>1, <2>3, FirmFirst
  <2>4. CASE split # 1
    <3> DEFINE j == split - 1
    <3>1. j \in 1..split /\ j + 1 = split /\ split \in DOMAIN h
      BY <1>1, <2>4
    <3> HIDE DEF j
    <3>2. h[split].results # <<>>
      BY <2>2, <3>1
    <3>3. QED  BY <2>1, <3>1, <3>2 DEF Tidy, Sound
  <2>5. QED  BY <2>3, <2>4
<1>9. Flaws(r) \subseteq Flaws(h)
  BY <1>4, <1>5, <1>6, <1>7, <1>8, ShiftFlaws
<1>10. DOMAIN r = 1..Len(r) /\ Len(r) \in Nat /\ \A k \in DOMAIN r : k = 1 \/ k \in 2..Len(r)
  BY <1>4
<1>11. UsedOnce(r)
  <2>1. ASSUME NEW j \in DOMAIN r, NEW k \in DOMAIN r, NEW id, id \in ToSet(r[j].uses), id \in ToSet(r[k].uses)
        PROVE  j = k
    <3>1. j \in 2..Len(r) /\ k \in 2..Len(r)
      BY <1>7, <1>10, <2>1
    <3>2. j + d = k + d
      BY <1>6, <2>1, <3>1 DEF UsedOnce
    <3>3. QED  BY <1>5, <3>1, <3>2
  <2>2. QED  BY <2>1 DEF UsedOnce
<1>12. ASSUME NEW id \in Uses(r) PROVE id \in Uses(h)
  <2>1. PICK k \in DOMAIN r : id \in ToSet(r[k].uses)
    BY BlocksAre
  <2>2. k \in 2..Len(r)
    BY <1>7, <1>10, <2>1
  <2>3. QED  BY <1>6, <2>1, <2>2, BlocksAre
<1>13. QED  BY <1>9, <1>11, <1>12 DEF r

\* Where nothing of those is, nothing goes.
LEMMA LessSame ==
  ASSUME NEW X, NEW s \in Seq(X), NEW ids, ToSet(s) \cap ids = {}
  PROVE  Less(s, ids) = s
<1>1. \A k \in DOMAIN s : s[k] \notin ids
  BY DEF ToSet
<1>2. {k \in DOMAIN s : s[k] \notin ids} = DOMAIN s
  BY <1>1
<1>3. QED  BY <1>2, OnlyAll DEF Less

\* The last message stays as it is, if none of its blocks is an orphan.
LEMMA SanitizeLast ==
  ASSUME NEW T, NEW X, NEW h \in Seq(Msg(T, X)), Firm(h),
         ToSet(Last(h).uses) \cap Orphans(h) = {}, ToSet(Last(h).results) \cap Orphans(h) = {}
  PROVE  sanitize_history(h) # <<>> /\ Last(sanitize_history(h)) = Last(h)
<1> DEFINE ids == Orphans(h)
           n == Len(h)
           s == Stripped(h, ids)
           S == {k \in DOMAIN h : LET m == Without(h[k], ids) IN m = h[k] \/ ~Blank(m)}
<1>1. n \in Nat /\ n \in DOMAIN h /\ DOMAIN h = 1..n
  BY DEF Firm
<1>2. Last(h) = h[n] /\ h[n] \in Msg(T, X)
  BY <1>1 DEF Last
<1>3. h[n].uses \in Seq(X) /\ h[n].results \in Seq(X)
  BY <1>2 DEF Msg
<1>4. Less(h[n].uses, ids) = h[n].uses /\ Less(h[n].results, ids) = h[n].results
  BY <1>2, <1>3, LessSame
<1> HIDE DEF ids
<1>5. Without(h[n], ids) = h[n]
  <2> DEFINE m == h[n]
  <2>1. m \in Msg(T, X) /\ Less(m.uses, ids) = m.uses /\ Less(m.results, ids) = m.results
    BY <1>2, <1>4
  <2> HIDE DEF m
  <2>2. Without(m, ids) = m
    BY <2>1 DEF Without, Msg
  <2>3. QED  BY <2>2 DEF m
<1>6. \A k \in DOMAIN h : Without(h[k], ids) \in Msg(T, X)
  BY WithoutType
<1>7. s \in Seq(Msg(T, X)) /\ DOMAIN s = DOMAIN h /\ Len(s) = n /\ s[n] = h[n]
  BY <1>1, <1>5, <1>6 DEF Stripped
<1>8. S \in SUBSET DOMAIN s /\ Len(s) \in S
  BY <1>1, <1>5, <1>7
<1>9. sanitize_history(h) = Only(s, S)
  BY SanitizeIs DEF Strip, ids
<1> HIDE DEF s, S
<1>10. Only(s, S) # <<>> /\ Last(Only(s, S)) = Last(s)
  BY <1>7, <1>8, OnlyLast
<1>11. Last(s) = Last(h)
  BY <1>2, <1>7 DEF Last
<1>12. QED  BY <1>9, <1>10, <1>11

\* A text, or the answer last received, has no orphan.
LEMMA PlainLast ==
  ASSUME NEW T, NEW X, NEW h \in Seq(Msg(T, X)), Firm(h),
         Last(h).results = <<>>, Last(h).uses = <<>> \/ Last(h).role = "assistant"
  PROVE  sanitize_history(h) # <<>> /\ Last(sanitize_history(h)) = Last(h)
<1> DEFINE n == Len(h)
           asked == {k \in DOMAIN h : h[k].role = "assistant"}
<1>1. n \in Nat /\ n \in DOMAIN h /\ DOMAIN h = 1..n /\ Last(h) = h[n] /\ ToSet(<<>>) = {}
  BY DEF Firm, Last, ToSet
<1>2. ToSet(Last(h).results) \cap Orphans(h) = {}
  BY <1>1
<1>3. ToSet(Last(h).uses) \cap Orphans(h) = {}
  <2>1. CASE Last(h).uses = <<>>
    BY <1>1, <2>1
  <2>2. CASE Last(h).role = "assistant"
    <3>1. n \in asked /\ \A j \in asked : j <= n
      BY <1>1, <2>2
    <3>2. n \in {k \in asked : \A j \in asked : j <= k}
      BY <3>1
    <3>3. ASSUME NEW id \in ToSet(h[n].uses) PROVE id \in InFlight(h) /\ id \in Uses(h)
      <4>1. id \in InFlight(h)
        BY <3>2 DEF InFlight
      <4>2. id \in Uses(h)
        BY <1>1, BlocksAre
      <4>3. QED  BY <4>1, <4>2
    <3>4. QED  BY <1>1, <3>3 DEF Orphans
  <2>3. QED  BY <2>1, <2>2
<1>4. QED  BY <1>2, <1>3, SanitizeLast

\* Nor have the results of the uses before them.
LEMMA PairedLast ==
  ASSUME NEW T, NEW X, NEW h \in Seq(Msg(T, X)), Firm(h), Len(h) >= 2,
         Last(h).uses = <<>>, ToSet(Last(h).results) \subseteq ToSet(h[Len(h) - 1].uses)
  PROVE  sanitize_history(h) # <<>> /\ Last(sanitize_history(h)) = Last(h)
<1>1. Len(h) \in DOMAIN h /\ Len(h) - 1 \in DOMAIN h /\ Last(h) = h[Len(h)] /\ ToSet(<<>>) = {}
  BY DEF Last, ToSet
<1>2. ASSUME NEW id \in ToSet(Last(h).results) PROVE id \in Uses(h) /\ id \in Results(h)
  BY <1>1, BlocksAre
<1>3. ToSet(Last(h).results) \cap Orphans(h) = {}
  BY <1>2 DEF Orphans
<1>4. ToSet(Last(h).uses) \cap Orphans(h) = {}
  BY <1>1
<1>5. QED  BY <1>3, <1>4, SanitizeLast

\* A trim that leaves two messages leaves the last; one that leaves three,
\* the results of the last uses.
LEMMA TrimLast ==
  ASSUME NEW T, NEW X, NEW h \in Seq(Msg(T, X)), Firm(h), NEW max \in Nat,
         \/ /\ max >= 2
            /\ Last(h).results = <<>> /\ (Last(h).uses = <<>> \/ Last(h).role = "assistant")
         \/ /\ max >= 3 /\ Len(h) >= 2
            /\ Last(h).uses = <<>> /\ ToSet(Last(h).results) \subseteq ToSet(h[Len(h) - 1].uses)
  PROVE  trim_history(h, max) # <<>> /\ Last(trim_history(h, max)) = Last(h)
<1> DEFINE n == Len(h)
           c == Cut(h, n - max + 2)
<1>0. n \in Nat /\ h # <<>> /\ n # 0
  BY DEF Firm
<1>1. CASE n <= max
  BY <1>0, <1>1 DEF trim_history
<1>2. CASE n > max
  <2>1. trim_history(h, max) = sanitize_history(c)
    BY <1>2 DEF trim_history, Cut
  <2>2. n - max + 2 \in 2..(n + 1) /\ max >= 2
    BY <1>0, <1>2
  <2>3. /\ c \in Seq(Msg(T, X)) /\ Len(c) = n - (n - max + 2) + 2 /\ c[1] = h[1]
        /\ \A k \in 2..(n - (n - max + 2) + 2) : c[k] = h[k + (n - max + 2) - 2]
    BY <1>0, <2>2, CutWithin
  <2> HIDE DEF c
  <2>4. Len(c) = max /\ \A k \in 2..max : c[k] = h[k + (n - max)]
    <3>1. Len(c) = max
      BY <1>0, <2>3
    <3>2. ASSUME NEW k \in 2..max PROVE c[k] = h[k + (n - max)]
      <4>1. k \in 2..(n - (n - max + 2) + 2) /\ k + (n - max + 2) - 2 = k + (n - max)
        BY <1>0
      <4>2. QED  BY <2>3, <4>1
    <3>3. QED  BY <3>1, <3>2
  <2>5. Last(c) = Last(h)
    <3>1. max \in 2..max /\ max + (n - max) = n
      BY <1>0, <2>2
    <3>2. c[max] = h[max + (n - max)]
      BY <2>4, <3>1
    <3>3. QED  BY <2>4, <3>1, <3>2 DEF Last
  <2>6. Firm(c)
    BY <2>2, <2>3, <2>4 DEF Firm
  <2>7. CASE Last(h).results = <<>> /\ (Last(h).uses = <<>> \/ Last(h).role = "assistant")
    BY <2>1, <2>3, <2>5, <2>6, <2>7, PlainLast
  <2>8. CASE /\ max >= 3 /\ Len(h) >= 2
             /\ Last(h).uses = <<>> /\ ToSet(Last(h).results) \subseteq ToSet(h[Len(h) - 1].uses)
    <3> DEFINE j == max - 1
    <3>1. j \in 2..max /\ j + (n - max) = n - 1
      BY <1>0, <2>8
    <3> HIDE DEF j
    <3>2. c[j] = h[n - 1]
      BY <2>4, <3>1
    <3>3. c[Len(c) - 1] = h[Len(h) - 1] /\ Len(c) >= 2
      BY <2>2, <2>4, <3>2 DEF j
    <3>4. QED  BY <2>1, <2>3, <2>5, <2>6, <2>8, <3>3, PairedLast
  <2>9. QED  BY <2>7, <2>8
<1>3. QED  BY <1>0, <1>1, <1>2

-----------------------------------------------------------------------------
(* A batch that is being answered. *)

\* Message p asks for these uses, and those that are done are answered in
\* the message after it, the last one.
Batched(h, p, uses, done) ==
  /\ p \in DOMAIN h /\ h[p].uses = uses /\ h[p].results = <<>>
  /\ IF done = <<>> THEN p = Len(h) ELSE p + 1 = Len(h) /\ h[p + 1].results = done

\* One result more.
LEMMA AddResultBatch ==
  ASSUME NEW T, NEW X, NoText \in T, NEW h \in Seq(Msg(T, X)), NEW id \in X,
         NEW p, NEW uses, NEW done \in Seq(X), Batched(h, p, uses, done)
  PROVE  Batched(add_tool_result(h, id), p, uses, Append(done, id))
<1> DEFINE r == add_tool_result(h, id)
           n == Len(h)
<1>1. n \in Nat /\ p \in Nat /\ p \in DOMAIN h /\ h # <<>> /\ Last(h) = h[n] /\ DOMAIN h = 1..n
  BY DEF Batched, Last
<1>2. Append(done, id) # <<>>
  OBVIOUS
<1>3. CASE done = <<>>
  <2>1. p = n /\ h[p].results = <<>>
    BY <1>3 DEF Batched
  <2>2. ~Joins(h)
    BY <1>1, <2>1 DEF Joins
  <2>3. r = Append(h, ToolResult(id))
    BY <2>2, AddResultType
  <2> HIDE DEF r
  <2>7. ToolResult(id) \in Msg(T, X)
    BY DEF ToolResult, Message, Msg
  <2>4. Len(r) = n + 1 /\ r[n] = h[n] /\ r[n + 1] = ToolResult(id) /\ p \in DOMAIN r
    <3> DEFINE m == ToolResult(id)
    <3>1. m \in Msg(T, X) /\ r = Append(h, m)
      BY <2>3, <2>7
    <3> HIDE DEF m
    <3>2. n # 0 /\ h \in Seq(Msg(T, X))
      BY <1>1
    <3>3. Len(r) = n + 1 /\ DOMAIN r = 1..(n + 1) /\ r[n + 1] = m /\ \A k \in 1..n : r[k] = h[k]
      BY <1>1, <3>1, <3>2
    <3>4. n \in 1..n /\ p \in 1..(n + 1)
      BY <1>1, <3>2
    <3>5. QED  BY <3>3, <3>4 DEF m
  <2>5. r[n + 1].results = Append(done, id)
    BY <1>3, <2>4 DEF ToolResult, Message
  <2>6. QED  BY <1>2, <2>1, <2>4, <2>5 DEF Batched, r
<1>4. CASE done # <<>>
  <2>1. p + 1 = n /\ h[n].results = done
    BY <1>4 DEF Batched
  <2>2. Joins(h)
    BY <1>1, <1>4, <2>1 DEF Joins
  <2>3. /\ r \in Seq(Msg(T, X)) /\ Len(r) = n /\ Last(r).results = Append(Last(h).results, id)
        /\ \A k \in 1..n : k < n => r[k] = h[k]
    BY <2>2, AddResultType
  <2> HIDE DEF r
  <2>4. r[p] = h[p] /\ p \in DOMAIN r /\ r[n].results = Append(done, id)
    BY <1>1, <2>1, <2>3 DEF Last
  <2>5. QED  BY <1>2, <2>1, <2>3, <2>4 DEF Batched, r
<1>5. QED  BY <1>3, <1>4

\* Answered in full, none of its uses is a flaw, if they are nowhere else.
LEMMA BatchPaired ==
  ASSUME NEW T, NEW X, NEW h \in Seq(Msg(T, X)), NEW p, NEW uses \in Seq(X), uses # <<>>,
         Batched(h, p, uses, uses), UsedOnce(h), \A i, j \in DOMAIN uses : uses[i] = uses[j] => i = j,
         NEW E, Single(h, E), NEW id \in ToSet(uses), id \notin E
  PROVE  id \notin Flaws(h) /\ id \in Results(h)
<1>1. /\ p \in DOMAIN h /\ h[p].uses = uses /\ p + 1 = Len(h) /\ h[p + 1].results = uses
      /\ p \in Nat /\ p + 1 \in DOMAIN h /\ p < Len(h) /\ p + 1 > 1 /\ (p + 1) - 1 = p
  BY DEF Batched
<1>2. id \in Results(h)
  BY <1>1, BlocksAre
<1>3. Times(id, uses) = 1
  <2>1. PICK i \in DOMAIN uses : uses[i] = id
    BY DEF ToSet
  <2>2. QED  BY <2>1, TimesOne
<1>4. ASSUME NEW k \in DOMAIN h, id \in ToSet(h[k].uses) PROVE AnsweredNext(h, k, id)
  <2>1. k = p
    BY <1>1, <1>4 DEF UsedOnce
  <2>2. QED  BY <1>1, <1>3, <2>1 DEF AnsweredNext
<1>5. ASSUME NEW k \in DOMAIN h, id \in ToSet(h[k].results) PROVE AskedBefore(h, k, id)
  <2> DEFINE q == p + 1
  <2>1. q \in DOMAIN h /\ id \in ToSet(h[q].results)
    BY <1>1
  <2> HIDE DEF q
  <2>2. k = q
    <3>1. PICK i \in DOMAIN h[k].results : h[k].results[i] = id
      BY <1>5 DEF ToSet
    <3>2. PICK j \in DOMAIN h[q].results : h[q].results[j] = id
      BY <2>1 DEF ToSet
    <3>3. QED  BY <2>1, <3>1, <3>2 DEF Single
  <2>3. QED  BY <1>1, <2>2 DEF AskedBefore, q
<1>6. id \notin Flaws(h)
  BY <1>4, <1>5, BlocksAre
<1>7. QED  BY <1>2, <1>6
=============================================================================

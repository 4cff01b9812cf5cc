----------------------------- MODULE ChatProofs -----------------------------
(***************************************************************************)
(* Proofs about Chat, for every set of pages, texts, files and rooms.      *)
(***************************************************************************)
EXTENDS Chat, TLAPS, SequenceTheorems, WellFoundedInduction

-----------------------------------------------------------------------------
(* Sequences *)

\* A set of natural numbers that is not empty has a least element.
LEMMA LeastNatural ==
    ASSUME NEW T \in SUBSET Nat, T # {}
    PROVE  \E x \in T : \A y \in T : x <= y
<1> DEFINE R == OpToRel(<, Nat)
<1>1. \A x, y \in Nat : <<x, y>> \in R <=> x < y
  BY DEF OpToRel
<1>2. IsWellFoundedOn(R, Nat)
  BY NatLessThanWellFounded
<1> HIDE DEF R
<1>3. PICK x \in T : \A y \in T : ~(<<y, x>> \in R)
  BY <1>2, WFMin
<1>4. \A y \in T : x <= y
  <2> TAKE y \in T
  <2>1. x \in Nat /\ y \in Nat
    OBVIOUS
  <2>2. ~(y < x)
    BY <1>1, <1>3, <2>1
  <2> QED  BY <2>1, <2>2
<1> QED  BY <1>4

LEMMA AppendFacts ==
    ASSUME NEW A, NEW s \in Seq(A), NEW e \in A
    PROVE  /\ Append(s, e) \in Seq(A)
           /\ Range(Append(s, e)) = Range(s) \union {e}
<1>1. /\ Len(Append(s, e)) = Len(s) + 1 /\ Append(s, e)[Len(s) + 1] = e
      /\ \A i \in 1..Len(s) : Append(s, e)[i] = s[i]
  OBVIOUS
<1>2. DOMAIN s = 1..Len(s) /\ DOMAIN Append(s, e) = 1..(Len(s) + 1) /\ Len(s) \in Nat
  OBVIOUS
<1> QED  BY <1>1, <1>2 DEF Range

LEMMA ConcatFacts ==
    ASSUME NEW A, NEW s \in Seq(A), NEW t \in Seq(A)
    PROVE  /\ s \o t \in Seq(A)
           /\ Range(s \o t) = Range(s) \union Range(t)
<1>1. /\ Len(s \o t) = Len(s) + Len(t) /\ s \o t \in Seq(A)
      /\ \A i \in 1..Len(s) : (s \o t)[i] = s[i]
      /\ \A i \in 1..Len(t) : (s \o t)[Len(s) + i] = t[i]
  BY ConcatProperties
<1>2. /\ Len(s) \in Nat /\ Len(t) \in Nat
      /\ DOMAIN s = 1..Len(s) /\ DOMAIN t = 1..Len(t)
      /\ DOMAIN (s \o t) = 1..(Len(s) + Len(t))
  BY <1>1, LenProperties
<1>3. ASSUME NEW x \in Range(s \o t) PROVE x \in Range(s) \union Range(t)
  <2>1. PICK i \in 1..(Len(s) + Len(t)) : x = (s \o t)[i]
    BY <1>2 DEF Range
  <2>2. CASE i \in 1..Len(s)
    BY <1>1, <1>2, <2>1, <2>2 DEF Range
  <2>3. CASE i \notin 1..Len(s)
    <3>1. i - Len(s) \in 1..Len(t) /\ i = Len(s) + (i - Len(s))
      BY <1>2, <2>3
    <3>2. x = t[i - Len(s)]
      BY <1>1, <2>1, <3>1
    <3> QED  BY <1>2, <3>1, <3>2 DEF Range
  <2> QED  BY <2>2, <2>3
<1>4. ASSUME NEW x \in Range(s) PROVE x \in Range(s \o t)
  <2>1. PICK i \in 1..Len(s) : x = s[i]
    BY <1>2 DEF Range
  <2> QED  BY <1>1, <1>2, <2>1 DEF Range
<1>5. ASSUME NEW x \in Range(t) PROVE x \in Range(s \o t)
  <2>1. PICK i \in 1..Len(t) : x = t[i]
    BY <1>2 DEF Range
  <2>2. Len(s) + i \in 1..(Len(s) + Len(t))
    BY <1>2
  <2> QED  BY <1>1, <1>2, <2>1, <2>2 DEF Range
<1> QED  BY <1>1, <1>3, <1>4, <1>5

LEMMA SubSeqFacts ==
    ASSUME NEW A, NEW s \in Seq(A), NEW m \in Nat \ {0}, NEW n \in 0..Len(s)
    PROVE  /\ SubSeq(s, m, n) \in Seq(A)
           /\ Range(SubSeq(s, m, n)) = {s[i] : i \in m..n}
<1>1. Len(s) \in Nat /\ DOMAIN s = 1..Len(s) /\ \A i \in m..n : s[i] \in A
  BY LenProperties
<1>2. /\ SubSeq(s, m, n) \in Seq(A)
      /\ Len(SubSeq(s, m, n)) = IF m <= n THEN n - m + 1 ELSE 0
      /\ \A i \in 1..(n - m + 1) : SubSeq(s, m, n)[i] = s[m + i - 1]
  BY <1>1, SubSeqProperties
<1>3. DOMAIN SubSeq(s, m, n) = 1..(n - m + 1)
  BY <1>1, <1>2, LenProperties
<1>4. ASSUME NEW x \in Range(SubSeq(s, m, n)) PROVE x \in {s[i] : i \in m..n}
  <2>1. PICK i \in 1..(n - m + 1) : x = s[m + i - 1]
    BY <1>2, <1>3 DEF Range
  <2>2. m + i - 1 \in m..n
    BY <1>1
  <2> QED  BY <2>1, <2>2
<1>5. ASSUME NEW i \in m..n PROVE s[i] \in Range(SubSeq(s, m, n))
  <2>1. i - m + 1 \in 1..(n - m + 1) /\ m + (i - m + 1) - 1 = i
    BY <1>1
  <2>2. SubSeq(s, m, n)[i - m + 1] = s[i]
    BY <1>2, <2>1
  <2> QED  BY <1>3, <2>1, <2>2 DEF Range
<1> QED  BY <1>2, <1>4, <1>5

\* Dropping the element at i loses no other.
LEMMA RemoveFacts ==
    ASSUME NEW A, NEW s \in Seq(A), NEW i \in DOMAIN s
    PROVE  /\ RemoveAt(s, i) \in Seq(A)
           /\ Range(RemoveAt(s, i)) \subseteq Range(s)
           /\ Range(s) \subseteq Range(RemoveAt(s, i)) \union {s[i]}
<1>1. Len(s) \in Nat /\ DOMAIN s = 1..Len(s)
  BY LenProperties
<1>2. RemoveAt(s, i) = SubSeq(s, 1, i - 1) \o SubSeq(s, i + 1, Len(s))
  BY DEF RemoveAt
<1>3. /\ SubSeq(s, 1, i - 1) \in Seq(A)
      /\ Range(SubSeq(s, 1, i - 1)) = {s[j] : j \in 1..(i - 1)}
  BY <1>1, SubSeqFacts
<1>4. /\ SubSeq(s, i + 1, Len(s)) \in Seq(A)
      /\ Range(SubSeq(s, i + 1, Len(s))) = {s[j] : j \in (i + 1)..Len(s)}
  <2>1. i + 1 \in Nat \ {0} /\ Len(s) \in 0..Len(s)
    BY <1>1
  <2> QED  BY <2>1, SubSeqFacts
<1>5. Range(RemoveAt(s, i)) = Range(SubSeq(s, 1, i - 1)) \union Range(SubSeq(s, i + 1, Len(s)))
  BY <1>2, <1>3, <1>4, ConcatFacts
<1>6. RemoveAt(s, i) \in Seq(A)
  BY <1>2, <1>3, <1>4, ConcatFacts
<1>7. Range(s) = {s[j] : j \in 1..Len(s)}
  BY <1>1 DEF Range
<1>8. 1..Len(s) = (1..(i - 1)) \union {i} \union ((i + 1)..Len(s))
  BY <1>1
<1> QED  BY <1>3, <1>4, <1>5, <1>6, <1>7, <1>8

LEMMA ReplaceFacts ==
    ASSUME NEW A, NEW s \in Seq(A), NEW i \in DOMAIN s, NEW e \in A
    PROVE  /\ [s EXCEPT ![i] = e] \in Seq(A)
           /\ Range([s EXCEPT ![i] = e]) \subseteq Range(s) \union {e}
           /\ Range(s) \subseteq Range([s EXCEPT ![i] = e]) \union {s[i]}
           /\ e \in Range([s EXCEPT ![i] = e])
<1>1. DOMAIN s = 1..Len(s) /\ i \in 1..Len(s)
  BY LenProperties
<1>2. [s EXCEPT ![i] = e] \in Seq(A)
  BY <1>1, ExceptSeq
<1> QED  BY <1>1, <1>2 DEF Range

LEMMA TailFacts ==
    ASSUME NEW A, NEW s \in Seq(A), s # <<>>
    PROVE  /\ Head(s) \in A /\ Head(s) \in Range(s) /\ Tail(s) \in Seq(A)
           /\ Range(s) = Range(Tail(s)) \union {Head(s)}
<1>1. /\ Head(s) = s[1] /\ Tail(s) \in Seq(A) /\ Len(Tail(s)) = Len(s) - 1
      /\ \A i \in 1..(Len(s) - 1) : Tail(s)[i] = s[i + 1]
  BY HeadTailProperties
<1>2. /\ DOMAIN s = 1..Len(s) /\ DOMAIN Tail(s) = 1..(Len(s) - 1)
      /\ Len(s) \in Nat \ {0} /\ \A i \in 1..Len(s) : s[i] \in A
  BY <1>1, LenProperties, EmptySeq
<1>3. ASSUME NEW x \in Range(s) PROVE x \in Range(Tail(s)) \union {Head(s)}
  <2>1. PICK i \in 1..Len(s) : x = s[i]
    BY <1>2 DEF Range
  <2>2. CASE i = 1
    BY <1>1, <2>1, <2>2
  <2>3. CASE i # 1
    <3>1. i - 1 \in 1..(Len(s) - 1) /\ (i - 1) + 1 = i
      BY <1>2, <2>3
    <3> QED  BY <1>1, <1>2, <2>1, <3>1 DEF Range
  <2> QED  BY <2>2, <2>3
<1>4. ASSUME NEW x \in Range(Tail(s)) PROVE x \in Range(s)
  <2>1. PICK i \in 1..(Len(s) - 1) : x = s[i + 1]
    BY <1>1, <1>2 DEF Range
  <2>2. i + 1 \in 1..Len(s)
    BY <1>2
  <2> QED  BY <1>2, <2>1, <2>2 DEF Range
<1>5. Head(s) \in Range(s) /\ Head(s) \in A
  BY <1>1, <1>2 DEF Range
<1> QED  BY <1>1, <1>3, <1>4, <1>5

\* What the function of a filter is, up to the k-th element.
Kept(f, s, I, k) ==
    f = [n \in 0..k |-> IF n = 0 THEN <<>>
                        ELSE IF n \in I THEN Append(f[n - 1], s[n]) ELSE f[n - 1]]

LEMMA KeptExists ==
    ASSUME NEW s, NEW I, NEW k \in Nat
    PROVE  \E f : Kept(f, s, I, k)
<1> DEFINE T == {n \in Nat : ~ \E f : Kept(f, s, I, n)}
<1> SUFFICES ASSUME T # {} PROVE FALSE
  OBVIOUS
<1>1. PICK n \in T : \A m \in T : n <= m
  <2> HIDE DEF T
  <2>1. T \in SUBSET Nat
    BY DEF T
  <2> QED  BY <2>1, LeastNatural
<1>2. CASE n = 0
  <2>1. Kept([i \in 0..0 |-> <<>>], s, I, 0)
    BY DEF Kept
  <2> QED  BY <2>1, <1>2
<1>3. CASE n # 0
  <2>1. n - 1 \in Nat /\ n - 1 \notin T
    BY <1>1, <1>3
  <2>2. PICK f : Kept(f, s, I, n - 1)
    BY <2>1
  <2> DEFINE e == IF n \in I THEN Append(f[n - 1], s[n]) ELSE f[n - 1]
             g == [i \in 0..n |-> IF i = n THEN e ELSE f[i]]
             Unfolded(h, i) == IF i = 0 THEN <<>>
                               ELSE IF i \in I THEN Append(h[i - 1], s[i]) ELSE h[i - 1]
  <2>3. \A i \in 0..(n - 1) : f[i] = Unfolded(f, i)
    BY <2>2, Zenon DEF Kept
  <2>4. \A i \in 0..(n - 1) : g[i] = f[i]
    <3> HIDE DEF e
    <3> QED  BY <1>3
  <2>5. g[n] = Unfolded(g, n)
    <3>1. g[n] = e /\ n - 1 \in 0..(n - 1)
      BY <1>3, <2>1
    <3> QED  BY <1>3, <2>4, <3>1
  <2>6. \A i \in 0..n : g[i] = Unfolded(g, i)
    <3> TAKE i \in 0..n
    <3>1. CASE i = n
      BY <2>5, <3>1
    <3>2. CASE i # n
      <4>1. i \in 0..(n - 1) /\ (i # 0 => i - 1 \in 0..(n - 1))
        BY <3>2
      <4>2. g[i] = f[i] /\ (i # 0 => g[i - 1] = f[i - 1])
        BY <2>4, <4>1
      <4> HIDE DEF g
      <4> QED  BY <2>3, <4>1, <4>2
    <3> QED  BY <3>1, <3>2
  <2>7. Kept(g, s, I, n)
    <3>1. g = [i \in 0..n |-> g[i]]
      OBVIOUS
    <3> HIDE DEF g
    <3>2. g = [i \in 0..n |-> Unfolded(g, i)]
      BY <2>6, <3>1, Zenon
    <3> QED  BY <3>2, Zenon DEF Kept
  <2> QED  BY <2>7
<1> QED  BY <1>2, <1>3

\* A filter returns the elements at the given indices.
LEMMA FilterFacts ==
    ASSUME NEW A, NEW s \in Seq(A), NEW I \in SUBSET DOMAIN s
    PROVE  /\ at(s, I) \in Seq(A)
           /\ Range(at(s, I)) = {s[i] : i \in I}
<1> DEFINE f == CHOOSE g : Kept(g, s, I, Len(s))
           Before(n) == {i \in I : i <= n}
<1>1. Len(s) \in Nat /\ s \in [1..Len(s) -> A] /\ DOMAIN s = 1..Len(s)
  BY LenProperties
<1>2. Kept(f, s, I, Len(s))
  BY <1>1, KeptExists
<1>3. at(s, I) = f[Len(s)]
  BY DEF at, Kept
<1> HIDE DEF f
<1> DEFINE P(n) == /\ f[n] \in Seq(A)
                   /\ Range(f[n]) = {s[i] : i \in Before(n)}
           T == {n \in 0..Len(s) : ~P(n)}
<1>4. P(0)
  <2>1. f[0] = <<>>
    BY <1>1, <1>2 DEF Kept
  <2>2. Before(0) = {}
    BY <1>1
  <2> QED  BY <2>1, <2>2 DEF Range
<1>5. \A n \in 1..Len(s) : f[n] = IF n \in I THEN Append(f[n - 1], s[n]) ELSE f[n - 1]
  <2>1. \A n \in 0..Len(s) : f[n] = IF n = 0 THEN <<>>
               ELSE IF n \in I THEN Append(f[n - 1], s[n]) ELSE f[n - 1]
    BY <1>2, Zenon DEF Kept
  <2> QED  BY <1>1, <2>1
<1>6. T = {}
  <2> SUFFICES ASSUME T # {} PROVE FALSE
    OBVIOUS
  <2>1. PICK n \in T : \A m \in T : n <= m
    <3> HIDE DEF T
    <3>1. T \in SUBSET Nat
      BY <1>1 DEF T
    <3> QED  BY <3>1, LeastNatural
  <2>2. n # 0
    BY <1>4
  <2>3. n \in 1..Len(s) /\ n - 1 \in 0..Len(s)
    <3>1. n \in 0..Len(s)
      OBVIOUS
    <3> QED  BY <1>1, <2>2, <3>1
  <2>4. P(n - 1)
    <3>1. n - 1 < n
      BY <2>3, <1>1
    <3>2. n - 1 \notin T
      <4> HIDE DEF T
      <4> QED  BY <2>1, <2>3, <3>1
    <3> QED  BY <2>3, <3>2
  <2>5. P(n)
    <3>1. CASE n \in I
      <4>1. f[n] = Append(f[n - 1], s[n]) /\ s[n] \in A
        BY <1>1, <1>5, <2>3, <3>1
      <4>2. f[n] \in Seq(A) /\ Range(f[n]) = Range(f[n - 1]) \union {s[n]}
        BY <2>4, <4>1, AppendFacts
      <4>3. Before(n) = Before(n - 1) \union {n}
        BY <1>1, <2>3, <3>1
      <4> QED  BY <2>4, <4>2, <4>3
    <3>2. CASE n \notin I
      <4>1. f[n] = f[n - 1] /\ Before(n) = Before(n - 1)
        BY <1>1, <1>5, <2>3, <3>2
      <4> QED  BY <2>4, <4>1
    <3> QED  BY <3>1, <3>2
  <2> QED  BY <2>1, <2>5
<1>7. P(Len(s))
  <2>1. Len(s) \in 0..Len(s)
    BY <1>1
  <2> QED  BY <1>6, <2>1
<1>8. Before(Len(s)) = I
  BY <1>1
<1> QED  BY <1>3, <1>7, <1>8

-----------------------------------------------------------------------------
(* What the proofs are about *)

\* A message under its author's name: id, author and, of a text, the record
\* that it has been sent.
Genuine(m) ==
    /\ m.id[2] = m.item /\ author[m.item] # None
    /\ m.id[1] # "cache" \/ m.item \in Texts => m.from = author[m.item]
    /\ m.item \in Texts => m.item \in sent

AllGenuine(msgs) == \A m \in Range(msgs) : Genuine(m)

GenuineEntry(e) ==
    /\ author[e.item] # None
    /\ e.item \in Texts => e.from = author[e.item] /\ e.item \in sent

\* A text or a file comes from its author; a bundle holds genuine messages.
GenuinePacket(q, m) ==
    /\ m.type # "history" => m.item \in Items /\ author[m.item] = q
    /\ m.type = "chat" => m.item \in Texts /\ m.item \in sent
    /\ m.type = "file" => m.item \in Files
    /\ AllGenuine(m.msgs)

\* What a sender stores under the recipient's name is a file.
GenuineTask(t) ==
    /\ AllGenuine(t.msgs)
    /\ t.kind = "fileOut" => \A m \in Range(t.msgs) : m.item \in Files

GenuineCall(p, s) == author[s.item] = p /\ (s.anySent => s.item \in sent)

MessageInv ==
    /\ \A p \in Pages : AllGenuine(shown[p])
    /\ \A p \in Pages : \A e \in Range(stored[p]) : GenuineEntry(e)
    /\ \A p, q \in Pages : \A m \in Range(chan[q][p]) : GenuinePacket(q, m)
    /\ \A p \in Pages : \A r \in Range(retries[p]) : AllGenuine(r.msgs)
    /\ \A p \in Pages : \A t \in Range(tasks[p]) : GenuineTask(t)
    /\ \A p \in Pages : \A s \in Range(sending[p]) : GenuineCall(p, s)

\* An installed key is that of the two pages' key pairs.
KeyInv == \A p, q \in Pages : key[p][q] \in {NoKey, derived(p, q)}

\* A call that is about to send to a peer has its key.
CallInv ==
    \A p \in Pages : \A s \in Range(sending[p]) :
        s.peer # None => key[p][s.peer] # NoKey

ChatInv == TypeOK /\ MessageInv /\ KeyInv /\ CallInv /\ HandedIsUnderWay

-----------------------------------------------------------------------------
(* Helpers *)

LEMMA SceneFacts ==
    ASSUME TypeOK
    PROVE  /\ scene.pages \subseteq Pages /\ scene.writers \subseteq Pages
           /\ scene.items \subseteq Items /\ scene.reachable \subseteq SUBSET Pages
  BY ChatAssumption DEF TypeOK, Items

LEMMA ItemFacts ==
    /\ Texts \subseteq Items /\ Files \subseteq Items
    /\ \A x \in Items : x \in Texts <=> x \notin Files
    /\ None \notin Pages /\ NoKey \in Keys /\ NoKey \notin Nat /\ Nat \subseteq Keys
  BY ChatAssumption DEF Items, Keys, NoKey

LEMMA MsgFacts ==
    ASSUME NEW p \in Pages, NEW x \in Items, NEW from \in Pages
    PROVE  /\ Msg(p, x, from) \in ChatMessage
           /\ Msg(p, x, from).item = x /\ Msg(p, x, from).from = from
           /\ Msg(p, x, from).id[2] = x
<1>1. <<IF x \in Files THEN "transfer" ELSE p, x>> \in (Pages \union {"transfer"}) \X Items
  OBVIOUS
<1> QED  BY <1>1 DEF Msg, ChatMessage

LEMMA SingleFacts ==
    ASSUME NEW A, NEW e \in A
    PROVE  <<e>> \in Seq(A) /\ Range(<<e>>) = {e}
  BY DEF Range

\* What a page takes from a bundle is part of it, and it has the rest.
LEMMA UnseenFacts ==
    ASSUME TypeOK, NEW p \in Pages, NEW msgs \in Seq(ChatMessage)
    PROVE  /\ unseen(p, msgs) \in Seq(ChatMessage)
           /\ Range(unseen(p, msgs)) \subseteq Range(msgs)
           /\ \A m \in Range(msgs) :
                 \E n \in Range(shown[p]) \union Range(unseen(p, msgs)) : n.id = m.id
<1> DEFINE I == {i \in DOMAIN msgs :
                    /\ \A n \in Range(shown[p]) : n.id # msgs[i].id
                    /\ \A j \in 1..(i - 1) : msgs[j].id # msgs[i].id}
<1>1. I \in SUBSET DOMAIN msgs /\ unseen(p, msgs) = at(msgs, I)
  BY DEF unseen
<1>2. DOMAIN msgs = 1..Len(msgs) /\ Len(msgs) \in Nat
  BY LenProperties
<1>3. unseen(p, msgs) \in Seq(ChatMessage) /\ Range(unseen(p, msgs)) = {msgs[i] : i \in I}
  <2> HIDE DEF I
  <2> QED  BY <1>1, FilterFacts
<1>4. Range(unseen(p, msgs)) \subseteq Range(msgs)
  BY <1>1, <1>3 DEF Range
<1>5. ASSUME NEW m \in Range(msgs)
      PROVE  \E n \in Range(shown[p]) \union Range(unseen(p, msgs)) : n.id = m.id
  <2> DEFINE T == {i \in DOMAIN msgs : msgs[i].id = m.id}
  <2>1. PICK i \in T : \A j \in T : i <= j
    <3>1. T \in SUBSET Nat /\ T # {}
      BY <1>2 DEF Range
    <3> HIDE DEF T
    <3> QED  BY <3>1, LeastNatural
  <2>2. CASE \E n \in Range(shown[p]) : n.id = msgs[i].id
    BY <2>2
  <2>3. CASE \A n \in Range(shown[p]) : n.id # msgs[i].id
    <3>1. \A j \in 1..(i - 1) : msgs[j].id # msgs[i].id
      <4> TAKE j \in 1..(i - 1)
      <4>1. j \in DOMAIN msgs /\ ~(i <= j)
        BY <1>2
      <4>2. j \notin T
        <5> HIDE DEF T
        <5> QED  BY <2>1, <4>1
      <4> QED  BY <4>1, <4>2
    <3>2. msgs[i] \in Range(unseen(p, msgs))
      BY <1>3, <2>3, <3>1
    <3> QED  BY <3>2
  <2> QED  BY <2>2, <2>3
<1> QED  BY <1>3, <1>4, <1>5

\* The last messages.
LEMMA RecentFacts ==
    ASSUME NEW msgs \in Seq(ChatMessage)
    PROVE  recent(msgs) \in Seq(ChatMessage) /\ Range(recent(msgs)) \subseteq Range(msgs)
<1>1. Len(msgs) \in Nat /\ DOMAIN msgs = 1..Len(msgs) /\ HistoryMax \in Nat
  BY LenProperties, ChatAssumption
<1> DEFINE m == IF Len(msgs) > HistoryMax THEN Len(msgs) - HistoryMax + 1 ELSE 1
<1>2. m \in Nat \ {0} /\ Len(msgs) \in 0..Len(msgs) /\ recent(msgs) = SubSeq(msgs, m, Len(msgs))
  BY <1>1 DEF recent
<1> HIDE DEF m
<1>3. /\ recent(msgs) \in Seq(ChatMessage)
      /\ Range(recent(msgs)) = {msgs[i] : i \in m..Len(msgs)}
  BY <1>2, SubSeqFacts
<1> QED  BY <1>1, <1>2, <1>3 DEF Range

\* What is stored of a task's messages.
LEMMA EntriesFacts ==
    ASSUME NEW t \in PageTask, NEW k \in Keys
    PROVE  /\ entries(t, k) \in Seq(Entry)
           /\ \A e \in Range(entries(t, k)) : \E m \in Range(t.msgs) :
                 e.item = m.item /\ e.from = IF t.kind = "fileOut" THEN t.peer ELSE m.from
<1> DEFINE I == {i \in DOMAIN t.msgs : t.msgs[i].item \in Files \/ k # NoKey}
           kept == at(t.msgs, I)
           entry(m) == [item |-> m.item, stamp |-> m.stamp,
                        from |-> IF t.kind = "fileOut" THEN t.peer ELSE m.from,
                        key |-> IF m.item \in Files THEN NoKey ELSE k]
<1>1. t.msgs \in Seq(ChatMessage) /\ t.peer \in Pages
  BY DEF PageTask
<1>2. I \in SUBSET DOMAIN t.msgs
  OBVIOUS
<1>3. kept \in Seq(ChatMessage) /\ Range(kept) \subseteq Range(t.msgs)
  <2> HIDE DEF I
  <2>1. kept \in Seq(ChatMessage) /\ Range(kept) = {t.msgs[i] : i \in I}
    BY <1>1, <1>2, FilterFacts
  <2> QED  BY <1>2, <2>1 DEF Range
<1>4. entries(t, k) = [i \in DOMAIN kept |-> entry(kept[i])]
  BY DEF entries
<1> HIDE DEF kept
<1>5. /\ DOMAIN kept = 1..Len(kept) /\ Len(kept) \in Nat
      /\ \A i \in DOMAIN kept : kept[i] \in ChatMessage /\ kept[i] \in Range(t.msgs)
  BY <1>3, LenProperties DEF Range
<1>6. \A m \in ChatMessage : entry(m) \in Entry
  BY <1>1, ItemFacts DEF ChatMessage, Entry
<1>7. entries(t, k) \in Seq(Entry)
  <2> HIDE DEF entry
  <2>1. entries(t, k) \in [1..Len(kept) -> Entry]
    BY <1>4, <1>5, <1>6
  <2> QED  BY <1>5, <2>1, SeqDef
<1>8. ASSUME NEW e \in Range(entries(t, k))
      PROVE  \E m \in Range(t.msgs) :
                e.item = m.item /\ e.from = IF t.kind = "fileOut" THEN t.peer ELSE m.from
  <2>1. PICK i \in DOMAIN kept : e = entry(kept[i])
    BY <1>4 DEF Range
  <2> QED  BY <1>5, <2>1
<1> QED  BY <1>7, <1>8

\* What is read from the cache.
LEMMA ReadableFacts ==
    ASSUME TypeOK, NEW p \in Pages, NEW k
    PROVE  /\ readable(p, k) \in Seq(ChatMessage)
           /\ \A m \in Range(readable(p, k)) : \E e \in Range(stored[p]) :
                 m.item = e.item /\ m.from = e.from /\ m.id[1] = "cache" /\ m.id[2] = e.item
<1> DEFINE I == {i \in DOMAIN stored[p] : stored[p][i].item \in Files \/ stored[p][i].key = k}
           kept == at(stored[p], I)
           read(e) == [id |-> <<"cache", e.item, e.stamp, e.from>>,
                       item |-> e.item, from |-> e.from, stamp |-> e.stamp]
<1>1. stored[p] \in Seq(Entry)
  BY DEF TypeOK
<1>2. I \in SUBSET DOMAIN stored[p]
  OBVIOUS
<1>3. kept \in Seq(Entry) /\ Range(kept) \subseteq Range(stored[p])
  <2> HIDE DEF I
  <2>1. kept \in Seq(Entry) /\ Range(kept) = {stored[p][i] : i \in I}
    BY <1>1, <1>2, FilterFacts
  <2> QED  BY <1>2, <2>1 DEF Range
<1>4. readable(p, k) = [i \in DOMAIN kept |-> read(kept[i])]
  BY DEF readable
<1> HIDE DEF kept
<1>5. /\ DOMAIN kept = 1..Len(kept) /\ Len(kept) \in Nat
      /\ \A i \in DOMAIN kept : kept[i] \in Entry /\ kept[i] \in Range(stored[p])
  BY <1>3, LenProperties DEF Range
<1>6. \A e \in Entry : read(e) \in ChatMessage
  <2> TAKE e \in Entry
  <2>1. <<"cache", e.item, e.stamp, e.from>> \in {"cache"} \X Items \X Pages \X Pages
    BY DEF Entry
  <2> QED  BY <2>1 DEF ChatMessage, Entry
<1>7. readable(p, k) \in Seq(ChatMessage)
  <2> HIDE DEF read
  <2>1. readable(p, k) \in [1..Len(kept) -> ChatMessage]
    BY <1>4, <1>5, <1>6
  <2> QED  BY <1>5, <2>1, SeqDef
<1>8. ASSUME NEW m \in Range(readable(p, k))
      PROVE  \E e \in Range(stored[p]) :
                m.item = e.item /\ m.from = e.from /\ m.id[1] = "cache" /\ m.id[2] = e.item
  <2>1. PICK i \in DOMAIN kept : m = read(kept[i])
    BY <1>4 DEF Range
  <2> QED  BY <1>5, <2>1
<1> QED  BY <1>7, <1>8

LEMMA HandlerFacts ==
    ASSUME TypeOK, NEW p \in Pages, NEW q \in Pages, NEW m \in Packet,
           GenuinePacket(q, m), NEW t \in handler(p, q, m)
    PROVE  /\ t \in PageTask /\ GenuineTask(t) /\ "show" \in Range(t.steps)
           /\ m.type = "chat" => \E n \in Range(t.msgs) : n.item = m.item
           /\ m.type = "history" => t.msgs = unseen(p, m.msgs)
<1>1. /\ m.type \in {"chat", "file", "history"} /\ m.key \in Keys
      /\ m.msgs \in Seq(ChatMessage) /\ key[p][q] \in Keys
  BY DEF Packet, TypeOK
<1>2. CASE m.type = "chat"
  <2>1. m.item \in Items /\ m.item \in Texts /\ author[m.item] = q /\ m.item \in sent
    BY <1>2 DEF GenuinePacket
  <2>2. t = Task("chat", q, m.key, <<Msg(p, m.item, q)>>, <<"save", "show">>)
    BY <1>2 DEF handler
  <2>3. Msg(p, m.item, q) \in ChatMessage /\ Genuine(Msg(p, m.item, q))
    BY <2>1, MsgFacts, ItemFacts DEF Genuine
  <2>4. /\ t.msgs = <<Msg(p, m.item, q)>> /\ t.kind = "chat" /\ t.steps = <<"save", "show">>
        /\ t.peer = q /\ t.key = m.key
    BY <2>2 DEF Task
  <2>5. t.msgs \in Seq(ChatMessage) /\ Range(t.msgs) = {Msg(p, m.item, q)}
    BY <2>3, <2>4, SingleFacts
  <2>6. t \in PageTask
    BY <1>1, <2>2, <2>4, <2>5 DEF PageTask, Task
  <2>7. "show" \in Range(t.steps)
    BY <2>4 DEF Range
  <2> QED  BY <1>2, <2>1, <2>3, <2>4, <2>5, <2>6, <2>7, MsgFacts DEF GenuineTask, AllGenuine
<1>3. CASE m.type = "history"
  <2> DEFINE u == unseen(p, m.msgs)
  <2>1. u \in Seq(ChatMessage) /\ Range(u) \subseteq Range(m.msgs)
    BY <1>1, UnseenFacts
  <2>2. \A i \in DOMAIN u : [u[i] EXCEPT !.from = bundleAuthor(p, q, u[i])] = u[i]
    <3>1. \A i \in DOMAIN u : u[i] \in ChatMessage
      BY <2>1
    <3> HIDE DEF u
    <3> QED  BY <3>1 DEF bundleAuthor, ChatMessage
  <2>3. t = Task("history", q, key[p][q],
                 [i \in DOMAIN u |-> [u[i] EXCEPT !.from = bundleAuthor(p, q, u[i])]],
                 <<"save", "show">>)
    BY <1>3 DEF handler
  <2>4. [i \in DOMAIN u |-> [u[i] EXCEPT !.from = bundleAuthor(p, q, u[i])]] = u
    <3> HIDE DEF u
    <3> QED  BY <2>1, <2>2
  <2>5. /\ t.msgs = u /\ t.kind = "history" /\ t.steps = <<"save", "show">>
        /\ t.peer = q /\ t.key = key[p][q]
    BY <2>3, <2>4 DEF Task
  <2>6. t \in PageTask
    <3> HIDE DEF u
    <3> QED  BY <1>1, <2>1, <2>3, <2>4 DEF PageTask, Task
  <2>7. "show" \in Range(t.steps)
    BY <2>5 DEF Range
  <2>8. AllGenuine(t.msgs)
    BY <2>1, <2>5 DEF GenuinePacket, AllGenuine
  <2> QED  BY <1>3, <2>5, <2>6, <2>7, <2>8 DEF GenuineTask
<1>4. CASE m.type = "file"
  <2>1. m.item \in Items /\ m.item \in Files /\ author[m.item] = q
    BY <1>4 DEF GenuinePacket
  <2>2. t = Task("file", q, NoKey, <<Msg(p, m.item, q)>>, <<"show", "save">>)
    BY <1>4 DEF handler
  <2>3. Msg(p, m.item, q) \in ChatMessage /\ Genuine(Msg(p, m.item, q))
    BY <2>1, MsgFacts, ItemFacts DEF Genuine
  <2>4. /\ t.msgs = <<Msg(p, m.item, q)>> /\ t.kind = "file" /\ t.steps = <<"show", "save">>
        /\ t.peer = q /\ t.key = NoKey
    BY <2>2 DEF Task
  <2>5. t.msgs \in Seq(ChatMessage) /\ Range(t.msgs) = {Msg(p, m.item, q)}
    BY <2>3, <2>4, SingleFacts
  <2>6. t \in PageTask
    BY <2>2, <2>5, ItemFacts DEF PageTask, Task
  <2>7. "show" \in Range(t.steps)
    BY <2>4 DEF Range
  <2> QED  BY <1>4, <2>3, <2>4, <2>5, <2>6, <2>7 DEF GenuineTask, AllGenuine
<1> QED  BY <1>1, <1>2, <1>3, <1>4

\* A packet a page can read becomes a task of it, unless the page has the
\* message already.
LEMMA ReadFacts ==
    ASSUME TypeOK, MessageInv, NEW p \in Pages, NEW q \in Pages, NEW m \in Packet,
           GenuinePacket(q, m), NEW x, InPacket(p, q, m, x)
    PROVE  /\ m.type # "file"
           /\ x \in Seen(p) \/ handler(p, q, m) # {}
           /\ \A t \in handler(p, q, m) :
                 x \in Seen(p) \/ \E n \in Range(t.msgs) : n.item = x
<1>1. CASE m.type = "chat"
  <2>1. m.item = x /\ m.key = key[p][q] /\ m.key # NoKey
    BY <1>1 DEF InPacket
  <2>2. handler(p, q, m) # {}
    BY <1>1, <2>1 DEF handler
  <2> QED  BY <1>1, <2>1, <2>2, HandlerFacts
<1>2. CASE m.type = "history"
  <2>1. PICK n \in Range(m.msgs) : n.item = x
    BY <1>2 DEF InPacket
  <2>2. m.msgs \in Seq(ChatMessage)
    BY DEF Packet
  <2>3. /\ unseen(p, m.msgs) \in Seq(ChatMessage)
        /\ Range(unseen(p, m.msgs)) \subseteq Range(m.msgs)
    BY <2>2, UnseenFacts
  <2>4. PICK k \in Range(shown[p]) \union Range(unseen(p, m.msgs)) : k.id = n.id
    BY <2>1, <2>2, UnseenFacts
  <2>5. n.id[2] = n.item /\ k.id[2] = k.item
    BY <2>3 DEF MessageInv, AllGenuine, Genuine, GenuinePacket
  <2>6. k.item = x
    BY <2>1, <2>4, <2>5
  <2>7. CASE k \in Range(shown[p])
    BY <1>2, <2>6, <2>7 DEF Seen
  <2>8. CASE k \in Range(unseen(p, m.msgs))
    <3>1. unseen(p, m.msgs) # <<>>
      BY <2>8 DEF Range
    <3>2. handler(p, q, m) # {}
      BY <1>2, <3>1 DEF handler
    <3> QED  BY <1>2, <2>6, <2>8, <3>2, HandlerFacts
  <2> QED  BY <2>4, <2>7, <2>8
<1> QED  BY <1>1, <1>2 DEF InPacket

-----------------------------------------------------------------------------
(* Steps *)

\* A step takes back neither an author nor the record that a text was sent.
Recorded ==
    /\ \A x \in Items : author[x] # None => author'[x] = author[x]
    /\ sent \subseteq sent'

\* What a step adds is genuine.
Unforged ==
    /\ \A p \in Pages : \A m \in Range(shown'[p]) : m \in Range(shown[p]) \/ Genuine(m)'
    /\ \A p \in Pages : \A e \in Range(stored'[p]) :
          e \in Range(stored[p]) \/ GenuineEntry(e)'
    /\ \A p, q \in Pages : \A m \in Range(chan'[q][p]) :
          m \in Range(chan[q][p]) \/ GenuinePacket(q, m)'
    /\ \A p \in Pages : \A r \in Range(retries'[p]) :
          r \in Range(retries[p]) \/ AllGenuine(r.msgs)'
    /\ \A p \in Pages : \A t \in Range(tasks'[p]) :
          t \in Range(tasks[p]) \/ GenuineTask(t)'
    /\ \A p \in Pages : \A s \in Range(sending'[p]) :
          s \in Range(sending[p]) \/ GenuineCall(p, s)'

\* The elements of a sequence have its type.
LEMMA RangeType ==
    ASSUME NEW A, NEW s \in Seq(A)
    PROVE  Range(s) \subseteq A
  BY LenProperties DEF Range

LEMMA StateTypes ==
    ASSUME TypeOK, NEW p \in Pages
    PROVE  /\ shown[p] \in Seq(ChatMessage) /\ Range(shown[p]) \subseteq ChatMessage
           /\ stored[p] \in Seq(Entry) /\ Range(stored[p]) \subseteq Entry
           /\ retries[p] \in Seq([to : Pages, msgs : Seq(ChatMessage)])
           /\ Range(retries[p]) \subseteq [to : Pages, msgs : Seq(ChatMessage)]
           /\ sending[p] \in Seq(Call) /\ Range(sending[p]) \subseteq Call
           /\ tasks[p] \in Seq(PageTask) /\ Range(tasks[p]) \subseteq PageTask
           /\ \A q \in Pages : /\ chan[q][p] \in Seq(Packet)
                               /\ Range(chan[q][p]) \subseteq Packet
                               /\ key[p][q] \in Keys /\ finals[p][q] \in Nat
<1>1. /\ shown[p] \in Seq(ChatMessage) /\ stored[p] \in Seq(Entry)
      /\ retries[p] \in Seq([to : Pages, msgs : Seq(ChatMessage)])
      /\ sending[p] \in Seq(Call) /\ tasks[p] \in Seq(PageTask)
  BY DEF TypeOK
<1>2. ASSUME NEW q \in Pages
      PROVE  chan[q][p] \in Seq(Packet) /\ key[p][q] \in Keys /\ finals[p][q] \in Nat
  <2>1. /\ chan[q] \in [Pages -> Seq(Packet)] /\ key[p] \in [Pages -> Keys]
        /\ finals[p] \in [Pages -> Nat]
    BY DEF TypeOK
  <2> QED  BY <2>1
<1>3. \A q \in Pages : Range(chan[q][p]) \subseteq Packet
  BY <1>2, RangeType
<1> QED  BY <1>1, <1>2, <1>3, RangeType

LEMMA GenuineStays ==
    ASSUME Recorded
    PROVE  /\ \A m \in ChatMessage : Genuine(m) => Genuine(m)'
           /\ \A e \in Entry : GenuineEntry(e) => GenuineEntry(e)'
           /\ \A s \in Seq(ChatMessage) : AllGenuine(s) => AllGenuine(s)'
           /\ \A q \in Pages : \A m \in Packet : GenuinePacket(q, m) => GenuinePacket(q, m)'
           /\ \A t \in PageTask : GenuineTask(t) => GenuineTask(t)'
           /\ \A p \in Pages : \A s \in Call : GenuineCall(p, s) => GenuineCall(p, s)'
<1>1. \A m \in ChatMessage : Genuine(m) => Genuine(m)'
  BY DEF Recorded, Genuine, ChatMessage
<1>2. \A e \in Entry : GenuineEntry(e) => GenuineEntry(e)'
  BY DEF Recorded, GenuineEntry, Entry
<1>3. \A s \in Seq(ChatMessage) : AllGenuine(s) => AllGenuine(s)'
  BY <1>1, RangeType DEF AllGenuine
<1>4. ASSUME NEW q \in Pages, NEW m \in Packet, GenuinePacket(q, m)
      PROVE  GenuinePacket(q, m)'
  <2>1. m.msgs \in Seq(ChatMessage) /\ AllGenuine(m.msgs)'
    BY <1>3, <1>4 DEF Packet, GenuinePacket
  <2>2. m.type # "history" => m.item \in Items /\ author'[m.item] = q
    BY <1>4, ItemFacts DEF Recorded, GenuinePacket
  <2> QED  BY <1>4, <2>1, <2>2 DEF Recorded, GenuinePacket
<1>5. \A t \in PageTask : GenuineTask(t) => GenuineTask(t)'
  BY <1>3 DEF PageTask, GenuineTask
<1>6. ASSUME NEW p \in Pages, NEW s \in Call, GenuineCall(p, s)
      PROVE  GenuineCall(p, s)'
  <2>1. s.item \in Items
    BY ItemFacts DEF Call
  <2> QED  BY <1>6, <2>1, ItemFacts DEF Recorded, GenuineCall
<1> QED  BY <1>1, <1>2, <1>3, <1>4, <1>5, <1>6

LEMMA MessageStep ==
    ASSUME TypeOK, MessageInv, Recorded, Unforged
    PROVE  MessageInv'
<1>1. \A p \in Pages : AllGenuine(shown[p])'
  BY StateTypes, GenuineStays DEF MessageInv, Unforged, AllGenuine
<1>2. \A p \in Pages : \A e \in Range(stored'[p]) : GenuineEntry(e)'
  BY StateTypes, GenuineStays DEF MessageInv, Unforged
<1>3. \A p, q \in Pages : \A m \in Range(chan'[q][p]) : GenuinePacket(q, m)'
  BY StateTypes, GenuineStays DEF MessageInv, Unforged
<1>4. \A p \in Pages : \A r \in Range(retries'[p]) : AllGenuine(r.msgs)'
  <2> TAKE p \in Pages
  <2> TAKE r \in Range(retries'[p])
  <2>1. CASE AllGenuine(r.msgs)'
    BY <2>1
  <2>2. CASE r \in Range(retries[p])
    <3>1. r.msgs \in Seq(ChatMessage) /\ AllGenuine(r.msgs)
      BY <2>2, StateTypes DEF MessageInv
    <3> QED  BY <3>1, GenuineStays
  <2> QED  BY <2>1, <2>2 DEF Unforged
<1>5. \A p \in Pages : \A t \in Range(tasks'[p]) : GenuineTask(t)'
  BY StateTypes, GenuineStays DEF MessageInv, Unforged
<1>6. \A p \in Pages : \A s \in Range(sending'[p]) : GenuineCall(p, s)'
  BY StateTypes, GenuineStays DEF MessageInv, Unforged
<1> QED  BY <1>1, <1>2, <1>3, <1>4, <1>5, <1>6 DEF MessageInv

\* A message is shown, or will be.
UnderWay(p, x) ==
    \/ x \in Seen(p) \/ InTask(p, x)
    \/ \E q \in Pages : \E m \in Range(chan[q][p]) : InPacket(p, q, m, x)

\* A step that takes nothing from a page leaves what is under way so.
LEMMA UnderWayStays ==
    ASSUME NEW p \in Pages, NEW x, UnderWay(p, x),
           Range(shown[p]) \subseteq Range(shown'[p]),
           Range(tasks[p]) \subseteq Range(tasks'[p]),
           \A q \in Pages : Range(chan[q][p]) \subseteq Range(chan'[q][p]),
           \A q \in Pages : key[p][q] # NoKey => key'[p][q] = key[p][q]
    PROVE  UnderWay(p, x)'
<1>1. CASE x \in Seen(p)
  BY <1>1 DEF Seen, UnderWay
<1>2. CASE InTask(p, x)
  BY <1>2 DEF InTask, UnderWay
<1>3. ASSUME NEW q \in Pages, NEW m \in Range(chan[q][p]), InPacket(p, q, m, x)
      PROVE  UnderWay(p, x)'
  <2>1. m \in Range(chan'[q][p]) /\ InPacket(p, q, m, x)'
    BY <1>3 DEF InPacket
  <2> QED  BY <2>1 DEF UnderWay
<1> QED  BY <1>1, <1>2, <1>3 DEF UnderWay

LEMMA HandedUnderWay ==
    ASSUME TypeOK, NEW h \in handed
    PROVE  HandedIsUnderWay => h[1] \in Pages /\ UnderWay(h[1], h[2])
  BY DEF TypeOK, HandedIsUnderWay, UnderWay

\* A step that takes nothing from any page leaves all that was handed so.
Grows ==
    /\ \A p \in Pages : /\ Range(shown[p]) \subseteq Range(shown'[p])
                        /\ Range(tasks[p]) \subseteq Range(tasks'[p])
    /\ \A p, q \in Pages : /\ Range(chan[q][p]) \subseteq Range(chan'[q][p])
                           /\ key[p][q] # NoKey => key'[p][q] = key[p][q]

LEMMA HandedStays ==
    ASSUME TypeOK, HandedIsUnderWay, Grows, NEW h \in handed
    PROVE  UnderWay(h[1], h[2])'
<1>1. h[1] \in Pages /\ UnderWay(h[1], h[2])
  BY HandedUnderWay
<1> QED  BY <1>1, UnderWayStays DEF Grows

\* A packet put on a channel.
LEMMA PutType ==
    ASSUME TypeOK, NEW p \in Pages, NEW q \in Pages, NEW m \in Packet
    PROVE  /\ put(p, q, m) \in [Pages -> [Pages -> Seq(Packet)]]
           /\ \A a, b \in Pages : put(p, q, m)[a][b] =
                 IF a = p /\ b = q THEN Append(chan[p][q], m) ELSE chan[a][b]
<1>1. chan \in [Pages -> [Pages -> Seq(Packet)]]
  BY DEF TypeOK
<1>2. chan[p] \in [Pages -> Seq(Packet)] /\ chan[p][q] \in Seq(Packet)
  BY <1>1
<1>3. Append(chan[p][q], m) \in Seq(Packet)
  BY <1>2, AppendFacts
<1> QED  BY <1>1, <1>2, <1>3 DEF put

LEMMA PutFacts ==
    ASSUME TypeOK, NEW p \in Pages, NEW q \in Pages, NEW m \in Packet
    PROVE  \A a, b \in Pages :
              /\ Range(chan[a][b]) \subseteq Range(put(p, q, m)[a][b])
              /\ \A n \in Range(put(p, q, m)[a][b]) :
                    n \in Range(chan[a][b]) \/ (a = p /\ b = q /\ n = m)
<1>1. Range(Append(chan[p][q], m)) = Range(chan[p][q]) \union {m}
  <2>1. chan[p] \in [Pages -> Seq(Packet)] /\ chan[p][q] \in Seq(Packet)
    BY DEF TypeOK
  <2> QED  BY <2>1, AppendFacts
<1>2. \A a, b \in Pages : put(p, q, m)[a][b] =
          IF a = p /\ b = q THEN Append(chan[p][q], m) ELSE chan[a][b]
  BY PutType
<1>3. ASSUME NEW a \in Pages, NEW b \in Pages
      PROVE  /\ Range(chan[a][b]) \subseteq Range(put(p, q, m)[a][b])
             /\ \A n \in Range(put(p, q, m)[a][b]) :
                   n \in Range(chan[a][b]) \/ (a = p /\ b = q /\ n = m)
  <2>1. CASE a = p /\ b = q
    <3>1. put(p, q, m)[a][b] = Append(chan[p][q], m)
      BY <1>2, <2>1
    <3> QED  BY <1>1, <2>1, <3>1
  <2>2. CASE ~(a = p /\ b = q)
    <3>1. put(p, q, m)[a][b] = chan[a][b]
      BY <1>2, <2>2
    <3> QED  BY <3>1
  <2> QED  BY <2>1, <2>2
<1> QED  BY <1>3

LEMMA PutIn ==
    ASSUME TypeOK, NEW p \in Pages, NEW q \in Pages, NEW m \in Packet
    PROVE  m \in Range(put(p, q, m)[p][q])
<1>1. Range(Append(chan[p][q], m)) = Range(chan[p][q]) \union {m}
  <2>1. chan[p] \in [Pages -> Seq(Packet)] /\ chan[p][q] \in Seq(Packet)
    BY DEF TypeOK
  <2> QED  BY <2>1, AppendFacts
<1>2. put(p, q, m)[p][q] = Append(chan[p][q], m)
  BY PutType
<1> QED  BY <1>1, <1>2

\* A task that a page starts.
LEMMA StartFacts ==
    ASSUME TypeOK, NEW p \in Pages, NEW t \in PageTask
    PROVE  /\ start(p, t) \in [Pages -> Seq(PageTask)]
           /\ t \in Range(start(p, t)[p])
           /\ \A a \in Pages :
                 /\ Range(tasks[a]) \subseteq Range(start(p, t)[a])
                 /\ \A u \in Range(start(p, t)[a]) :
                       u \in Range(tasks[a]) \/ (a = p /\ u = t)
<1>1. tasks \in [Pages -> Seq(PageTask)] /\ tasks[p] \in Seq(PageTask)
  BY DEF TypeOK
<1>2. /\ Append(tasks[p], t) \in Seq(PageTask)
      /\ Range(Append(tasks[p], t)) = Range(tasks[p]) \union {t}
  BY <1>1, AppendFacts
<1>3. start(p, t) \in [Pages -> Seq(PageTask)]
  BY <1>1, <1>2 DEF start
<1>4. \A a \in Pages : start(p, t)[a] = IF a = p THEN Append(tasks[p], t) ELSE tasks[a]
  BY <1>1 DEF start
<1>5. ASSUME NEW a \in Pages
      PROVE  /\ Range(tasks[a]) \subseteq Range(start(p, t)[a])
             /\ \A u \in Range(start(p, t)[a]) : u \in Range(tasks[a]) \/ (a = p /\ u = t)
  <2>1. CASE a = p
    <3>1. start(p, t)[a] = Append(tasks[p], t)
      BY <1>4, <2>1
    <3> QED  BY <1>2, <2>1, <3>1
  <2>2. CASE a # p
    <3>1. start(p, t)[a] = tasks[a]
      BY <1>4, <2>2
    <3> QED  BY <3>1
  <2> QED  BY <2>1, <2>2
<1>6. t \in Range(start(p, t)[p])
  BY <1>2, <1>4
<1> QED  BY <1>3, <1>5, <1>6

\* A bundle of genuine messages.
LEMMA BundleFacts ==
    ASSUME NEW p \in Pages, NEW q \in Pages, NEW msgs \in Seq(ChatMessage)
    PROVE  /\ Bundle(msgs) \in Packet
           /\ AllGenuine(msgs) => GenuinePacket(p, Bundle(msgs))
           /\ \A m \in Range(msgs) : InPacket(q, p, Bundle(msgs), m.item)
  BY ItemFacts DEF Bundle, Packet, GenuinePacket, InPacket

\* A bundle that is put on a channel puts what is in it under way.
LEMMA BundlePut ==
    ASSUME TypeOK, NEW p \in Pages, NEW q \in Pages, NEW msgs \in Seq(ChatMessage),
           chan' = put(p, q, Bundle(msgs)), NEW m \in Range(msgs)
    PROVE  UnderWay(q, m.item)'
<1>1. Bundle(msgs) \in Range(chan'[p][q])
  BY BundleFacts, PutIn
<1>2. InPacket(q, p, Bundle(msgs), m.item)'
  BY DEF Bundle, InPacket
<1> QED  BY <1>1, <1>2 DEF UnderWay

\* Steps that add genuine packets, tasks and retries, and what they leave alone.
LEMMA PutStep ==
    ASSUME TypeOK, NEW p \in Pages, NEW q \in Pages, NEW m \in Packet,
           GenuinePacket(p, m)', chan' \in {chan, put(p, q, m)}
    PROVE  /\ chan' \in [Pages -> [Pages -> Seq(Packet)]]
           /\ \A a, b \in Pages :
                 /\ Range(chan[a][b]) \subseteq Range(chan'[a][b])
                 /\ \A n \in Range(chan'[a][b]) :
                       n \in Range(chan[a][b]) \/ GenuinePacket(a, n)'
<1>1. CASE chan' = chan
  BY <1>1 DEF TypeOK
<1>2. CASE chan' = put(p, q, m)
  <2>1. put(p, q, m) \in [Pages -> [Pages -> Seq(Packet)]]
    BY PutType
  <2>2. \A a, b \in Pages : Range(chan[a][b]) \subseteq Range(put(p, q, m)[a][b])
    BY PutFacts
  <2>3. \A a, b \in Pages : \A n \in Range(put(p, q, m)[a][b]) :
           n \in Range(chan[a][b]) \/ (a = p /\ b = q /\ n = m)
    BY PutFacts
  <2>4. ASSUME NEW a \in Pages, NEW b \in Pages, NEW n \in Range(chan'[a][b])
        PROVE  n \in Range(chan[a][b]) \/ GenuinePacket(a, n)'
    <3>1. n \in Range(chan[a][b]) \/ (a = p /\ b = q /\ n = m)
      BY <1>2, <2>3
    <3> QED  BY <3>1
  <2> QED  BY <1>2, <2>1, <2>2, <2>4
<1> QED  BY <1>1, <1>2

LEMMA StartStep ==
    ASSUME TypeOK, NEW p \in Pages, NEW t \in PageTask,
           GenuineTask(t)', tasks' \in {tasks, start(p, t)}
    PROVE  /\ tasks' \in [Pages -> Seq(PageTask)]
           /\ \A a \in Pages :
                 /\ Range(tasks[a]) \subseteq Range(tasks'[a])
                 /\ \A u \in Range(tasks'[a]) : u \in Range(tasks[a]) \/ GenuineTask(u)'
<1>1. CASE tasks' = tasks
  BY <1>1 DEF TypeOK
<1>2. CASE tasks' = start(p, t)
  <2>1. tasks' \in [Pages -> Seq(PageTask)]
    BY <1>2, StartFacts
  <2>2. ASSUME NEW a \in Pages
        PROVE  /\ Range(tasks[a]) \subseteq Range(tasks'[a])
               /\ \A u \in Range(tasks'[a]) : u \in Range(tasks[a]) \/ GenuineTask(u)'
    <3>1. /\ Range(tasks[a]) \subseteq Range(tasks'[a])
          /\ \A u \in Range(tasks'[a]) : u \in Range(tasks[a]) \/ (a = p /\ u = t)
      BY <1>2, StartFacts
    <3>2. ASSUME NEW u \in Range(tasks'[a])
          PROVE  u \in Range(tasks[a]) \/ GenuineTask(u)'
      BY <3>1
    <3> QED  BY <3>1, <3>2
  <2> QED  BY <2>1, <2>2
<1> QED  BY <1>1, <1>2

LEMMA RetryStep ==
    ASSUME TypeOK, NEW p \in Pages, NEW r \in [to : Pages, msgs : Seq(ChatMessage)],
           AllGenuine(r.msgs)',
           retries' \in {retries, [retries EXCEPT ![p] = Append(@, r)]}
    PROVE  /\ retries' \in [Pages -> Seq([to : Pages, msgs : Seq(ChatMessage)])]
           /\ \A a \in Pages : \A u \in Range(retries'[a]) :
                 u \in Range(retries[a]) \/ AllGenuine(u.msgs)'
<1> DEFINE R == [to : Pages, msgs : Seq(ChatMessage)]
<1>1. retries \in [Pages -> Seq(R)]
  BY DEF TypeOK
<1>2. CASE retries' = retries
  BY <1>1, <1>2
<1>3. CASE retries' = [retries EXCEPT ![p] = Append(@, r)]
  <2> HIDE DEF R
  <2>1. r \in R
    BY DEF R
  <2>2. Append(retries[p], r) \in Seq(R) /\ Range(Append(retries[p], r)) = Range(retries[p]) \union {r}
    BY <1>1, <2>1, AppendFacts
  <2>3. retries' = [retries EXCEPT ![p] = Append(retries[p], r)]
    BY <1>3
  <2>4. retries' \in [Pages -> Seq(R)]
    BY <1>1, <2>2, <2>3
  <2>5. ASSUME NEW a \in Pages, NEW u \in Range(retries'[a])
        PROVE  u \in Range(retries[a]) \/ AllGenuine(u.msgs)'
    <3>1. CASE a = p
      <4>1. retries'[a] = Append(retries[p], r)
        BY <1>1, <2>3, <3>1
      <4> QED  BY <2>2, <3>1, <4>1
    <3>2. CASE a # p
      <4>1. retries'[a] = retries[a]
        BY <1>1, <2>3, <3>2
      <4> QED  BY <4>1
    <3> QED  BY <3>1, <3>2
  <2> QED  BY <2>4, <2>5 DEF R
<1> QED  BY <1>2, <1>3

\* What a step that leaves a variable alone adds to it: nothing.
LEMMA NothingAdded ==
    /\ UNCHANGED shown =>
          \A p \in Pages : \A m \in Range(shown'[p]) : m \in Range(shown[p]) \/ Genuine(m)'
    /\ UNCHANGED stored =>
          \A p \in Pages : \A e \in Range(stored'[p]) :
             e \in Range(stored[p]) \/ GenuineEntry(e)'
    /\ UNCHANGED chan =>
          \A p, q \in Pages : \A m \in Range(chan'[q][p]) :
             m \in Range(chan[q][p]) \/ GenuinePacket(q, m)'
    /\ UNCHANGED retries =>
          \A p \in Pages : \A r \in Range(retries'[p]) :
             r \in Range(retries[p]) \/ AllGenuine(r.msgs)'
    /\ UNCHANGED tasks =>
          \A p \in Pages : \A t \in Range(tasks'[p]) :
             t \in Range(tasks[p]) \/ GenuineTask(t)'
    /\ UNCHANGED sending =>
          \A p \in Pages : \A s \in Range(sending'[p]) :
             s \in Range(sending[p]) \/ GenuineCall(p, s)'
  OBVIOUS

LEMMA finalizeKeyExchangeStep ==
    ASSUME ChatInv, NEW p \in Pages, NEW q \in Pages, finalizeKeyExchange(p, q)
    PROVE  ChatInv'
<1>1. PICK msgs \in Seq(ChatMessage) : msgs = recent(shown[p]) /\ AllGenuine(msgs)
  BY StateTypes, RecentFacts DEF ChatInv, MessageInv, AllGenuine
<1>2. PICK k \in Keys : k = derived(p, q) /\ k # NoKey
  <2>1. session[p] \in Nat /\ session[q] \in Nat
    BY DEF ChatInv, TypeOK
  <2> QED  BY <2>1 DEF derived, Keys, NoKey
<1> DEFINE task == Task("cache", q, k, <<>>, <<"load">>)
           retry == [to |-> q, msgs |-> msgs]
<1>3. /\ chan' \in {chan, put(p, q, Bundle(msgs))}
      /\ tasks' \in {tasks, start(p, task)}
      /\ retries' \in {retries, [retries EXCEPT ![p] = Append(@, retry)]}
      /\ handed' = handed \/ /\ chan' = put(p, q, Bundle(msgs))
                             /\ handed' = handed \union {<<q, m.item>> : m \in Range(msgs)}
      /\ UNCHANGED <<scene, shown, stored, session, open, sending, author, sent, faults>>
  BY <1>1, <1>2 DEF finalizeKeyExchange
<1>4. Recorded
  BY <1>3 DEF Recorded
<1>5. /\ task \in PageTask /\ GenuineTask(task)'
      /\ Bundle(msgs) \in Packet /\ GenuinePacket(p, Bundle(msgs))'
      /\ retry \in [to : Pages, msgs : Seq(ChatMessage)] /\ AllGenuine(retry.msgs)'
  <2>1. <<>> \in Seq(ChatMessage) /\ Range(<<>>) = {}
    BY DEF Range
  <2>2. task \in PageTask /\ GenuineTask(task)'
    BY <2>1 DEF Task, PageTask, GenuineTask, AllGenuine
  <2>3. Bundle(msgs) \in Packet /\ GenuinePacket(p, Bundle(msgs))
    BY <1>1, BundleFacts
  <2>4. AllGenuine(msgs)'
    BY <1>1, <1>4, GenuineStays
  <2>5. GenuinePacket(p, Bundle(msgs))'
    BY <1>4, <2>3, GenuineStays
  <2> QED  BY <2>2, <2>3, <2>4, <2>5
<1>6. /\ key' = [key EXCEPT ![p][q] = k]
      /\ finals' = [finals EXCEPT ![p][q] = finals[p][q] + 1]
  BY <1>2 DEF finalizeKeyExchange
<1> HIDE DEF task, retry
<1>7. /\ \A a, b \in Pages : key'[a][b] = IF a = p /\ b = q THEN k ELSE key[a][b]
      /\ key' \in [Pages -> [Pages -> Keys]] /\ finals' \in [Pages -> [Pages -> Nat]]
  <2>1. key \in [Pages -> [Pages -> Keys]] /\ finals \in [Pages -> [Pages -> Nat]]
    BY DEF ChatInv, TypeOK
  <2> QED  BY <1>6, <2>1
<1>8. handed' \subseteq Pages \X Items
  <2>1. \A m \in Range(msgs) : m.item \in Items
    BY RangeType DEF ChatMessage
  <2>2. {<<q, m.item>> : m \in Range(msgs)} \subseteq Pages \X Items
    BY <2>1
  <2> QED  BY <1>3, <2>2 DEF ChatInv, TypeOK
<1>9. TypeOK'
  BY <1>3, <1>5, <1>7, <1>8, PutStep, StartStep, RetryStep DEF ChatInv, TypeOK
<1>10. Unforged
  BY <1>3, <1>5, PutStep, StartStep, RetryStep, NothingAdded DEF ChatInv, Unforged
<1>11. KeyInv'
  BY <1>2, <1>3, <1>7 DEF ChatInv, KeyInv, derived
<1>12. CallInv'
  <2>1. \A a, b \in Pages : key[a][b] # NoKey => key'[a][b] # NoKey
    BY <1>2, <1>7
  <2> QED  BY <1>3, <2>1, StateTypes DEF ChatInv, CallInv, Call
<1>13. Grows
  <2>1. \A a, b \in Pages : key[a][b] # NoKey => key'[a][b] = key[a][b]
    BY <1>2, <1>7 DEF ChatInv, KeyInv
  <2> QED  BY <1>3, <1>5, <2>1, PutStep, StartStep DEF ChatInv, Grows
<1>14. HandedIsUnderWay'
  <2> SUFFICES ASSUME NEW h \in handed' PROVE UnderWay(h[1], h[2])'
    BY DEF HandedIsUnderWay, UnderWay
  <2>1. CASE h \in handed
    BY <1>13, <2>1, HandedStays DEF ChatInv
  <2>2. CASE h \notin handed
    <3>1. /\ chan' = put(p, q, Bundle(msgs))
          /\ \E m \in Range(msgs) : h = <<q, m.item>>
      BY <1>3, <2>2
    <3> QED  BY <3>1, BundlePut DEF ChatInv
  <2> QED  BY <2>1, <2>2
<1> QED  BY <1>4, <1>9, <1>10, <1>11, <1>12, <1>14, MessageStep DEF ChatInv

\* One page's sequence is replaced.
LEMMA UpdateFacts ==
    ASSUME NEW A, NEW f \in [Pages -> Seq(A)], NEW p \in Pages, NEW s \in Seq(A), NEW g,
           g = [f EXCEPT ![p] = s]
    PROVE  /\ g \in [Pages -> Seq(A)] /\ g[p] = s
           /\ \A a \in Pages : a # p => g[a] = f[a]
  OBVIOUS

\* A retry is over.
LEMMA trySendStep ==
    ASSUME ChatInv, NEW p \in Pages, NEW i \in DOMAIN retries[p], trySend(p, i)
    PROVE  ChatInv'
<1> DEFINE R == [to : Pages, msgs : Seq(ChatMessage)]
<1>1. PICK r \in R : r = retries[p][i]
  <2>1. retries[p] \in Seq(R)
    BY StateTypes DEF ChatInv
  <2> HIDE DEF R
  <2> QED  BY <2>1
<1>2. r.msgs \in Seq(ChatMessage) /\ r.to \in Pages /\ AllGenuine(r.msgs)
  BY <1>1, StateTypes DEF ChatInv, MessageInv, Range
<1>3. /\ chan' \in {chan, put(p, r.to, Bundle(r.msgs))}
      /\ retries' = [retries EXCEPT ![p] = RemoveAt(retries[p], i)]
      /\ handed' = handed \/ /\ chan' = put(p, r.to, Bundle(r.msgs))
                             /\ handed' = handed \union {<<r.to, m.item>> : m \in Range(r.msgs)}
      /\ UNCHANGED <<shown, stored, linkVars, sending, tasks, author, sent, faults>>
  BY <1>1 DEF trySend
<1>4. Recorded
  BY <1>3 DEF Recorded
<1>5. Bundle(r.msgs) \in Packet /\ GenuinePacket(p, Bundle(r.msgs))'
  <2>1. Bundle(r.msgs) \in Packet /\ GenuinePacket(p, Bundle(r.msgs))
    BY <1>2, BundleFacts
  <2> QED  BY <1>4, <2>1, GenuineStays
<1>6. /\ retries' \in [Pages -> Seq(R)]
      /\ \A a \in Pages : Range(retries'[a]) \subseteq Range(retries[a])
  <2> HIDE DEF R
  <2>1. retries \in [Pages -> Seq(R)]
    BY DEF ChatInv, TypeOK, R
  <2>2. RemoveAt(retries[p], i) \in Seq(R) /\ Range(RemoveAt(retries[p], i)) \subseteq Range(retries[p])
    BY <2>1, RemoveFacts
  <2>3. /\ retries' \in [Pages -> Seq(R)] /\ retries'[p] = RemoveAt(retries[p], i)
        /\ \A a \in Pages : a # p => retries'[a] = retries[a]
    BY <1>3, <2>1, <2>2, UpdateFacts
  <2> QED  BY <2>2, <2>3
<1>7. handed' \subseteq Pages \X Items
  <2>1. \A m \in Range(r.msgs) : m.item \in Items
    <3>1. Range(r.msgs) \subseteq ChatMessage
      BY <1>2, RangeType
    <3> QED  BY <3>1 DEF ChatMessage
  <2>2. {<<r.to, m.item>> : m \in Range(r.msgs)} \subseteq Pages \X Items
    BY <1>2, <2>1
  <2> QED  BY <1>3, <2>2 DEF ChatInv, TypeOK
<1>8. TypeOK'
  BY <1>2, <1>3, <1>5, <1>6, <1>7, PutStep DEF ChatInv, TypeOK, linkVars
<1>9. Unforged
  BY <1>2, <1>3, <1>5, <1>6, PutStep, NothingAdded DEF ChatInv, Unforged
<1>10. KeyInv' /\ CallInv'
  BY <1>3 DEF ChatInv, KeyInv, CallInv, derived, linkVars
<1>11. Grows
  BY <1>2, <1>3, <1>5, PutStep DEF ChatInv, Grows, linkVars
<1>12. HandedIsUnderWay'
  <2> SUFFICES ASSUME NEW h \in handed' PROVE UnderWay(h[1], h[2])'
    BY DEF HandedIsUnderWay, UnderWay
  <2>1. CASE h \in handed
    BY <1>11, <2>1, HandedStays DEF ChatInv
  <2>2. CASE h \notin handed
    <3>1. /\ chan' = put(p, r.to, Bundle(r.msgs))
          /\ \E m \in Range(r.msgs) : h = <<r.to, m.item>>
      BY <1>3, <2>2
    <3> QED  BY <1>2, <3>1, BundlePut DEF ChatInv
  <2> QED  BY <2>1, <2>2
<1> QED  BY <1>4, <1>8, <1>9, <1>10, <1>12, MessageStep DEF ChatInv

\* A step that changes nothing of messages and keys.
LEMMA QuietStep ==
    ASSUME ChatInv, TypeOK',
           UNCHANGED <<shown, stored, session, key, chan, retries, sending, tasks, author,
                       sent, handed>>
    PROVE  ChatInv'
<1>1. Recorded /\ Grows
  BY DEF Recorded, Grows
<1>2. Unforged
  BY NothingAdded DEF Unforged
<1>3. KeyInv' /\ CallInv'
  BY DEF ChatInv, KeyInv, CallInv, derived
<1>4. HandedIsUnderWay'
  <2>1. \A h \in handed : UnderWay(h[1], h[2])'
    BY <1>1, HandedStays DEF ChatInv
  <2> QED  BY <2>1 DEF HandedIsUnderWay, UnderWay
<1> QED  BY <1>1, <1>2, <1>3, <1>4, MessageStep DEF ChatInv

LEMMA channelOpensStep ==
    ASSUME ChatInv, NEW p \in Pages, NEW q \in Pages, channelOpens(p, q)
    PROVE  ChatInv'
<1>1. TypeOK'
  BY SceneFacts DEF ChatInv, TypeOK, channelOpens
<1> QED  BY <1>1, QuietStep DEF channelOpens

\* A call that is added or goes on.
LEMMA CallStep ==
    ASSUME TypeOK, NEW p \in Pages, NEW c \in Call, GenuineCall(p, c)',
           \/ sending' = [sending EXCEPT ![p] = Append(@, c)]
           \/ \E i \in DOMAIN sending[p] : sending' = [sending EXCEPT ![p][i] = c]
    PROVE  /\ sending' \in [Pages -> Seq(Call)]
           /\ \A a \in Pages : \A s \in Range(sending'[a]) :
                 s \in Range(sending[a]) \/ (a = p /\ s = c)
           /\ \A a \in Pages : \A s \in Range(sending'[a]) :
                 s \in Range(sending[a]) \/ GenuineCall(a, s)'
<1>1. sending \in [Pages -> Seq(Call)] /\ sending[p] \in Seq(Call)
  BY DEF TypeOK
<1>2. PICK calls \in Seq(Call) : /\ Range(calls) \subseteq Range(sending[p]) \union {c}
                                 /\ sending' = [sending EXCEPT ![p] = calls]
  <2>1. CASE sending' = [sending EXCEPT ![p] = Append(@, c)]
    <3>1. Append(sending[p], c) \in Seq(Call)
      BY <1>1, AppendFacts
    <3>2. Range(Append(sending[p], c)) = Range(sending[p]) \union {c}
      BY <1>1, AppendFacts
    <3> QED  BY <2>1, <3>1, <3>2
  <2>2. ASSUME NEW i \in DOMAIN sending[p], sending' = [sending EXCEPT ![p][i] = c]
        PROVE  \E calls \in Seq(Call) :
                  /\ Range(calls) \subseteq Range(sending[p]) \union {c}
                  /\ sending' = [sending EXCEPT ![p] = calls]
    <3>1. [sending[p] EXCEPT ![i] = c] \in Seq(Call)
      BY <1>1, ReplaceFacts
    <3>2. Range([sending[p] EXCEPT ![i] = c]) \subseteq Range(sending[p]) \union {c}
      BY <1>1, ReplaceFacts
    <3>3. sending' = [sending EXCEPT ![p] = [sending[p] EXCEPT ![i] = c]]
      BY <2>2
    <3> QED  BY <3>1, <3>2, <3>3
  <2> QED  BY <2>1, <2>2
<1>3. /\ sending' \in [Pages -> Seq(Call)] /\ sending'[p] = calls
      /\ \A a \in Pages : a # p => sending'[a] = sending[a]
  BY <1>1, <1>2, UpdateFacts
<1>4. \A a \in Pages : \A s \in Range(sending'[a]) :
         s \in Range(sending[a]) \/ (a = p /\ s = c)
  BY <1>2, <1>3
<1>5. ASSUME NEW a \in Pages, NEW s \in Range(sending'[a])
      PROVE  s \in Range(sending[a]) \/ GenuineCall(a, s)'
  <2>1. s \in Range(sending[a]) \/ (a = p /\ s = c)
    BY <1>4
  <2> QED  BY <2>1
<1> QED  BY <1>3, <1>4, <1>5

LEMMA sendChatMessageStep ==
    ASSUME ChatInv, NEW p \in Pages, NEW t \in Texts, sendChatMessage(p, t)
    PROVE  ChatInv'
<1>1. PICK peers \in SUBSET Others(p) :
         sending' = [sending EXCEPT ![p] = Append(@,
             [item |-> t, todo |-> peers, peer |-> None, key |-> NoKey, anySent |-> FALSE])]
  BY DEF sendChatMessage
<1> DEFINE c == [item |-> t, todo |-> peers, peer |-> None, key |-> NoKey, anySent |-> FALSE]
<1>2. /\ author[t] = None /\ author' = [author EXCEPT ![t] = p] /\ t \in Items
      /\ UNCHANGED <<shown, stored, linkVars, chan, retries, tasks, sent, handed, faults>>
  BY ItemFacts DEF sendChatMessage
<1>3. /\ author' \in [Items -> Pages \union {None}] /\ author'[t] = p
      /\ \A x \in Items : x # t => author'[x] = author[x]
  BY <1>2 DEF ChatInv, TypeOK
<1>4. Recorded
  BY <1>2, <1>3 DEF Recorded
<1>5. c \in Call /\ GenuineCall(p, c)'
  <2>1. peers \subseteq Pages
    BY SceneFacts DEF ChatInv, Others
  <2> QED  BY <1>3, <2>1, ItemFacts DEF Call, GenuineCall
<1> HIDE DEF c
<1>6. /\ sending' \in [Pages -> Seq(Call)]
      /\ \A a \in Pages : \A s \in Range(sending'[a]) :
            s \in Range(sending[a]) \/ (a = p /\ s = c)
      /\ \A a \in Pages : \A s \in Range(sending'[a]) :
            s \in Range(sending[a]) \/ GenuineCall(a, s)'
  <2>1. sending' = [sending EXCEPT ![p] = Append(@, c)]
    BY <1>1 DEF c
  <2> QED  BY <1>5, <2>1, CallStep DEF ChatInv
<1>7. TypeOK'
  BY <1>2, <1>3, <1>6 DEF ChatInv, TypeOK, linkVars
<1>8. Unforged
  BY <1>2, <1>6, NothingAdded DEF Unforged
<1>9. KeyInv'
  BY <1>2 DEF ChatInv, KeyInv, derived, linkVars
<1>10. CallInv'
  BY <1>2, <1>6 DEF ChatInv, CallInv, linkVars, c
<1>11. HandedIsUnderWay'
  <2>1. Grows
    BY <1>2 DEF Grows, linkVars
  <2>2. \A h \in handed : UnderWay(h[1], h[2])'
    BY <2>1, HandedStays DEF ChatInv
  <2> QED  BY <1>2, <2>2 DEF HandedIsUnderWay, UnderWay
<1> QED  BY <1>4, <1>7, <1>8, <1>9, <1>10, <1>11, MessageStep DEF ChatInv

LEMMA encryptForStep ==
    ASSUME ChatInv, NEW p \in Pages, NEW i \in DOMAIN sending[p], NEW q \in Pages,
           encryptFor(p, i, q)
    PROVE  ChatInv'
<1>1. PICK s \in Call : s = sending[p][i] /\ GenuineCall(p, s)
  <2>1. sending[p] \in Seq(Call) /\ sending[p][i] \in Range(sending[p])
    BY StateTypes DEF ChatInv, Range
  <2> QED  BY <2>1, StateTypes DEF ChatInv, MessageInv
<1>2. PICK c : c = encrypted(p, s, q) /\ sending' = [sending EXCEPT ![p][i] = c]
  BY <1>1 DEF encryptFor
<1>3. /\ s.peer = None /\ UNCHANGED <<shown, stored, linkVars, chan, retries, tasks,
                                      author, sent, handed, faults>>
  BY <1>1 DEF encryptFor
<1>4. Recorded
  BY <1>3 DEF Recorded
<1>5. /\ c \in Call /\ c.item = s.item /\ c.anySent = s.anySent
      /\ c.peer = None \/ (c.peer = q /\ key[p][q] # NoKey)
  <2>1. key[p][q] \in Keys
    BY StateTypes DEF ChatInv
  <2>2. CASE key[p][q] # NoKey /\ Linked(p, q)
    <3>1. c = [s EXCEPT !.todo = s.todo \ {q}, !.peer = q,
                        !.key = IF s.key = NoKey THEN key[p][q] ELSE s.key]
      BY <1>2, <2>2 DEF encrypted
    <3> QED  BY <2>1, <2>2, <3>1 DEF Call
  <2>3. CASE ~(key[p][q] # NoKey /\ Linked(p, q))
    <3>1. c = [s EXCEPT !.todo = s.todo \ {q}]
      BY <1>2, <2>3 DEF encrypted
    <3> QED  BY <1>3, <3>1 DEF Call
  <2> QED  BY <2>2, <2>3
<1>6. GenuineCall(p, c)'
  <2>1. GenuineCall(p, s)'
    BY <1>1, <1>4, GenuineStays
  <2> QED  BY <1>5, <2>1 DEF GenuineCall
<1>7. /\ sending' \in [Pages -> Seq(Call)]
      /\ \A a \in Pages : \A x \in Range(sending'[a]) :
            x \in Range(sending[a]) \/ (a = p /\ x = c)
      /\ \A a \in Pages : \A x \in Range(sending'[a]) :
            x \in Range(sending[a]) \/ GenuineCall(a, x)'
  BY <1>2, <1>5, <1>6, CallStep DEF ChatInv
<1>8. TypeOK'
  BY <1>3, <1>7 DEF ChatInv, TypeOK, linkVars
<1>9. Unforged
  BY <1>3, <1>7, NothingAdded DEF Unforged
<1>10. KeyInv'
  BY <1>3 DEF ChatInv, KeyInv, derived, linkVars
<1>11. CallInv'
  BY <1>3, <1>5, <1>7 DEF ChatInv, CallInv, linkVars
<1>12. HandedIsUnderWay'
  <2>1. Grows
    BY <1>3 DEF Grows, linkVars
  <2>2. \A h \in handed : UnderWay(h[1], h[2])'
    BY <2>1, HandedStays DEF ChatInv
  <2> QED  BY <1>3, <2>2 DEF HandedIsUnderWay, UnderWay
<1> QED  BY <1>4, <1>8, <1>9, <1>10, <1>11, <1>12, MessageStep DEF ChatInv

LEMMA putChatStep ==
    ASSUME ChatInv, NEW p \in Pages, NEW i \in DOMAIN sending[p], putChat(p, i)
    PROVE  ChatInv'
<1>1. PICK s \in Call : s = sending[p][i] /\ GenuineCall(p, s) /\ s \in Range(sending[p])
  <2>1. sending[p] \in Seq(Call) /\ sending[p][i] \in Range(sending[p])
    BY StateTypes DEF ChatInv, Range
  <2> QED  BY <2>1, StateTypes DEF ChatInv, MessageInv
<1>2. PICK q \in Pages : s.peer = q /\ key[p][q] # NoKey /\ key[p][q] \in Keys
  <2>1. s.peer \in Pages /\ s.peer # None
    BY <1>1 DEF putChat, Call
  <2> QED  BY <1>1, <2>1, StateTypes DEF ChatInv, CallInv
<1>3. PICK m : /\ m = [type |-> "chat", item |-> s.item, key |-> key[p][q], msgs |-> <<>>]
               /\ chan' = put(p, q, m)
  BY <1>1, <1>2 DEF putChat
<1>4. /\ sending' = [sending EXCEPT ![p][i].peer = None, ![p][i].anySent = TRUE]
      /\ sent' = sent \union {s.item}
      /\ handed' = IF key[q][p] = key[p][q] THEN handed \union {<<q, s.item>>} ELSE handed
      /\ UNCHANGED <<shown, stored, linkVars, retries, tasks, author, faults>>
  BY <1>1, <1>2 DEF putChat
<1>5. PICK c : c = [s EXCEPT !.peer = None, !.anySent = TRUE]
  OBVIOUS
<1>6. sending' = [sending EXCEPT ![p][i] = c]
  <2>1. sending \in [Pages -> Seq(Call)] /\ sending[p] \in Seq(Call)
    BY DEF ChatInv, TypeOK
  <2> QED  BY <1>1, <1>4, <1>5, <2>1
<1>7. Recorded
  BY <1>4 DEF Recorded
<1>8. s.item \in Texts /\ s.item \in Items /\ author[s.item] = p
  BY <1>1, ItemFacts DEF Call, GenuineCall
<1>9. m \in Packet /\ GenuinePacket(p, m)'
  <2>1. <<>> \in Seq(ChatMessage) /\ Range(<<>>) = {}
    BY DEF Range
  <2> QED  BY <1>2, <1>3, <1>4, <1>8, <2>1 DEF Packet, GenuinePacket, AllGenuine
<1>10. c \in Call /\ c.item = s.item /\ c.peer = None /\ GenuineCall(p, c)'
  BY <1>4, <1>5, <1>8 DEF Call, GenuineCall
<1>11. /\ sending' \in [Pages -> Seq(Call)]
       /\ \A a \in Pages : \A x \in Range(sending'[a]) :
             x \in Range(sending[a]) \/ (a = p /\ x = c)
       /\ \A a \in Pages : \A x \in Range(sending'[a]) :
             x \in Range(sending[a]) \/ GenuineCall(a, x)'
  BY <1>6, <1>10, CallStep DEF ChatInv
<1>12. TypeOK'
  <2>1. chan' \in [Pages -> [Pages -> Seq(Packet)]]
    BY <1>3, <1>9, PutStep DEF ChatInv
  <2>2. sent' \subseteq Texts /\ handed' \subseteq Pages \X Items
    <3>1. <<q, s.item>> \in Pages \X Items
      BY <1>8
    <3> QED  BY <1>4, <1>8, <3>1 DEF ChatInv, TypeOK
  <2> QED  BY <1>4, <1>11, <2>1, <2>2 DEF ChatInv, TypeOK, linkVars
<1>13. Unforged
  BY <1>2, <1>3, <1>4, <1>9, <1>11, PutStep, NothingAdded DEF ChatInv, Unforged
<1>14. KeyInv'
  BY <1>4 DEF ChatInv, KeyInv, derived, linkVars
<1>15. CallInv'
  BY <1>4, <1>10, <1>11 DEF ChatInv, CallInv, linkVars
<1>16. HandedIsUnderWay'
  <2> SUFFICES ASSUME NEW h \in handed' PROVE UnderWay(h[1], h[2])'
    BY DEF HandedIsUnderWay, UnderWay
  <2>1. CASE h \in handed
    <3>1. Grows
      BY <1>2, <1>3, <1>4, <1>9, PutStep DEF ChatInv, Grows, linkVars
    <3> QED  BY <2>1, <3>1, HandedStays DEF ChatInv
  <2>2. CASE h \notin handed
    <3>1. h = <<q, s.item>> /\ key[q][p] = key[p][q]
      BY <1>4, <2>2
    <3>2. InPacket(q, p, m, s.item)'
      BY <1>2, <1>3, <1>4, <3>1 DEF InPacket, linkVars
    <3>3. m \in Range(chan'[p][q])
      BY <1>3, <1>9, PutIn DEF ChatInv
    <3> QED  BY <3>1, <3>2, <3>3 DEF UnderWay
  <2> QED  BY <2>1, <2>2
<1> QED  BY <1>7, <1>12, <1>13, <1>14, <1>15, <1>16, MessageStep DEF ChatInv

LEMMA finishSendStep ==
    ASSUME ChatInv, NEW p \in Pages, NEW i \in DOMAIN sending[p], finishSend(p, i)
    PROVE  ChatInv'
<1>1. PICK s \in Call : s = sending[p][i] /\ GenuineCall(p, s)
  <2>1. sending[p] \in Seq(Call) /\ sending[p][i] \in Range(sending[p])
    BY StateTypes DEF ChatInv, Range
  <2> QED  BY <2>1, StateTypes DEF ChatInv, MessageInv
<1>2. PICK t : t = Task("own", p, s.key, <<Msg(p, s.item, p)>>, <<"save", "show">>)
  OBVIOUS
<1>3. /\ sending' = [sending EXCEPT ![p] = RemoveAt(sending[p], i)]
      /\ tasks' = IF s.anySent THEN start(p, t) ELSE tasks
      /\ UNCHANGED <<shown, stored, linkVars, chan, retries, author, sent, handed, faults>>
  BY <1>1, <1>2 DEF finishSend, wasSent
<1>4. Recorded
  BY <1>3 DEF Recorded
<1>5. /\ sending' \in [Pages -> Seq(Call)]
      /\ \A a \in Pages : Range(sending'[a]) \subseteq Range(sending[a])
  <2>1. sending \in [Pages -> Seq(Call)] /\ sending[p] \in Seq(Call)
    BY DEF ChatInv, TypeOK
  <2>2. /\ RemoveAt(sending[p], i) \in Seq(Call)
        /\ Range(RemoveAt(sending[p], i)) \subseteq Range(sending[p])
    BY <2>1, RemoveFacts
  <2>3. /\ sending' \in [Pages -> Seq(Call)] /\ sending'[p] = RemoveAt(sending[p], i)
        /\ \A a \in Pages : a # p => sending'[a] = sending[a]
    BY <1>3, <2>1, <2>2, UpdateFacts
  <2> QED  BY <2>2, <2>3
<1>6. /\ tasks' \in [Pages -> Seq(PageTask)]
      /\ \A a \in Pages :
            /\ Range(tasks[a]) \subseteq Range(tasks'[a])
            /\ \A u \in Range(tasks'[a]) : u \in Range(tasks[a]) \/ GenuineTask(u)'
  <2>1. CASE ~s.anySent
    BY <1>3, <2>1 DEF ChatInv, TypeOK
  <2>2. CASE s.anySent
    <3>1. s.item \in Texts /\ s.item \in Items /\ author[s.item] = p /\ s.item \in sent
      BY <1>1, <2>2, ItemFacts DEF Call, GenuineCall
    <3>2. Msg(p, s.item, p) \in ChatMessage /\ Genuine(Msg(p, s.item, p))
      BY <3>1, MsgFacts, ItemFacts DEF Genuine
    <3>3. /\ t.kind = "own" /\ t.msgs = <<Msg(p, s.item, p)>>
          /\ t.msgs \in Seq(ChatMessage) /\ Range(t.msgs) = {Msg(p, s.item, p)}
      BY <1>2, <3>2, SingleFacts DEF Task
    <3>4. t \in PageTask
      <4>1. s.key \in Keys
        BY DEF Call
      <4> QED  BY <1>2, <3>3, <4>1 DEF PageTask, Task
    <3>5. GenuineTask(t)
      BY <3>2, <3>3 DEF GenuineTask, AllGenuine
    <3>6. GenuineTask(t)'
      BY <1>4, <3>4, <3>5, GenuineStays
    <3> QED  BY <1>3, <2>2, <3>4, <3>6, StartStep DEF ChatInv
  <2> QED  BY <2>1, <2>2 DEF Call
<1>7. TypeOK'
  BY <1>3, <1>5, <1>6 DEF ChatInv, TypeOK, linkVars
<1>8. Unforged
  BY <1>3, <1>5, <1>6, NothingAdded DEF Unforged
<1>9. KeyInv' /\ CallInv'
  BY <1>3, <1>5 DEF ChatInv, KeyInv, CallInv, derived, linkVars
<1>10. HandedIsUnderWay'
  <2>1. Grows
    BY <1>3, <1>6 DEF Grows, linkVars
  <2>2. \A h \in handed : UnderWay(h[1], h[2])'
    BY <2>1, HandedStays DEF ChatInv
  <2> QED  BY <1>3, <2>2 DEF HandedIsUnderWay, UnderWay
<1> QED  BY <1>4, <1>7, <1>8, <1>9, <1>10, MessageStep DEF ChatInv

LEMMA initiateFileTransferStep ==
    ASSUME ChatInv, NEW p \in Pages, NEW q \in Pages, NEW f \in Files,
           initiateFileTransfer(p, q, f)
    PROVE  ChatInv'
<1>1. PICK m : m = [type |-> "file", item |-> f, key |-> NoKey, msgs |-> <<>>]
  OBVIOUS
<1>2. PICK t : t = Task("fileOut", q, NoKey, <<Msg(p, f, p)>>, <<"show", "save">>)
  OBVIOUS
<1>3. /\ author[f] = None /\ author' = [author EXCEPT ![f] = p] /\ f \in Items
      /\ chan' \in {chan, put(p, q, m)} /\ tasks' = start(p, t)
      /\ UNCHANGED <<shown, stored, linkVars, retries, sending, sent, handed, faults>>
  BY <1>1, <1>2, ItemFacts DEF initiateFileTransfer
<1>4. /\ author' \in [Items -> Pages \union {None}] /\ author'[f] = p
      /\ \A x \in Items : x # f => author'[x] = author[x]
  BY <1>3 DEF ChatInv, TypeOK
<1>5. Recorded
  BY <1>3, <1>4 DEF Recorded
<1>6. m \in Packet /\ GenuinePacket(p, m)'
  <2>1. <<>> \in Seq(ChatMessage) /\ Range(<<>>) = {}
    BY DEF Range
  <2> QED  BY <1>1, <1>3, <1>4, <2>1, ItemFacts DEF Packet, GenuinePacket, AllGenuine
<1>7. t \in PageTask /\ GenuineTask(t)'
  <2>1. /\ Msg(p, f, p) \in ChatMessage /\ Msg(p, f, p).item = f
        /\ Msg(p, f, p).from = p /\ Msg(p, f, p).id[2] = f
    BY <1>3, MsgFacts
  <2>2. PICK n : n = Msg(p, f, p)
    OBVIOUS
  <2>3. Genuine(n)'
    BY <1>3, <1>4, <2>1, <2>2, ItemFacts DEF Genuine
  <2>4. /\ t.kind = "fileOut" /\ t.msgs = <<n>>
        /\ t.msgs \in Seq(ChatMessage) /\ Range(t.msgs) = {n}
    BY <1>2, <2>1, <2>2, SingleFacts DEF Task
  <2>5. t \in PageTask
    BY <1>2, <2>4, ItemFacts DEF PageTask, Task
  <2> QED  BY <2>1, <2>2, <2>3, <2>4, <2>5 DEF GenuineTask, AllGenuine
<1>8. TypeOK'
  BY <1>3, <1>4, <1>6, <1>7, PutStep, StartStep DEF ChatInv, TypeOK, linkVars
<1>9. Unforged
  BY <1>3, <1>6, <1>7, PutStep, StartStep, NothingAdded DEF ChatInv, Unforged
<1>10. KeyInv' /\ CallInv'
  BY <1>3 DEF ChatInv, KeyInv, CallInv, derived, linkVars
<1>11. HandedIsUnderWay'
  <2>1. Grows
    BY <1>3, <1>6, <1>7, PutStep, StartStep DEF ChatInv, Grows, linkVars
  <2>2. \A h \in handed : UnderWay(h[1], h[2])'
    BY <2>1, HandedStays DEF ChatInv
  <2> QED  BY <1>3, <2>2 DEF HandedIsUnderWay, UnderWay
<1> QED  BY <1>5, <1>8, <1>9, <1>10, <1>11, MessageStep DEF ChatInv

\* A page takes a packet: what was under way in it is shown already, or is in
\* the task that starts.
LEMMA onMessageStep ==
    ASSUME ChatInv, NEW p \in Pages, NEW q \in Pages, onMessage(q, p)
    PROVE  ChatInv'
<1>1. chan \in [Pages -> [Pages -> Seq(Packet)]] /\ chan[q][p] \in Seq(Packet) /\ chan[q][p] # <<>>
  BY DEF ChatInv, TypeOK, onMessage
<1>2. PICK m \in Packet : m = Head(chan[q][p]) /\ GenuinePacket(q, m)
  BY <1>1, TailFacts DEF ChatInv, MessageInv
<1>3. /\ chan' = [chan EXCEPT ![q][p] = Tail(chan[q][p])]
      /\ UNCHANGED <<shown, stored, linkVars, retries, sending, author, sent, handed, faults>>
      /\ \/ \E t \in handler(p, q, m) : tasks' = start(p, t)
         \/ (handler(p, q, m) = {} \/ m.type = "file") /\ tasks' = tasks
  BY <1>2 DEF onMessage
<1>4. Recorded
  BY <1>3 DEF Recorded
<1>5. /\ tasks' \in [Pages -> Seq(PageTask)]
      /\ \A a \in Pages :
            /\ Range(tasks[a]) \subseteq Range(tasks'[a])
            /\ \A u \in Range(tasks'[a]) : u \in Range(tasks[a]) \/ GenuineTask(u)'
  <2>1. CASE tasks' = tasks
    BY <2>1 DEF ChatInv, TypeOK
  <2>2. ASSUME NEW t \in handler(p, q, m), tasks' = start(p, t)
        PROVE  /\ tasks' \in [Pages -> Seq(PageTask)]
               /\ \A a \in Pages :
                     /\ Range(tasks[a]) \subseteq Range(tasks'[a])
                     /\ \A u \in Range(tasks'[a]) : u \in Range(tasks[a]) \/ GenuineTask(u)'
    <3>1. t \in PageTask /\ GenuineTask(t)
      BY <1>2, HandlerFacts DEF ChatInv
    <3>2. GenuineTask(t)'
      BY <1>4, <3>1, GenuineStays
    <3> QED  BY <2>2, <3>1, <3>2, StartStep DEF ChatInv
  <2> QED  BY <1>3, <2>1, <2>2
<1>6. /\ Tail(chan[q][p]) \in Seq(Packet)
      /\ Range(chan[q][p]) = Range(Tail(chan[q][p])) \union {m}
  BY <1>1, <1>2, TailFacts
<1>7. /\ chan' \in [Pages -> [Pages -> Seq(Packet)]]
      /\ chan'[q][p] = Tail(chan[q][p])
      /\ \A a, b \in Pages : ~(a = q /\ b = p) => chan'[a][b] = chan[a][b]
  BY <1>1, <1>3, <1>6
<1>8. TypeOK'
  BY <1>3, <1>5, <1>7 DEF ChatInv, TypeOK, linkVars
<1>9. Unforged
  <2>1. \A a, b \in Pages : Range(chan'[a][b]) \subseteq Range(chan[a][b])
    BY <1>6, <1>7
  <2> QED  BY <1>3, <1>5, <2>1, NothingAdded DEF Unforged
<1>10. KeyInv' /\ CallInv'
  BY <1>3 DEF ChatInv, KeyInv, CallInv, derived, linkVars
<1>11. HandedIsUnderWay'
  <2> SUFFICES ASSUME NEW h \in handed PROVE UnderWay(h[1], h[2])'
    BY <1>3 DEF HandedIsUnderWay, UnderWay
  <2>1. h[1] \in Pages /\ UnderWay(h[1], h[2])
    BY HandedUnderWay DEF ChatInv
  <2>2. CASE h[2] \in Seen(h[1])
    BY <1>3, <2>2 DEF Seen, UnderWay
  <2>3. CASE InTask(h[1], h[2])
    BY <1>5, <2>1, <2>3 DEF InTask, UnderWay
  <2>4. ASSUME NEW a \in Pages, NEW n \in Range(chan[a][h[1]]), InPacket(h[1], a, n, h[2])
        PROVE  UnderWay(h[1], h[2])'
    <3>1. CASE n \in Range(chan'[a][h[1]])
      <4>1. InPacket(h[1], a, n, h[2])'
        BY <1>3, <2>4 DEF InPacket, linkVars
      <4> QED  BY <3>1, <4>1 DEF UnderWay
    <3>2. CASE n \notin Range(chan'[a][h[1]])
      <4>1. a = q /\ h[1] = p /\ n = m
        BY <1>6, <1>7, <2>1, <3>2
      <4>2. /\ m.type # "file"
            /\ h[2] \in Seen(p) \/ handler(p, q, m) # {}
            /\ \A t \in handler(p, q, m) :
                  h[2] \in Seen(p) \/ \E k \in Range(t.msgs) : k.item = h[2]
        BY <1>2, <2>4, <4>1, ReadFacts DEF ChatInv
      <4>3. CASE h[2] \in Seen(p)
        BY <1>3, <4>1, <4>3 DEF Seen, UnderWay
      <4>4. CASE h[2] \notin Seen(p)
        <5>1. PICK t \in handler(p, q, m) : tasks' = start(p, t)
          BY <1>3, <4>2, <4>4
        <5>2. t \in PageTask /\ "show" \in Range(t.steps)
          BY <1>2, HandlerFacts DEF ChatInv
        <5>3. t \in Range(tasks'[p])
          BY <5>1, <5>2, StartFacts DEF ChatInv
        <5>4. \E k \in Range(t.msgs) : k.item = h[2]
          BY <4>2, <4>4
        <5> QED  BY <4>1, <5>2, <5>3, <5>4 DEF InTask, UnderWay
      <4> QED  BY <4>3, <4>4
    <3> QED  BY <3>1, <3>2
  <2> QED  BY <2>1, <2>2, <2>3, <2>4 DEF UnderWay
<1> QED  BY <1>4, <1>8, <1>9, <1>10, <1>11, MessageStep DEF ChatInv

\* A task goes on: what it was to show is shown, or is still to be.
LEMMA stepStep ==
    ASSUME ChatInv, NEW p \in Pages, NEW i \in DOMAIN tasks[p], step(p, i)
    PROVE  ChatInv'
<1>1. tasks \in [Pages -> Seq(PageTask)] /\ tasks[p] \in Seq(PageTask)
  BY DEF ChatInv, TypeOK
<1>2. PICK t \in PageTask : t = tasks[p][i] /\ GenuineTask(t) /\ t \in Range(tasks[p])
  <2>1. tasks[p][i] \in Range(tasks[p]) /\ tasks[p][i] \in PageTask
    BY <1>1 DEF Range
  <2> QED  BY <2>1 DEF ChatInv, MessageInv
<1>3. /\ t.msgs \in Seq(ChatMessage) /\ t.peer \in Pages /\ t.key \in Keys
      /\ t.steps \in {<<"load">>, <<"save", "show">>, <<"show", "save">>, <<"show">>,
                      <<"save">>}
  BY DEF PageTask
<1>4. /\ tasks' = [tasks EXCEPT ![p] = IF Len(t.steps) = 1 THEN RemoveAt(@, i)
                                       ELSE [@ EXCEPT ![i].steps = Tail(t.steps)]]
      /\ UNCHANGED <<linkVars, chan, retries, sending, author, sent, handed, faults>>
      /\ Head(t.steps) = "save" =>
            /\ \E k \in saveKeys(p, t) : stored' = [stored EXCEPT ![p] = @ \o entries(t, k)]
            /\ UNCHANGED shown
      /\ Head(t.steps) = "show" =>
            shown' = [shown EXCEPT ![p] = @ \o t.msgs] /\ UNCHANGED stored
      /\ Head(t.steps) \notin {"save", "show"} =>
            /\ shown' = [shown EXCEPT ![p] = withCached(p, readable(p, t.key))]
            /\ UNCHANGED stored
  BY <1>2 DEF step
<1>5. Recorded
  BY <1>4 DEF Recorded
<1>6. \E u \in PageTask :
         /\ \A a \in Pages : a # p => tasks'[a] = tasks[a]
         /\ tasks' \in [Pages -> Seq(PageTask)] /\ GenuineTask(u)
         /\ Range(tasks'[p]) \subseteq Range(tasks[p]) \union {u}
         /\ Range(tasks[p]) \subseteq Range(tasks'[p]) \union {t}
         /\ "show" \in Range(t.steps) /\ Head(t.steps) # "show" =>
               u.msgs = t.msgs /\ "show" \in Range(u.steps) /\ u \in Range(tasks'[p])
  <2>1. CASE Len(t.steps) = 1
    <3>1. /\ RemoveAt(tasks[p], i) \in Seq(PageTask)
          /\ Range(RemoveAt(tasks[p], i)) \subseteq Range(tasks[p])
          /\ Range(tasks[p]) \subseteq Range(RemoveAt(tasks[p], i)) \union {t}
      BY <1>1, <1>2, RemoveFacts
    <3>2. tasks' = [tasks EXCEPT ![p] = RemoveAt(tasks[p], i)]
      BY <1>4, <2>1
    <3>3. /\ tasks' \in [Pages -> Seq(PageTask)] /\ tasks'[p] = RemoveAt(tasks[p], i)
          /\ \A a \in Pages : a # p => tasks'[a] = tasks[a]
      BY <1>1, <3>1, <3>2, UpdateFacts
    <3>4. ~("show" \in Range(t.steps) /\ Head(t.steps) # "show")
      BY <1>3, <2>1 DEF Range
    <3> QED  BY <1>2, <3>1, <3>3, <3>4
  <2>2. CASE Len(t.steps) # 1
    <3>1. /\ t.steps \in {<<"save", "show">>, <<"show", "save">>}
          /\ Tail(t.steps) \in {<<"show">>, <<"save">>}
          /\ Head(t.steps) = "save" => Tail(t.steps) = <<"show">>
          /\ Head(t.steps) = "save" \/ Head(t.steps) = "show"
      <4>1. t.steps \in {<<"save", "show">>, <<"show", "save">>}
        BY <1>3, <2>2
      <4>2. CASE t.steps = <<"save", "show">>
        BY <4>2
      <4>3. CASE t.steps = <<"show", "save">>
        BY <4>3
      <4> QED  BY <4>1, <4>2, <4>3
    <3>2. PICK u : u = [t EXCEPT !.steps = Tail(t.steps)]
      OBVIOUS
    <3>3. u \in PageTask /\ u.msgs = t.msgs /\ u.kind = t.kind /\ u.steps = Tail(t.steps)
      BY <3>1, <3>2 DEF PageTask
    <3>4. GenuineTask(u)
      BY <1>2, <3>3 DEF GenuineTask
    <3>5. Head(t.steps) # "show" => "show" \in Range(u.steps)
      <4>1. "show" \in Range(<<"show">>)
        BY DEF Range
      <4> QED  BY <3>1, <3>3, <4>1
    <3>6. tasks' = [tasks EXCEPT ![p] = [tasks[p] EXCEPT ![i] = u]]
      <4>1. tasks' = [tasks EXCEPT ![p] = [tasks[p] EXCEPT ![i].steps = Tail(t.steps)]]
        BY <1>4, <2>2
      <4> QED  BY <1>1, <1>2, <3>2, <4>1
    <3>7. /\ [tasks[p] EXCEPT ![i] = u] \in Seq(PageTask)
          /\ Range([tasks[p] EXCEPT ![i] = u]) \subseteq Range(tasks[p]) \union {u}
          /\ Range(tasks[p]) \subseteq Range([tasks[p] EXCEPT ![i] = u]) \union {t}
          /\ u \in Range([tasks[p] EXCEPT ![i] = u])
      BY <1>1, <1>2, <3>3, ReplaceFacts
    <3>8. /\ tasks' \in [Pages -> Seq(PageTask)] /\ tasks'[p] = [tasks[p] EXCEPT ![i] = u]
          /\ \A a \in Pages : a # p => tasks'[a] = tasks[a]
      BY <1>1, <3>6, <3>7, UpdateFacts
    <3> QED  BY <3>3, <3>4, <3>5, <3>7, <3>8
  <2> QED  BY <2>1, <2>2
<1>7. PICK u \in PageTask :
         /\ \A a \in Pages : a # p => tasks'[a] = tasks[a]
         /\ tasks' \in [Pages -> Seq(PageTask)] /\ GenuineTask(u)
         /\ Range(tasks'[p]) \subseteq Range(tasks[p]) \union {u}
         /\ Range(tasks[p]) \subseteq Range(tasks'[p]) \union {t}
         /\ "show" \in Range(t.steps) /\ Head(t.steps) # "show" =>
               u.msgs = t.msgs /\ "show" \in Range(u.steps) /\ u \in Range(tasks'[p])
  BY <1>6
<1>8. \E added \in Seq(ChatMessage) :
         /\ AllGenuine(added)
         /\ shown' \in [Pages -> Seq(ChatMessage)]
         /\ \A a \in Pages : a # p => shown'[a] = shown[a]
         /\ Range(shown'[p]) = Range(shown[p]) \union Range(added)
         /\ Head(t.steps) = "show" => added = t.msgs
  <2>1. shown \in [Pages -> Seq(ChatMessage)] /\ shown[p] \in Seq(ChatMessage)
    BY DEF ChatInv, TypeOK
  <2>2. CASE Head(t.steps) = "save"
    <3>1. <<>> \in Seq(ChatMessage) /\ Range(<<>>) = {}
      BY DEF Range
    <3> QED  BY <1>4, <2>1, <2>2, <3>1 DEF AllGenuine
  <2>3. CASE Head(t.steps) = "show"
    <3>1. /\ shown[p] \o t.msgs \in Seq(ChatMessage)
          /\ Range(shown[p] \o t.msgs) = Range(shown[p]) \union Range(t.msgs)
      BY <1>3, <2>1, ConcatFacts
    <3>2. shown' = [shown EXCEPT ![p] = shown[p] \o t.msgs]
      BY <1>4, <2>3
    <3>3. /\ shown' \in [Pages -> Seq(ChatMessage)] /\ shown'[p] = shown[p] \o t.msgs
          /\ \A a \in Pages : a # p => shown'[a] = shown[a]
      BY <2>1, <3>1, <3>2, UpdateFacts
    <3> QED  BY <1>2, <1>3, <3>1, <3>3 DEF GenuineTask
  <2>4. CASE Head(t.steps) \notin {"save", "show"}
    <3> DEFINE read == readable(p, t.key)
    <3>1. /\ read \in Seq(ChatMessage)
          /\ \A m \in Range(read) : \E e \in Range(stored[p]) :
                m.item = e.item /\ m.from = e.from /\ m.id[1] = "cache" /\ m.id[2] = e.item
      BY ReadableFacts DEF ChatInv
    <3>2. AllGenuine(read)
      <4> HIDE DEF read
      <4>1. \A e \in Range(stored[p]) : GenuineEntry(e)
        BY DEF ChatInv, MessageInv
      <4> QED  BY <3>1, <4>1 DEF AllGenuine, Genuine, GenuineEntry
    <3>3. shown' = [shown EXCEPT ![p] = read \o shown[p]]
      BY <1>4, <2>4 DEF withCached
    <3> HIDE DEF read
    <3>4. /\ read \o shown[p] \in Seq(ChatMessage)
          /\ Range(read \o shown[p]) = Range(shown[p]) \union Range(read)
      BY <2>1, <3>1, ConcatFacts
    <3>5. /\ shown' \in [Pages -> Seq(ChatMessage)] /\ shown'[p] = read \o shown[p]
          /\ \A a \in Pages : a # p => shown'[a] = shown[a]
      BY <2>1, <3>3, <3>4, UpdateFacts
    <3> QED  BY <2>4, <3>1, <3>2, <3>4, <3>5
  <2> QED  BY <2>2, <2>3, <2>4
<1>9. PICK added \in Seq(ChatMessage) :
         /\ AllGenuine(added)
         /\ shown' \in [Pages -> Seq(ChatMessage)]
         /\ \A a \in Pages : a # p => shown'[a] = shown[a]
         /\ Range(shown'[p]) = Range(shown[p]) \union Range(added)
         /\ Head(t.steps) = "show" => added = t.msgs
  BY <1>8
<1>10. /\ stored' \in [Pages -> Seq(Entry)]
       /\ \A a \in Pages : \A e \in Range(stored'[a]) : e \in Range(stored[a]) \/ GenuineEntry(e)
  <2>1. stored \in [Pages -> Seq(Entry)] /\ stored[p] \in Seq(Entry)
    BY DEF ChatInv, TypeOK
  <2>2. CASE UNCHANGED stored
    BY <2>1, <2>2
  <2>3. CASE Head(t.steps) = "save"
    <3>1. PICK k \in saveKeys(p, t) : stored' = [stored EXCEPT ![p] = @ \o entries(t, k)]
      BY <1>4, <2>3
    <3>2. k \in Keys
      <4>1. key[p][t.peer] \in Keys
        BY <1>3, StateTypes DEF ChatInv
      <4> QED  BY <1>3, <3>1, <4>1 DEF saveKeys
    <3>3. PICK new \in Seq(Entry) :
             /\ new = entries(t, k)
             /\ \A e \in Range(new) : \E m \in Range(t.msgs) :
                   e.item = m.item /\ e.from = IF t.kind = "fileOut" THEN t.peer ELSE m.from
      BY <3>2, EntriesFacts
    <3>4. ASSUME NEW e \in Range(new) PROVE GenuineEntry(e)
      <4>1. PICK m \in Range(t.msgs) :
               e.item = m.item /\ e.from = IF t.kind = "fileOut" THEN t.peer ELSE m.from
        BY <3>3
      <4>2. /\ Genuine(m) /\ (t.kind = "fileOut" => m.item \in Files)
            /\ m.item \in Items
        <5>1. m \in ChatMessage
          BY <1>3, RangeType
        <5> QED  BY <1>2, <5>1 DEF GenuineTask, AllGenuine, ChatMessage
      <4> QED  BY <4>1, <4>2, ItemFacts DEF Genuine, GenuineEntry
    <3>5. stored' = [stored EXCEPT ![p] = stored[p] \o new]
      BY <3>1, <3>3
    <3>6. /\ stored[p] \o new \in Seq(Entry)
          /\ Range(stored[p] \o new) = Range(stored[p]) \union Range(new)
      BY <2>1, ConcatFacts
    <3>7. /\ stored' \in [Pages -> Seq(Entry)] /\ stored'[p] = stored[p] \o new
          /\ \A a \in Pages : a # p => stored'[a] = stored[a]
      BY <2>1, <3>5, <3>6, UpdateFacts
    <3> QED  BY <3>4, <3>6, <3>7
  <2> QED  BY <1>4, <2>2, <2>3
<1>11. TypeOK'
  BY <1>4, <1>7, <1>9, <1>10 DEF ChatInv, TypeOK, linkVars
<1>12. Unforged
  <2>1. \A a \in Pages : \A m \in Range(shown'[a]) : m \in Range(shown[a]) \/ Genuine(m)'
    <3>1. AllGenuine(added)'
      BY <1>5, <1>9, GenuineStays
    <3> QED  BY <1>9, <3>1 DEF AllGenuine
  <2>2. \A a \in Pages : \A e \in Range(stored'[a]) :
           e \in Range(stored[a]) \/ GenuineEntry(e)'
    <3>1. \A a \in Pages : Range(stored'[a]) \subseteq Entry
      BY <1>10, RangeType
    <3> QED  BY <1>5, <1>10, <3>1, GenuineStays
  <2>3. \A a \in Pages : \A v \in Range(tasks'[a]) : v \in Range(tasks[a]) \/ GenuineTask(v)'
    <3>1. GenuineTask(u)'
      BY <1>5, <1>7, GenuineStays
    <3> QED  BY <1>7, <3>1
  <2> QED  BY <1>4, <2>1, <2>2, <2>3, NothingAdded DEF Unforged
<1>13. KeyInv' /\ CallInv'
  BY <1>4 DEF ChatInv, KeyInv, CallInv, derived, linkVars
<1>14. HandedIsUnderWay'
  <2> SUFFICES ASSUME NEW h \in handed PROVE UnderWay(h[1], h[2])'
    BY <1>4 DEF HandedIsUnderWay, UnderWay
  <2>1. h[1] \in Pages /\ UnderWay(h[1], h[2])
    BY HandedUnderWay DEF ChatInv
  <2>2. \A a \in Pages : Range(shown[a]) \subseteq Range(shown'[a])
    BY <1>9
  <2>3. CASE h[2] \in Seen(h[1])
    BY <2>1, <2>2, <2>3 DEF Seen, UnderWay
  <2>4. CASE InTask(h[1], h[2])
    <3>1. PICK v \in Range(tasks[h[1]]) :
             "show" \in Range(v.steps) /\ \E m \in Range(v.msgs) : m.item = h[2]
      BY <2>4 DEF InTask
    <3>2. CASE v \in Range(tasks'[h[1]])
      BY <3>1, <3>2 DEF InTask, UnderWay
    <3>3. CASE v \notin Range(tasks'[h[1]])
      <4>1. h[1] = p /\ v = t
        BY <1>7, <2>1, <3>3
      <4>2. CASE Head(t.steps) = "show"
        BY <1>9, <3>1, <4>1, <4>2 DEF Seen, UnderWay
      <4>3. CASE Head(t.steps) # "show"
        BY <1>7, <3>1, <4>1, <4>3 DEF InTask, UnderWay
      <4> QED  BY <4>2, <4>3
    <3> QED  BY <3>2, <3>3
  <2>5. ASSUME NEW a \in Pages, NEW n \in Range(chan[a][h[1]]), InPacket(h[1], a, n, h[2])
        PROVE  UnderWay(h[1], h[2])'
    BY <1>4, <2>5 DEF InPacket, UnderWay, linkVars
  <2> QED  BY <2>1, <2>3, <2>4, <2>5 DEF UnderWay
<1> QED  BY <1>5, <1>11, <1>12, <1>13, <1>14, MessageStep DEF ChatInv

\* A call that goes on without a peer that was lost.
LEMMA AbandonFacts ==
    ASSUME TypeOK, NEW p \in Pages, NEW q \in Pages
    PROVE  /\ abandon(p, q) \in Seq(Call)
           /\ \A s \in Range(abandon(p, q)) : \E c \in Range(sending[p]) :
                 /\ s.item = c.item /\ s.anySent = c.anySent
                 /\ s.peer = None \/ (s.peer = c.peer /\ s.peer # q)
<1>1. /\ sending[p] \in Seq(Call) /\ Len(sending[p]) \in Nat
      /\ DOMAIN sending[p] = 1..Len(sending[p])
      /\ \A i \in DOMAIN sending[p] : sending[p][i] \in Call
  BY StateTypes
<1>2. \A c \in Call : /\ without(c, q) \in Call
                      /\ without(c, q).item = c.item /\ without(c, q).anySent = c.anySent
                      /\ without(c, q).peer = IF c.peer = q THEN None ELSE c.peer
  <2> TAKE c \in Call
  <2>1. without(c, q) = [c EXCEPT !.todo = c.todo \ {q},
                                  !.peer = IF c.peer = q THEN None ELSE c.peer]
    BY DEF without
  <2> QED  BY <2>1 DEF Call
<1>3. abandon(p, q) \in [1..Len(sending[p]) -> Call]
  BY <1>1, <1>2 DEF abandon
<1>4. abandon(p, q) \in Seq(Call)
  BY <1>1, <1>3, SeqDef
<1>5. ASSUME NEW s \in Range(abandon(p, q))
      PROVE  \E c \in Range(sending[p]) :
                /\ s.item = c.item /\ s.anySent = c.anySent
                /\ s.peer = None \/ (s.peer = c.peer /\ s.peer # q)
  <2>1. PICK i \in DOMAIN sending[p] : s = without(sending[p][i], q)
    BY DEF abandon, Range
  <2>2. sending[p][i] \in Range(sending[p]) /\ sending[p][i] \in Call
    BY <1>1 DEF Range
  <2> QED  BY <1>2, <2>1, <2>2
<1> QED  BY <1>4, <1>5

LEMMA loseLinkStep ==
    ASSUME ChatInv, NEW p \in Pages, NEW q \in Pages, loseLink(p, q)
    PROVE  ChatInv'
<1>1. /\ key' = [key EXCEPT ![p][q] = NoKey, ![q][p] = NoKey]
      /\ finals' = [finals EXCEPT ![p][q] = 0, ![q][p] = 0]
      /\ open' = open \ {{p, q}} /\ faults' = faults + 1
      /\ chan' = [chan EXCEPT ![p][q] = <<>>, ![q][p] = <<>>]
      /\ handed' = {h \in handed : h[1] \notin {p, q}}
      /\ sending' = [sending EXCEPT ![p] = abandon(p, q), ![q] = abandon(q, p)]
      /\ UNCHANGED <<scene, shown, stored, session, retries, tasks, author, sent>>
  BY DEF loseLink, Apart
<1>2. Recorded
  BY <1>1 DEF Recorded
<1>3. /\ key' \in [Pages -> [Pages -> Keys]]
      /\ \A a, b \in Pages : key'[a][b] =
            IF (a = p /\ b = q) \/ (a = q /\ b = p) THEN NoKey ELSE key[a][b]
  <2>1. key \in [Pages -> [Pages -> Keys]] /\ NoKey \in Keys
    BY ItemFacts DEF ChatInv, TypeOK
  <2> QED  BY <1>1, <2>1
<1>4. finals' \in [Pages -> [Pages -> Nat]]
  <2>1. finals \in [Pages -> [Pages -> Nat]]
    BY DEF ChatInv, TypeOK
  <2> QED  BY <1>1, <2>1
<1>5. /\ chan' \in [Pages -> [Pages -> Seq(Packet)]]
      /\ \A a, b \in Pages : chan'[a][b] =
            IF (a = p /\ b = q) \/ (a = q /\ b = p) THEN <<>> ELSE chan[a][b]
  <2>1. chan \in [Pages -> [Pages -> Seq(Packet)]] /\ <<>> \in Seq(Packet)
    BY DEF ChatInv, TypeOK
  <2> QED  BY <1>1, <2>1
<1>6. /\ sending' \in [Pages -> Seq(Call)]
      /\ \A a \in Pages : a \notin {p, q} => sending'[a] = sending[a]
      /\ sending'[q] = abandon(q, p)
      /\ p # q => sending'[p] = abandon(p, q)
  <2>1. sending \in [Pages -> Seq(Call)]
    BY DEF ChatInv, TypeOK
  <2>2. abandon(p, q) \in Seq(Call) /\ abandon(q, p) \in Seq(Call)
    BY AbandonFacts DEF ChatInv
  <2> QED  BY <1>1, <2>1, <2>2
<1>7. \A a \in Pages : \A s \in Range(sending'[a]) : \E c \in Range(sending[a]) :
         /\ s.item = c.item /\ s.anySent = c.anySent
         /\ \/ s.peer = None
            \/ s.peer = c.peer /\ ~(a = p /\ s.peer = q) /\ ~(a = q /\ s.peer = p)
  <2> TAKE a \in Pages
  <2> TAKE s \in Range(sending'[a])
  <2>1. CASE a \notin {p, q}
    BY <1>6, <2>1
  <2>2. CASE a = q
    BY <1>6, <2>2, AbandonFacts DEF ChatInv
  <2>3. CASE a = p /\ p # q
    <3>1. s \in Range(abandon(p, q))
      BY <1>6, <2>3
    <3>2. \E c \in Range(sending[p]) :
             /\ s.item = c.item /\ s.anySent = c.anySent
             /\ s.peer = None \/ (s.peer = c.peer /\ s.peer # q)
      BY <3>1, AbandonFacts DEF ChatInv
    <3> QED  BY <2>3, <3>2
  <2> QED  BY <2>1, <2>2, <2>3
<1>8. TypeOK'
  <2>1. open' \subseteq SUBSET Pages /\ handed' \subseteq Pages \X Items /\ faults' \in Nat
    BY <1>1 DEF ChatInv, TypeOK
  <2> QED  BY <1>1, <1>3, <1>4, <1>5, <1>6, <2>1 DEF ChatInv, TypeOK
<1>9. Unforged
  <2>1. \A a \in Pages : \A s \in Range(sending'[a]) : GenuineCall(a, s)'
    <3> TAKE a \in Pages
    <3> TAKE s \in Range(sending'[a])
    <3>1. PICK c \in Range(sending[a]) : s.item = c.item /\ s.anySent = c.anySent
      BY <1>7
    <3>2. GenuineCall(a, c)
      BY DEF ChatInv, MessageInv
    <3> QED  BY <1>1, <3>1, <3>2 DEF GenuineCall
  <2>2. \A a, b \in Pages : \A m \in Range(chan'[b][a]) : m \in Range(chan[b][a])
    <3>1. Range(<<>>) = {}
      BY DEF Range
    <3> QED  BY <1>5, <3>1
  <2> QED  BY <1>1, <2>1, <2>2, NothingAdded DEF Unforged
<1>10. KeyInv'
  BY <1>1, <1>3 DEF ChatInv, KeyInv, derived
<1>11. CallInv'
  <2> SUFFICES ASSUME NEW a \in Pages, NEW s \in Range(sending'[a]), s.peer # None
               PROVE  key'[a][s.peer] # NoKey
    BY DEF CallInv
  <2>1. PICK c \in Range(sending[a]) :
           s.peer = c.peer /\ ~(a = p /\ s.peer = q) /\ ~(a = q /\ s.peer = p)
    BY <1>7
  <2>2. c.peer \in Pages /\ key[a][c.peer] # NoKey
    <3>1. c \in Call
      BY StateTypes DEF ChatInv
    <3> QED  BY <2>1, <3>1 DEF ChatInv, CallInv, Call
  <2> QED  BY <1>3, <2>1, <2>2
<1>12. HandedIsUnderWay'
  <2> SUFFICES ASSUME NEW h \in handed, h[1] \notin {p, q} PROVE UnderWay(h[1], h[2])'
    BY <1>1 DEF HandedIsUnderWay, UnderWay
  <2>1. h[1] \in Pages /\ UnderWay(h[1], h[2])
    BY HandedUnderWay DEF ChatInv
  <2>2. \A a \in Pages : chan'[a][h[1]] = chan[a][h[1]] /\ key'[h[1]][a] = key[h[1]][a]
    BY <1>3, <1>5, <2>1
  <2> QED  BY <1>1, <2>1, <2>2, UnderWayStays
<1> QED  BY <1>2, <1>8, <1>9, <1>10, <1>11, <1>12, MessageStep DEF ChatInv

LEMMA reloadStep ==
    ASSUME ChatInv, NEW p \in Pages, reload(p)
    PROVE  ChatInv'
<1>1. /\ session' = [session EXCEPT ![p] = session[p] + 1]
      /\ shown' = [shown EXCEPT ![p] = <<>>]
      /\ retries' = [retries EXCEPT ![p] = <<>>]
      /\ sending' = [q \in Pages |-> IF q = p THEN <<>> ELSE abandon(q, p)]
      /\ tasks' = [tasks EXCEPT ![p] = <<>>]
      /\ handed' = {} /\ faults' = faults + 1 /\ open' = {l \in open : p \notin l}
      /\ UNCHANGED <<scene, stored, author, sent>>
  BY DEF reload
<1>2. key' = [q \in Pages |-> [r \in Pages |-> IF p \in {q, r} THEN NoKey ELSE key[q][r]]]
  BY DEF reload
<1>3. finals' = [q \in Pages |-> [r \in Pages |-> IF p \in {q, r} THEN 0 ELSE finals[q][r]]]
  BY DEF reload
<1>4. chan' = [q \in Pages |-> [r \in Pages |-> IF p \in {q, r} THEN <<>> ELSE chan[q][r]]]
  BY DEF reload
<1>5. Recorded
  BY <1>1 DEF Recorded
<1>6. \A A : <<>> \in Seq(A)
  OBVIOUS
<1>7. Range(<<>>) = {}
  BY DEF Range
<1>8. /\ session' \in [Pages -> Nat]
      /\ \A a \in Pages : a # p => session'[a] = session[a]
  <2>1. session \in [Pages -> Nat]
    BY DEF ChatInv, TypeOK
  <2> QED  BY <1>1, <2>1
<1>9. /\ shown' \in [Pages -> Seq(ChatMessage)]
      /\ \A a \in Pages : Range(shown'[a]) \subseteq Range(shown[a])
  <2>1. shown \in [Pages -> Seq(ChatMessage)]
    BY DEF ChatInv, TypeOK
  <2> QED  BY <1>1, <1>6, <1>7, <2>1
<1>10. /\ retries' \in [Pages -> Seq([to : Pages, msgs : Seq(ChatMessage)])]
       /\ \A a \in Pages : Range(retries'[a]) \subseteq Range(retries[a])
  <2>1. retries \in [Pages -> Seq([to : Pages, msgs : Seq(ChatMessage)])]
    BY DEF ChatInv, TypeOK
  <2> QED  BY <1>1, <1>6, <1>7, <2>1
<1>11. /\ tasks' \in [Pages -> Seq(PageTask)]
       /\ \A a \in Pages : Range(tasks'[a]) \subseteq Range(tasks[a])
  <2>1. tasks \in [Pages -> Seq(PageTask)]
    BY DEF ChatInv, TypeOK
  <2> QED  BY <1>1, <1>6, <1>7, <2>1
<1>12. /\ key' \in [Pages -> [Pages -> Keys]]
       /\ \A a, b \in Pages : key'[a][b] = IF p \in {a, b} THEN NoKey ELSE key[a][b]
  <2>1. key \in [Pages -> [Pages -> Keys]] /\ NoKey \in Keys
    BY ItemFacts DEF ChatInv, TypeOK
  <2> QED  BY <1>2, <2>1
<1>13. finals' \in [Pages -> [Pages -> Nat]]
  <2>1. finals \in [Pages -> [Pages -> Nat]]
    BY DEF ChatInv, TypeOK
  <2> QED  BY <1>3, <2>1
<1>14. /\ chan' \in [Pages -> [Pages -> Seq(Packet)]]
       /\ \A a, b \in Pages : Range(chan'[a][b]) \subseteq Range(chan[a][b])
  <2>1. chan \in [Pages -> [Pages -> Seq(Packet)]]
    BY DEF ChatInv, TypeOK
  <2>2. \A a, b \in Pages : chan'[a][b] = IF p \in {a, b} THEN <<>> ELSE chan[a][b]
    BY <1>4
  <2>3. chan' \in [Pages -> [Pages -> Seq(Packet)]]
    BY <1>4, <1>6, <2>1
  <2> QED  BY <1>7, <2>2, <2>3
<1>15. /\ sending' \in [Pages -> Seq(Call)]
       /\ \A a \in Pages : \A s \in Range(sending'[a]) : a # p /\ \E c \in Range(sending[a]) :
             /\ s.item = c.item /\ s.anySent = c.anySent
             /\ s.peer = None \/ (s.peer = c.peer /\ s.peer # p)
  <2>1. \A a \in Pages : abandon(a, p) \in Seq(Call)
    BY AbandonFacts DEF ChatInv
  <2>2. \A a \in Pages : sending'[a] = IF a = p THEN <<>> ELSE abandon(a, p)
    BY <1>1
  <2>3. sending' \in [Pages -> Seq(Call)]
    BY <1>1, <1>6, <2>1
  <2>4. ASSUME NEW a \in Pages, NEW s \in Range(sending'[a])
        PROVE  a # p /\ \E c \in Range(sending[a]) :
                  /\ s.item = c.item /\ s.anySent = c.anySent
                  /\ s.peer = None \/ (s.peer = c.peer /\ s.peer # p)
    <3>1. a # p /\ s \in Range(abandon(a, p))
      BY <1>7, <2>2
    <3> QED  BY <3>1, AbandonFacts DEF ChatInv
  <2> QED  BY <2>3, <2>4
<1>16. TypeOK'
  <2>1. open' \subseteq SUBSET Pages /\ handed' \subseteq Pages \X Items /\ faults' \in Nat
    BY <1>1 DEF ChatInv, TypeOK
  <2> QED  BY <1>1, <1>8, <1>9, <1>10, <1>11, <1>12, <1>13, <1>14, <1>15, <2>1
           DEF ChatInv, TypeOK
<1>17. Unforged
  <2>1. \A a \in Pages : \A s \in Range(sending'[a]) : GenuineCall(a, s)'
    <3> TAKE a \in Pages
    <3> TAKE s \in Range(sending'[a])
    <3>1. PICK c \in Range(sending[a]) : s.item = c.item /\ s.anySent = c.anySent
      BY <1>15
    <3>2. GenuineCall(a, c)
      BY DEF ChatInv, MessageInv
    <3> QED  BY <1>1, <3>1, <3>2 DEF GenuineCall
  <2> QED  BY <1>1, <1>9, <1>10, <1>11, <1>14, <2>1, NothingAdded DEF Unforged
<1>18. KeyInv'
  BY <1>8, <1>12 DEF ChatInv, KeyInv, derived
<1>19. CallInv'
  <2> SUFFICES ASSUME NEW a \in Pages, NEW s \in Range(sending'[a]), s.peer # None
               PROVE  key'[a][s.peer] # NoKey
    BY DEF CallInv
  <2>1. a # p
    BY <1>15
  <2>2. PICK c \in Range(sending[a]) : s.peer = c.peer /\ s.peer # p
    BY <1>15
  <2>3. c.peer \in Pages /\ key[a][c.peer] # NoKey
    <3>1. c \in Call
      BY StateTypes DEF ChatInv
    <3> QED  BY <2>2, <3>1 DEF ChatInv, CallInv, Call
  <2> QED  BY <1>12, <2>1, <2>2, <2>3
<1>20. HandedIsUnderWay'
  BY <1>1 DEF HandedIsUnderWay
<1> QED  BY <1>5, <1>16, <1>17, <1>18, <1>19, <1>20, MessageStep DEF ChatInv

LEMMA InitChat == Init => ChatInv
<1> SUFFICES ASSUME Init PROVE ChatInv
  OBVIOUS
<1>1. \A A : <<>> \in Seq(A) /\ Range(<<>>) = {}
  BY DEF Range
<1>2. TypeOK
  BY <1>1, ItemFacts DEF Init, TypeOK
<1>3. MessageInv
  BY <1>1 DEF Init, MessageInv, AllGenuine
<1>4. KeyInv /\ CallInv /\ HandedIsUnderWay
  BY <1>1 DEF Init, KeyInv, CallInv, HandedIsUnderWay
<1> QED  BY <1>2, <1>3, <1>4 DEF ChatInv

LEMMA NextChat == ChatInv /\ [Next]_vars => ChatInv'
<1> SUFFICES ASSUME ChatInv, [Next]_vars PROVE ChatInv'
  OBVIOUS
<1>1. CASE UNCHANGED vars
  <2>1. TypeOK'
    BY <1>1 DEF ChatInv, TypeOK, vars
  <2> QED  BY <1>1, <2>1, QuietStep DEF vars
<1>2. ASSUME NEW p \in scene.pages, NEW i \in DOMAIN tasks[p], step(p, i) PROVE ChatInv'
  BY <1>2, SceneFacts, stepStep DEF ChatInv
<1>3. ASSUME NEW p \in scene.pages, NEW i \in DOMAIN sending[p], putChat(p, i) PROVE ChatInv'
  BY <1>3, SceneFacts, putChatStep DEF ChatInv
<1>4. ASSUME NEW p \in scene.pages, NEW i \in DOMAIN sending[p], finishSend(p, i)
      PROVE  ChatInv'
  BY <1>4, SceneFacts, finishSendStep DEF ChatInv
<1>5. ASSUME NEW p \in scene.pages, NEW i \in DOMAIN sending[p], NEW q \in Pages,
             encryptFor(p, i, q)
      PROVE  ChatInv'
  BY <1>5, SceneFacts, encryptForStep DEF ChatInv
<1>6. ASSUME NEW p \in scene.pages, NEW q \in Pages, onMessage(q, p) PROVE ChatInv'
  BY <1>6, SceneFacts, onMessageStep DEF ChatInv
<1>7. ASSUME NEW p \in scene.pages, reload(p) PROVE ChatInv'
  BY <1>7, SceneFacts, reloadStep DEF ChatInv
<1>8. ASSUME NEW p \in scene.pages, NEW i \in DOMAIN retries[p], trySend(p, i) PROVE ChatInv'
  BY <1>8, SceneFacts, trySendStep DEF ChatInv
<1>9. ASSUME NEW p \in scene.pages, NEW t \in Texts, sendChatMessage(p, t) PROVE ChatInv'
  BY <1>9, SceneFacts, sendChatMessageStep DEF ChatInv
<1>10. ASSUME NEW p \in scene.pages, NEW q \in Pages, finalizeKeyExchange(p, q) PROVE ChatInv'
  BY <1>10, SceneFacts, finalizeKeyExchangeStep DEF ChatInv
<1>11. ASSUME NEW p \in scene.pages, NEW q \in Pages, channelOpens(p, q) PROVE ChatInv'
  BY <1>11, SceneFacts, channelOpensStep DEF ChatInv
<1>12. ASSUME NEW p \in scene.pages, NEW q \in Pages, loseLink(p, q) PROVE ChatInv'
  BY <1>12, SceneFacts, loseLinkStep DEF ChatInv
<1>13. ASSUME NEW p \in scene.pages, NEW q \in Pages, NEW f \in Files,
              initiateFileTransfer(p, q, f)
       PROVE  ChatInv'
  BY <1>13, SceneFacts, initiateFileTransferStep DEF ChatInv
<1> QED
  BY <1>1, <1>2, <1>3, <1>4, <1>5, <1>6, <1>7, <1>8, <1>9, <1>10, <1>11, <1>12, <1>13
  DEF Next, pageStep

-----------------------------------------------------------------------------
(* Theorems *)

\* The invariant that the theorems below follow from.
THEOREM ChatInvariant == Spec => []ChatInv
  BY InitChat, NextChat, PTL DEF Spec

\* Messages, stored entries, packets and calls keep their types.
THEOREM ChatTypeCorrect == Spec => []TypeOK
<1>1. ChatInv => TypeOK
  BY DEF ChatInv
<1> QED  BY <1>1, ChatInvariant, PTL

\* Whatever way a message took, over a bundle of a page that had it from a
\* bundle, or over the cache, it is shown under its author's name.
THEOREM AuthorCorrect == Spec => []TrueAuthor
<1>1. ChatInv => TrueAuthor
  BY DEF ChatInv, MessageInv, AllGenuine, Genuine, TrueAuthor
<1> QED  BY <1>1, ChatInvariant, PTL

\* A text that is shown anywhere has been put on a channel.
THEOREM BubbleCorrect == Spec => []BubbleWasSent
<1>1. ChatInv => BubbleWasSent
  BY DEF ChatInv, MessageInv, AllGenuine, Genuine, BubbleWasSent, Seen
<1> QED  BY <1>1, ChatInvariant, PTL

\* A message handed over is shown, or on its way, as long as the connection and
\* the page last.
THEOREM HandedCorrect == Spec => []HandedIsUnderWay
<1>1. ChatInv => HandedIsUnderWay
  BY DEF ChatInv
<1> QED  BY <1>1, ChatInvariant, PTL

\* A step of a page wipes nothing it shows.
LEMMA ShownGrows ==
    ASSUME TypeOK, NEW p \in Pages, NEW i \in DOMAIN tasks[p], step(p, i), NEW a \in Pages
    PROVE  Range(shown[a]) \subseteq Range(shown'[a])
<1>1. shown \in [Pages -> Seq(ChatMessage)] /\ shown[p] \in Seq(ChatMessage)
  BY DEF TypeOK
<1>2. PICK t \in PageTask : t = tasks[p][i]
  BY DEF TypeOK
<1>3. t.msgs \in Seq(ChatMessage)
  BY DEF PageTask
<1>4. \/ UNCHANGED shown
      \/ shown' = [shown EXCEPT ![p] = shown[p] \o t.msgs]
      \/ shown' = [shown EXCEPT ![p] = readable(p, t.key) \o shown[p]]
  BY <1>2 DEF step, withCached
<1>5. CASE UNCHANGED shown
  BY <1>5
<1>6. CASE shown' = [shown EXCEPT ![p] = shown[p] \o t.msgs]
  <2>1. /\ shown[p] \o t.msgs \in Seq(ChatMessage)
        /\ Range(shown[p] \o t.msgs) = Range(shown[p]) \union Range(t.msgs)
    BY <1>1, <1>3, ConcatFacts
  <2>2. shown'[p] = shown[p] \o t.msgs /\ \A b \in Pages : b # p => shown'[b] = shown[b]
    BY <1>1, <1>6, <2>1, UpdateFacts
  <2> QED  BY <2>1, <2>2
<1>7. CASE shown' = [shown EXCEPT ![p] = readable(p, t.key) \o shown[p]]
  <2>1. readable(p, t.key) \in Seq(ChatMessage)
    BY ReadableFacts
  <2>2. /\ readable(p, t.key) \o shown[p] \in Seq(ChatMessage)
        /\ Range(readable(p, t.key) \o shown[p]) =
              Range(readable(p, t.key)) \union Range(shown[p])
    BY <1>1, <2>1, ConcatFacts
  <2>3. /\ shown'[p] = readable(p, t.key) \o shown[p]
        /\ \A b \in Pages : b # p => shown'[b] = shown[b]
    BY <1>1, <1>7, <2>2, UpdateFacts
  <2> QED  BY <2>2, <2>3
<1> QED  BY <1>4, <1>5, <1>6, <1>7

\* No handler that comes back from its awaits wipes a message another one has
\* shown meanwhile; only a reload of the page does.
THEOREM NothingVanishesHolds == Spec => NothingVanishes
<1> DEFINE Kept1(p) == session'[p] = session[p] => Seen(p) \subseteq Seen(p)'
<1>1. ASSUME TypeOK, [Next]_vars, NEW p \in Pages
      PROVE  Kept1(p)
  <2>1. CASE UNCHANGED shown
    BY <2>1 DEF Seen
  <2>2. ASSUME NEW q \in scene.pages, NEW i \in DOMAIN tasks[q], step(q, i) PROVE Kept1(p)
    <3>1. Range(shown[p]) \subseteq Range(shown'[p])
      BY <1>1, <2>2, SceneFacts, ShownGrows
    <3> QED  BY <3>1 DEF Seen
  <2>3. ASSUME NEW q \in scene.pages, reload(q) PROVE Kept1(p)
    <3>1. /\ shown \in [Pages -> Seq(ChatMessage)] /\ session \in [Pages -> Nat] /\ q \in Pages
      BY <1>1, SceneFacts DEF TypeOK
    <3>2. shown' = [shown EXCEPT ![q] = <<>>] /\ session' = [session EXCEPT ![q] = @ + 1]
      BY <2>3 DEF reload
    <3>3. CASE p = q
      <4>1. session'[p] # session[p]
        BY <3>1, <3>2, <3>3
      <4> QED  BY <4>1
    <3>4. CASE p # q
      BY <3>1, <3>2, <3>4 DEF Seen
    <3> QED  BY <3>3, <3>4
  <2>4. UNCHANGED shown \/ (\E q \in scene.pages : reload(q) \/ \E i \in DOMAIN tasks[q] : step(q, i))
    <3>1. \A q, i : putChat(q, i) => UNCHANGED shown
      BY DEF putChat
    <3>2. \A q, i : finishSend(q, i) => UNCHANGED shown
      BY DEF finishSend
    <3>3. \A q, i, r : encryptFor(q, i, r) => UNCHANGED shown
      BY DEF encryptFor
    <3>4. \A q, r : onMessage(q, r) => UNCHANGED shown
      BY DEF onMessage
    <3>5. \A q, i : trySend(q, i) => UNCHANGED shown
      BY DEF trySend
    <3>6. \A q, t : sendChatMessage(q, t) => UNCHANGED shown
      BY DEF sendChatMessage
    <3>7. \A q, r : finalizeKeyExchange(q, r) => UNCHANGED shown
      BY DEF finalizeKeyExchange
    <3>8. \A q, r : channelOpens(q, r) => UNCHANGED shown
      BY DEF channelOpens
    <3>9. \A q, r : loseLink(q, r) => UNCHANGED shown
      BY DEF loseLink
    <3>10. \A q, r, f : initiateFileTransfer(q, r, f) => UNCHANGED shown
      BY DEF initiateFileTransfer
    <3>11. CASE UNCHANGED vars
      BY <3>11 DEF vars
    <3>12. CASE Next
      BY <3>1, <3>2, <3>3, <3>4, <3>5, <3>6, <3>7, <3>8, <3>9, <3>10, <3>12
      DEF Next, pageStep
    <3> QED  BY <1>1, <3>11, <3>12
  <2> QED  BY <2>1, <2>2, <2>3, <2>4
<1>2. TypeOK /\ [Next]_vars =>
         [\A p \in Pages : session'[p] = session[p] => Seen(p) \subseteq Seen(p)']_vars
  BY <1>1
<1> QED  BY <1>2, ChatTypeCorrect, PTL DEF Spec, NothingVanishes

=============================================================================

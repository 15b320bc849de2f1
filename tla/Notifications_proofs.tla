------------------------ MODULE Notifications_proofs ------------------------
(***************************************************************************)
(* Proofs about Notifications, for any number of clients, objects and      *)
(* subscriptions, sockets of any size and any number of changes.           *)
(***************************************************************************)
EXTENDS Notifications, SequenceTheorems, FiniteSetTheorems, TLAPS

------------------------------------------------------------------------------
(* What a reader makes of a sequence of messages.                          *)

(* Before any message, it believes what it was told.                       *)
LEMMA AfterNone ==
  ASSUME NEW ids \in SUBSET ObjectIDs, NEW infos
  PROVE  After(ids, infos, 0) = ids
  BY DEF After

(* Only the messages read so far matter.                                   *)
LEMMA AfterPrefix ==
  ASSUME NEW ids, NEW s, NEW t, NEW n \in Nat, \A i \in 1 .. n : s[i] = t[i]
  PROVE  After(ids, s, n) = After(ids, t, n)
<1> SUFFICES ASSUME NEW id \in ObjectIDs
             PROVE  id \in After(ids, s, n) <=> id \in After(ids, t, n)
  BY DEF After
<1>1. \A i \in 0 .. n : \A j \in (i + 1) .. n : s[j] = t[j]
  OBVIOUS
<1> QED
  BY <1>1 DEF After

(* Reading the last of the messages changes the belief by it.              *)
LEMMA AfterNext ==
  ASSUME NEW ids, NEW s, NEW n \in Nat, s[n + 1] \in InfoType
  PROVE  After(ids, s, n + 1) = Told(After(ids, s, n), s[n + 1])
<1> DEFINE x == s[n + 1]
<1>1. x.ids \subseteq ObjectIDs /\ x.deletion \in BOOLEAN
  BY DEF InfoType
<1>2. Told(After(ids, s, n), x) \subseteq ObjectIDs
  BY <1>1 DEF Told, After
<1> SUFFICES ASSUME NEW id \in ObjectIDs
             PROVE  id \in After(ids, s, n + 1) <=> id \in Told(After(ids, s, n), x)
  BY <1>2 DEF After
<1> DEFINE Says(i) == IF i = 0 THEN id \in ids ELSE id \in s[i].ids /\ ~s[i].deletion
<1>3. \A m \in Nat : id \in After(ids, s, m) <=>
        \E i \in 0 .. m : Says(i) /\ \A j \in (i + 1) .. m : id \notin s[j].ids
  BY DEF After
<1> HIDE DEF Says
<1>4. CASE id \in x.ids
  <2>1. id \in Told(After(ids, s, n), x) <=> ~x.deletion
    BY <1>4 DEF Told
  <2>2. id \in After(ids, s, n + 1) <=> Says(n + 1)
    BY <1>3, <1>4
  <2>3. Says(n + 1) <=> ~x.deletion
    BY <1>4 DEF Says
  <2> QED
    BY <2>1, <2>2, <2>3
<1>5. CASE id \notin x.ids
  <2>1. id \in Told(After(ids, s, n), x) <=> id \in After(ids, s, n)
    BY <1>5 DEF Told
  <2>2. ~Says(n + 1)
    BY <1>5 DEF Says
  <2>3. ASSUME id \in After(ids, s, n)
        PROVE  id \in After(ids, s, n + 1)
    <3>1. PICK i \in 0 .. n : Says(i) /\ \A j \in (i + 1) .. n : id \notin s[j].ids
      BY <1>3, <2>3
    <3>2. \A j \in (i + 1) .. (n + 1) : id \notin s[j].ids
      BY <1>5, <3>1
    <3> QED
      BY <1>3, <3>1, <3>2
  <2>4. ASSUME id \in After(ids, s, n + 1)
        PROVE  id \in After(ids, s, n)
    <3>1. PICK i \in 0 .. (n + 1) :
            Says(i) /\ \A j \in (i + 1) .. (n + 1) : id \notin s[j].ids
      BY <1>3, <2>4
    <3>2. i \in 0 .. n
      BY <2>2, <3>1
    <3> QED
      BY <1>3, <3>1, <3>2
  <2> QED
    BY <2>1, <2>3, <2>4
<1> QED
  BY <1>4, <1>5

(* Reading the first message is being told what it says.                   *)
LEMMA AfterFirst ==
  ASSUME NEW ids \in SUBSET ObjectIDs, NEW s, NEW t, NEW n \in Nat,
         s[1] \in InfoType, \A i \in 1 .. n : t[i] = s[i + 1]
  PROVE  After(Told(ids, s[1]), t, n) = After(ids, s, n + 1)
<1> DEFINE x == s[1]
<1>1. x.ids \subseteq ObjectIDs /\ x.deletion \in BOOLEAN
  BY DEF InfoType
<1> SUFFICES ASSUME NEW id \in ObjectIDs
             PROVE  id \in After(Told(ids, x), t, n) <=> id \in After(ids, s, n + 1)
  BY DEF After
<1> DEFINE Told1(i) == IF i = 0 THEN id \in Told(ids, x)
                                ELSE id \in t[i].ids /\ ~t[i].deletion
           Says(i) == IF i = 0 THEN id \in ids ELSE id \in s[i].ids /\ ~s[i].deletion
<1>2. id \in After(Told(ids, x), t, n) <=>
        \E i \in 0 .. n : Told1(i) /\ \A j \in (i + 1) .. n : id \notin t[j].ids
  BY DEF After
<1>3. id \in After(ids, s, n + 1) <=>
        \E i \in 0 .. (n + 1) : Says(i) /\ \A j \in (i + 1) .. (n + 1) : id \notin s[j].ids
  BY DEF After
<1>4. \A i \in 1 .. n : Told1(i) <=> Says(i + 1)
  OBVIOUS
<1>5. Told1(0) <=> Says(1) \/ (Says(0) /\ id \notin x.ids)
  BY <1>1 DEF Told
<1>6. Says(0) <=> id \in ids
  OBVIOUS
<1> HIDE DEF Told1, Says
<1>7. ASSUME NEW i \in 0 .. n
      PROVE  (\A j \in (i + 1) .. n : id \notin t[j].ids) <=>
             (\A j \in (i + 2) .. (n + 1) : id \notin s[j].ids)
  <2>1. ASSUME \A j \in (i + 1) .. n : id \notin t[j].ids, NEW j \in (i + 2) .. (n + 1)
        PROVE  id \notin s[j].ids
    <3>1. (j - 1) \in (i + 1) .. n /\ t[j - 1] = s[(j - 1) + 1] /\ (j - 1) + 1 = j
      OBVIOUS
    <3> QED
      BY <2>1, <3>1
  <2>2. ASSUME \A j \in (i + 2) .. (n + 1) : id \notin s[j].ids, NEW j \in (i + 1) .. n
        PROVE  id \notin t[j].ids
    <3>1. (j + 1) \in (i + 2) .. (n + 1) /\ t[j] = s[j + 1]
      OBVIOUS
    <3> QED
      BY <2>2, <3>1
  <2> QED
    BY <2>1, <2>2
<1>8. ASSUME id \in After(Told(ids, x), t, n)
      PROVE  id \in After(ids, s, n + 1)
  <2>1. PICK i \in 0 .. n : Told1(i) /\ \A j \in (i + 1) .. n : id \notin t[j].ids
    BY <1>2, <1>8
  <2>2. \A j \in (i + 2) .. (n + 1) : id \notin s[j].ids
    BY <1>7, <2>1
  <2>3. CASE Says(i + 1)
    <3>1. \A j \in ((i + 1) + 1) .. (n + 1) : id \notin s[j].ids
      BY <2>2
    <3> QED
      BY <1>3, <2>3, <3>1
  <2>4. CASE ~Says(i + 1)
    <3>1. i = 0 /\ Says(0) /\ id \notin x.ids
      BY <1>4, <1>5, <2>1, <2>4
    <3>2. \A j \in (0 + 1) .. (n + 1) : id \notin s[j].ids
      BY <2>2, <3>1
    <3> QED
      BY <1>3, <3>1, <3>2
  <2> QED
    BY <2>3, <2>4
<1>9. ASSUME id \in After(ids, s, n + 1)
      PROVE  id \in After(Told(ids, x), t, n)
  <2>1. PICK i \in 0 .. (n + 1) :
          Says(i) /\ \A j \in (i + 1) .. (n + 1) : id \notin s[j].ids
    BY <1>3, <1>9
  <2>2. CASE i = 0
    <3>1. id \notin x.ids /\ Told1(0)
      BY <1>5, <2>1, <2>2
    <3>2. \A j \in (0 + 2) .. (n + 1) : id \notin s[j].ids
      BY <2>1, <2>2
    <3>3. \A j \in (0 + 1) .. n : id \notin t[j].ids
      BY <1>7, <3>2
    <3> QED
      BY <1>2, <3>1, <3>3
  <2>3. CASE i # 0
    <3> DEFINE k == i - 1
    <3>1. k \in 0 .. n /\ k + 1 = i
      BY <2>3
    <3> HIDE DEF k
    <3>2. Told1(k)
      BY <1>4, <1>5, <2>1, <3>1
    <3>3. \A j \in (k + 2) .. (n + 1) : id \notin s[j].ids
      BY <2>1, <3>1
    <3>4. \A j \in (k + 1) .. n : id \notin t[j].ids
      BY <1>7, <3>1, <3>3
    <3> QED
      BY <1>2, <3>1, <3>2, <3>4
  <2> QED
    BY <2>2, <2>3
<1> QED
  BY <1>8, <1>9

(* A message that is not about an object might as well not be there.       *)
LEMMA AfterDrop ==
  ASSUME NEW ids, NEW u, NEW v, NEW k \in Nat, NEW m \in Nat, k <= m,
         \A i \in 1 .. k : u[i] = v[i],
         \A i \in (k + 1) .. m : u[i + 1] = v[i],
         NEW id \in ObjectIDs, id \notin u[k + 1].ids
  PROVE  id \in After(ids, u, m + 1) <=> id \in After(ids, v, m)
<1> DEFINE SaysU(i) == IF i = 0 THEN id \in ids ELSE id \in u[i].ids /\ ~u[i].deletion
           SaysV(i) == IF i = 0 THEN id \in ids ELSE id \in v[i].ids /\ ~v[i].deletion
<1>1. id \in After(ids, u, m + 1) <=>
        \E i \in 0 .. (m + 1) : SaysU(i) /\ \A j \in (i + 1) .. (m + 1) : id \notin u[j].ids
  BY DEF After
<1>2. id \in After(ids, v, m) <=>
        \E i \in 0 .. m : SaysV(i) /\ \A j \in (i + 1) .. m : id \notin v[j].ids
  BY DEF After
<1>3. \A i \in 0 .. k : SaysU(i) <=> SaysV(i)
  OBVIOUS
<1>4. \A i \in (k + 1) .. m : SaysU(i + 1) <=> SaysV(i)
  OBVIOUS
<1>5. ~SaysU(k + 1)
  OBVIOUS
<1> HIDE DEF SaysU, SaysV
<1>6. ASSUME id \in After(ids, v, m)
      PROVE  id \in After(ids, u, m + 1)
  <2>1. PICK i \in 0 .. m : SaysV(i) /\ \A j \in (i + 1) .. m : id \notin v[j].ids
    BY <1>2, <1>6
  <2>2. ASSUME NEW j \in (i + 1) .. (m + 1), i > k => j # i + 1
        PROVE  id \notin u[j].ids
    <3>1. CASE j <= k
      BY <2>1, <3>1
    <3>2. CASE j = k + 1
      BY <3>2
    <3>3. CASE j > k + 1
      <4>1. (j - 1) \in (k + 1) .. m /\ (j - 1) \in (i + 1) .. m /\ (j - 1) + 1 = j
        BY <2>2, <3>3
      <4> QED
        BY <2>1, <4>1
    <3> QED
      BY <3>1, <3>2, <3>3
  <2>3. CASE i <= k
    <3>1. i \in 0 .. k /\ i \in 0 .. (m + 1)
      BY <2>3
    <3> QED
      BY <1>1, <1>3, <2>1, <2>2, <2>3, <3>1
  <2>4. CASE i > k
    <3>1. i \in (k + 1) .. m /\ i + 1 \in 0 .. (m + 1)
      BY <2>4
    <3>2. SaysU(i + 1)
      BY <1>4, <2>1, <3>1
    <3>3. \A j \in ((i + 1) + 1) .. (m + 1) : id \notin u[j].ids
      BY <2>2, <2>4
    <3> QED
      BY <1>1, <3>1, <3>2, <3>3
  <2> QED
    BY <2>3, <2>4
<1>7. ASSUME id \in After(ids, u, m + 1)
      PROVE  id \in After(ids, v, m)
  <2>1. PICK i \in 0 .. (m + 1) :
          SaysU(i) /\ \A j \in (i + 1) .. (m + 1) : id \notin u[j].ids
    BY <1>1, <1>7
  <2>2. i # k + 1
    BY <1>5, <2>1
  <2>3. CASE i <= k
    <3>1. i \in 0 .. k /\ i \in 0 .. m /\ SaysV(i)
      BY <1>3, <2>1, <2>3
    <3>2. ASSUME NEW j \in (i + 1) .. m PROVE id \notin v[j].ids
      <4>1. CASE j <= k
        BY <2>1, <4>1
      <4>2. CASE j > k
        <5>1. j \in (k + 1) .. m /\ j + 1 \in (i + 1) .. (m + 1)
          BY <2>3, <4>2
        <5> QED
          BY <2>1, <5>1
      <4> QED
        BY <4>1, <4>2
    <3> QED
      BY <1>2, <3>1, <3>2
  <2>4. CASE i > k
    <3> DEFINE h == i - 1
    <3>1. h \in (k + 1) .. m /\ h \in 0 .. m /\ h + 1 = i
      BY <2>2, <2>4
    <3> HIDE DEF h
    <3>2. SaysV(h)
      BY <1>4, <2>1, <3>1
    <3>3. ASSUME NEW j \in (h + 1) .. m PROVE id \notin v[j].ids
      <4>1. j \in (k + 1) .. m /\ j + 1 \in (i + 1) .. (m + 1)
        BY <2>4, <3>1
      <4> QED
        BY <2>1, <4>1
    <3> QED
      BY <1>2, <3>1, <3>2, <3>3
  <2> QED
    BY <2>3, <2>4
<1> QED
  BY <1>6, <1>7

(* One more message, of what has just changed.                             *)
LEMMA LeadExtend ==
  ASSUME NEW ids \in SUBSET ObjectIDs, NEW s \in Seq(InfoType), NEW objects, NEW about,
         LeadTo(ids, s, objects, about), NEW x \in InfoType,
         IF x.deletion THEN x.ids \subseteq objects ELSE x.ids \cap objects = {}
  PROVE  LeadTo(ids, s \o <<x>>, Told(objects, x), about)
<1> DEFINE t == s \o <<x>>
           n == Len(s)
<1>1. /\ n \in Nat /\ Len(t) = n + 1 /\ t[n + 1] = x
      /\ \A i \in 1 .. n : t[i] = s[i]
  OBVIOUS
<1> HIDE DEF t
<1>2. \A m \in 0 .. n : After(ids, t, m) = After(ids, s, m)
  <2> TAKE m \in 0 .. n
  <2>1. m \in Nat /\ \A i \in 1 .. m : t[i] = s[i]
    BY <1>1
  <2> QED
    BY <2>1, AfterPrefix
<1>3. After(ids, s, n) \cap about = objects \cap about
  BY DEF LeadTo
<1>4. After(ids, t, n) \cap about = objects \cap about
  BY <1>1, <1>2, <1>3
<1>5. After(ids, t, n + 1) \cap about = Told(objects, x) \cap about
  <2>1. After(ids, t, n + 1) = Told(After(ids, t, n), x)
    BY <1>1, AfterNext
  <2> QED
    BY <1>4, <2>1 DEF Told
<1>6. ASSUME NEW i \in 1 .. (n + 1)
      PROVE  IF t[i].deletion THEN t[i].ids \cap about \subseteq After(ids, t, i - 1)
                              ELSE t[i].ids \cap about \cap After(ids, t, i - 1) = {}
  <2>1. CASE i = n + 1
    <3>1. t[i] = x /\ i - 1 = n
      BY <1>1, <2>1
    <3> QED
      BY <1>4, <3>1
  <2>2. CASE i # n + 1
    <3>1. i \in 1 .. n /\ (i - 1) \in 0 .. n
      BY <1>1, <2>2
    <3>2. t[i] = s[i] /\ After(ids, t, i - 1) = After(ids, s, i - 1)
      BY <1>1, <1>2, <3>1
    <3> QED
      BY <3>1, <3>2 DEF LeadTo
  <2> QED
    BY <2>1, <2>2
<1>7. LeadTo(ids, t, Told(objects, x), about)
  BY <1>1, <1>5, <1>6 DEF LeadTo
<1> QED
  BY <1>7 DEF t

(* One message less: the reader has read it.                               *)
LEMMA LeadRead ==
  ASSUME NEW ids \in SUBSET ObjectIDs, NEW s \in Seq(InfoType), s # <<>>, NEW objects,
         NEW about, LeadTo(ids, s, objects, about)
  PROVE  LeadTo(Told(ids, Head(s)), Tail(s), objects, about)
<1> DEFINE t == Tail(s)
           n == Len(t)
<1>1. /\ n \in Nat /\ Len(s) = n + 1 /\ Head(s) = s[1] /\ s[1] \in InfoType
      /\ \A i \in 1 .. n : t[i] = s[i + 1]
  OBVIOUS
<1> HIDE DEF t
<1>2. \A m \in 0 .. n : After(Told(ids, s[1]), t, m) = After(ids, s, m + 1)
  <2> TAKE m \in 0 .. n
  <2>1. m \in Nat /\ \A i \in 1 .. m : t[i] = s[i + 1]
    BY <1>1
  <2> QED
    BY <1>1, <2>1, AfterFirst
<1>3. After(Told(ids, s[1]), t, n) \cap about = objects \cap about
  BY <1>1, <1>2 DEF LeadTo
<1>4. ASSUME NEW i \in 1 .. n
      PROVE  IF t[i].deletion
               THEN t[i].ids \cap about \subseteq After(Told(ids, s[1]), t, i - 1)
               ELSE t[i].ids \cap about \cap After(Told(ids, s[1]), t, i - 1) = {}
  <2>1. (i - 1) \in 0 .. n /\ (i - 1) + 1 = i /\ (i + 1) - 1 = i /\ (i + 1) \in 1 .. Len(s)
    BY <1>1
  <2>2. t[i] = s[i + 1] /\ After(Told(ids, s[1]), t, i - 1) = After(ids, s, i)
    BY <1>1, <1>2, <2>1
  <2>3. LET before == After(ids, s, (i + 1) - 1)
        IN  IF s[i + 1].deletion THEN s[i + 1].ids \cap about \subseteq before
                                 ELSE s[i + 1].ids \cap about \cap before = {}
    BY <2>1 DEF LeadTo
  <2> QED
    BY <2>1, <2>2, <2>3
<1>5. LeadTo(Told(ids, s[1]), t, objects, about)
  BY <1>3, <1>4 DEF LeadTo
<1> QED
  BY <1>1, <1>5 DEF t

(* One message less: it was lost.  As for the objects it was not about,    *)
(* the others still lead to the same.                                      *)
LEMMA LeadDrop ==
  ASSUME NEW ids \in SUBSET ObjectIDs, NEW objects, NEW about \in SUBSET ObjectIDs,
         NEW s \in Seq(InfoType), NEW t \in Seq(InfoType), t # <<>>,
         LeadTo(ids, s \o t, objects, about)
  PROVE  LeadTo(ids, s \o Tail(t), objects, about \ Head(t).ids)
<1> DEFINE u == s \o t
           v == s \o Tail(t)
           k == Len(s)
           n == Len(s) + Len(Tail(t))
           rest == about \ Head(t).ids
<1>1. /\ k \in Nat /\ n \in Nat /\ k <= n
      /\ Len(u) = n + 1 /\ Len(v) = n /\ u[k + 1] = Head(t)
      /\ \A i \in 1 .. k : u[i] = v[i]
      /\ \A i \in (k + 1) .. n : u[i + 1] = v[i]
  <2>1. /\ Len(s) \in Nat /\ Len(t) \in Nat \ {0} /\ Tail(t) \in Seq(InfoType)
        /\ Len(Tail(t)) = Len(t) - 1 /\ Head(t) = t[1]
        /\ \A i \in 1 .. Len(Tail(t)) : Tail(t)[i] = t[i + 1]
    BY EmptySeq, HeadTailProperties, LenProperties
  <2>2. /\ Len(u) = Len(s) + Len(t)
        /\ \A i \in 1 .. Len(s) + Len(t) :
             u[i] = IF i <= Len(s) THEN s[i] ELSE t[i - Len(s)]
    BY ConcatProperties
  <2>3. /\ Len(v) = Len(s) + Len(Tail(t))
        /\ \A i \in 1 .. Len(s) + Len(Tail(t)) :
             v[i] = IF i <= Len(s) THEN s[i] ELSE Tail(t)[i - Len(s)]
    BY <2>1, ConcatProperties
  <2> HIDE DEF u, v
  <2>4. k \in Nat /\ n \in Nat /\ k <= n /\ Len(u) = n + 1 /\ Len(v) = n
    BY <2>1, <2>2, <2>3
  <2>5. u[k + 1] = Head(t) /\ \A i \in 1 .. k : u[i] = v[i]
    <3>1. /\ k + 1 \in 1 .. Len(s) + Len(t) /\ ~(k + 1 <= Len(s))
          /\ (k + 1) - Len(s) = 1
      BY <2>1
    <3>2. u[k + 1] = t[1]
      BY <2>2, <3>1
    <3>3. ASSUME NEW i \in 1 .. k PROVE u[i] = v[i]
      <4>1. /\ i \in 1 .. Len(s) + Len(t) /\ i \in 1 .. Len(s) + Len(Tail(t))
            /\ i <= Len(s)
        BY <2>1
      <4> QED
        BY <2>2, <2>3, <4>1
    <3> QED
      BY <2>1, <3>2, <3>3
  <2>6. ASSUME NEW i \in (k + 1) .. n PROVE u[i + 1] = v[i]
    <3>1. /\ i \in 1 .. Len(s) + Len(Tail(t)) /\ ~(i <= Len(s))
          /\ i + 1 \in 1 .. Len(s) + Len(t) /\ ~(i + 1 <= Len(s))
          /\ i - Len(s) \in 1 .. Len(Tail(t)) /\ (i + 1) - Len(s) = (i - Len(s)) + 1
      BY <2>1
    <3>2. u[i + 1] = t[(i - Len(s)) + 1] /\ v[i] = Tail(t)[i - Len(s)]
      BY <2>2, <2>3, <3>1
    <3> QED
      BY <2>1, <3>1, <3>2
  <2> QED
    BY <2>4, <2>5, <2>6
<1> HIDE DEF u, v, k, n
<1>2. ASSUME NEW m \in 0 .. k, m <= n
      PROVE  After(ids, v, m) = After(ids, u, m)
  <2>1. m \in Nat /\ \A i \in 1 .. m : v[i] = u[i]
    BY <1>1
  <2> QED
    BY <2>1, AfterPrefix
<1>3. ASSUME NEW m \in k .. n
      PROVE  After(ids, v, m) \cap rest = After(ids, u, m + 1) \cap rest
  <2>1. m \in Nat /\ k <= m /\ \A i \in (k + 1) .. m : u[i + 1] = v[i]
    BY <1>1
  <2>2. \A id \in rest : id \in ObjectIDs /\ id \notin u[k + 1].ids
    BY <1>1
  <2>3. \A id \in rest : id \in After(ids, u, m + 1) <=> id \in After(ids, v, m)
    BY <1>1, <2>1, <2>2, AfterDrop
  <2> QED
    BY <2>3
<1>4. LeadTo(ids, u, objects, about)
  BY DEF u
<1>5. After(ids, v, n) \cap rest = objects \cap rest
  <2>1. After(ids, u, n + 1) \cap about = objects \cap about
    BY <1>1, <1>4 DEF LeadTo
  <2>2. n \in k .. n
    BY <1>1
  <2> QED
    BY <1>3, <2>1, <2>2
<1>6. ASSUME NEW i \in 1 .. n
      PROVE  IF v[i].deletion THEN v[i].ids \cap rest \subseteq After(ids, v, i - 1)
                              ELSE v[i].ids \cap rest \cap After(ids, v, i - 1) = {}
  <2>1. CASE i <= k
    <3>1. i \in 1 .. k /\ i - 1 \in 0 .. k /\ i - 1 <= n /\ i \in 1 .. Len(u)
      BY <1>1, <2>1
    <3>2. v[i] = u[i] /\ After(ids, v, i - 1) = After(ids, u, i - 1)
      BY <1>1, <1>2, <3>1
    <3>3. LET before == After(ids, u, i - 1)
          IN  IF u[i].deletion THEN u[i].ids \cap about \subseteq before
                               ELSE u[i].ids \cap about \cap before = {}
      BY <1>4, <3>1 DEF LeadTo
    <3> QED
      BY <3>2, <3>3
  <2>2. CASE ~(i <= k)
    <3>1. /\ i \in (k + 1) .. n /\ i - 1 \in k .. n /\ (i - 1) + 1 = i
          /\ i + 1 \in 1 .. Len(u) /\ (i + 1) - 1 = i
      BY <1>1, <2>2
    <3>2. v[i] = u[i + 1] /\ After(ids, v, i - 1) \cap rest = After(ids, u, i) \cap rest
      BY <1>1, <1>3, <3>1
    <3>3. LET before == After(ids, u, (i + 1) - 1)
          IN  IF u[i + 1].deletion THEN u[i + 1].ids \cap about \subseteq before
                                   ELSE u[i + 1].ids \cap about \cap before = {}
      BY <1>4, <3>1 DEF LeadTo
    <3>4. IF u[i + 1].deletion THEN u[i + 1].ids \cap about \subseteq After(ids, u, i)
                               ELSE u[i + 1].ids \cap about \cap After(ids, u, i) = {}
      BY <3>1, <3>3
    <3> QED
      BY <3>2, <3>4
  <2> QED
    BY <2>1, <2>2
<1>7. LeadTo(ids, v, objects, rest)
  BY <1>1, <1>5, <1>6 DEF LeadTo
<1> QED
  BY <1>7 DEF v

(* A finite set as a sequence names each of its elements once.             *)
LEMMA SetToSeqFacts ==
  ASSUME NEW S, IsFiniteSet(S)
  PROVE  /\ Cardinality(S) \in Nat
         /\ SetToSeq(S) \in [1 .. Cardinality(S) -> S]
         /\ \A i, j \in 1 .. Cardinality(S) : SetToSeq(S)[i] = SetToSeq(S)[j] => i = j
         /\ \A e \in S : \E i \in 1 .. Cardinality(S) : SetToSeq(S)[i] = e
<1> DEFINE n == Cardinality(S)
<1>1. n \in Nat /\ ExistsBijection(1 .. n, S)
  BY FS_CardinalityType
<1>2. \E f \in [1 .. n -> S] : IsInjective(f)
  BY <1>1 DEF ExistsBijection, Bijection, Injection
<1>3. SetToSeq(S) \in [1 .. n -> S] /\ IsInjective(SetToSeq(S))
  BY <1>2 DEF SetToSeq
<1>4. SetToSeq(S) \in Injection(1 .. n, S)
  BY <1>3 DEF Injection
<1>5. Cardinality(1 .. n) = n
  BY <1>1, FS_Interval
<1>6. SetToSeq(S) \in Surjection(1 .. n, S)
  BY <1>4, <1>5, FS_Injection
<1> QED
  BY <1>1, <1>3, <1>6 DEF Surjection, IsInjective

(* The messages a new subscriber gets: one for each sealed object.         *)
LEMMA LeadFromNothing ==
  ASSUME NEW S \in SUBSET ObjectIDs, IsFiniteSet(S), NEW about
  PROVE  LET s == [i \in 1 .. Cardinality(S) |-> SealedInfo({SetToSeq(S)[i]})]
         IN  s \in Seq(InfoType) /\ LeadTo({}, s, S, about)
<1> DEFINE n == Cardinality(S)
           q == SetToSeq(S)
           s == [i \in 1 .. n |-> SealedInfo({q[i]})]
<1>1. /\ n \in Nat /\ q \in [1 .. n -> S]
      /\ \A i, j \in 1 .. n : q[i] = q[j] => i = j
      /\ \A e \in S : \E i \in 1 .. n : q[i] = e
  BY SetToSeqFacts
<1> HIDE DEF n, q
<1>2. \A i \in 1 .. n : SealedInfo({q[i]}) \in InfoType
  BY <1>1 DEF SealedInfo, InfoType
<1>3. s \in Seq(InfoType) /\ Len(s) = n
  BY <1>1, <1>2
<1>4. \A i \in 1 .. n : s[i].ids = {q[i]} /\ ~s[i].deletion
  BY DEF SealedInfo
<1> HIDE DEF s
<1>5. \A m \in 0 .. n : After({}, s, m) = {q[i] : i \in 1 .. m}
  <2> SUFFICES ASSUME NEW m \in 0 .. n
               PROVE  After({}, s, m) = {q[i] : i \in 1 .. m}
    OBVIOUS
  <2>1. {q[i] : i \in 1 .. m} \subseteq ObjectIDs
    BY <1>1
  <2>2. ASSUME NEW id \in After({}, s, m)
        PROVE  id \in {q[i] : i \in 1 .. m}
    <3>1. PICK i \in 0 .. m : IF i = 0 THEN id \in {} ELSE id \in s[i].ids
      BY DEF After
    <3>2. i \in 1 .. m /\ i \in 1 .. n
      BY <1>1, <3>1
    <3> QED
      BY <1>4, <3>1, <3>2
  <2>3. ASSUME NEW i \in 1 .. m
        PROVE  q[i] \in After({}, s, m)
    <3>1. i \in 1 .. n /\ \A j \in (i + 1) .. m : j \in 1 .. n /\ j # i
      BY <1>1
    <3>2. \A j \in (i + 1) .. m : q[i] \notin s[j].ids
      BY <1>1, <1>4, <3>1
    <3>3. q[i] \in ObjectIDs /\ i \in 0 .. m /\ i # 0
      BY <1>1, <3>1
    <3> QED
      BY <1>4, <3>1, <3>2, <3>3 DEF After
  <2> QED
    BY <2>1, <2>2, <2>3
<1>6. After({}, s, Len(s)) = S
  <2>1. n \in 0 .. n
    BY <1>1
  <2>2. {q[i] : i \in 1 .. n} = S
    BY <1>1
  <2> QED
    BY <1>3, <1>5, <2>1, <2>2
<1>7. ASSUME NEW i \in 1 .. n
      PROVE  s[i].ids \cap After({}, s, i - 1) = {}
  <2>1. (i - 1) \in 0 .. n
    BY <1>1
  <2>2. After({}, s, i - 1) = {q[j] : j \in 1 .. (i - 1)}
    BY <1>5, <2>1
  <2>3. \A j \in 1 .. (i - 1) : j \in 1 .. n /\ j # i
    BY <1>1
  <2> QED
    BY <1>1, <1>4, <2>2, <2>3
<1>8. LeadTo({}, s, S, about)
  BY <1>3, <1>4, <1>6, <1>7 DEF LeadTo
<1> QED
  BY <1>3, <1>8 DEF s, n, q

------------------------------------------------------------------------------
(* The messages in flight to a descriptor.                                 *)

(* The first element of the second of two sequences moves to the first.    *)
LEMMA MoveFirst ==
  ASSUME NEW T, NEW s \in Seq(T), NEW t \in Seq(T), t # <<>>
  PROVE  Append(s, Head(t)) \o Tail(t) = s \o t
<1>1. Head(t) \in T /\ Tail(t) \in Seq(T) /\ <<Head(t)>> \in Seq(T)
  BY HeadTailProperties
<1>2. Append(s, Head(t)) = s \o <<Head(t)>>
  BY <1>1, AppendIsConcat
<1>3. (s \o <<Head(t)>>) \o Tail(t) = s \o (<<Head(t)>> \o Tail(t))
  BY <1>1, ConcatAssociative
<1>4. <<Head(t)>> \o Tail(t) = t
  <2> DEFINE u == <<Head(t)>> \o Tail(t)
  <2>1. Len(t) \in Nat \ {0} /\ Len(Tail(t)) = Len(t) - 1
    BY EmptySeq, HeadTailProperties
  <2>2. u \in Seq(T) /\ Len(u) = Len(t)
    BY <1>1, <2>1, ConcatProperties
  <2>3. ASSUME NEW i \in 1 .. Len(t) PROVE u[i] = t[i]
    <3>1. CASE i = 1
      BY <1>1, <2>1, <3>1
    <3>2. CASE i # 1
      <4>1. i - 1 \in 1 .. Len(Tail(t)) /\ (i - 1) + 1 = i
        BY <2>1, <3>2
      <4>2. Tail(t)[i - 1] = t[i]
        BY <4>1, HeadTailProperties
      <4>3. u[i] = Tail(t)[i - 1]
        BY <1>1, <2>1, <3>2
      <4> QED
        BY <4>2, <4>3
    <3> QED
      BY <3>1, <3>2
  <2> QED
    BY <2>2, <2>3, SeqEqual
<1> QED
  BY <1>2, <1>3, <1>4

(* The first element of a concatenation, and the rest.                     *)
LEMMA FirstOfConcat ==
  ASSUME NEW T, NEW s \in Seq(T), NEW t \in Seq(T), s # <<>>
  PROVE  /\ s \o t # <<>>
         /\ Head(s \o t) = Head(s)
         /\ Tail(s \o t) = Tail(s) \o t
<1>1. /\ Len(s) \in Nat \ {0} /\ Len(t) \in Nat
      /\ Tail(s) \in Seq(T) /\ Len(Tail(s)) = Len(s) - 1
      /\ \A i \in 1 .. Len(Tail(s)) : Tail(s)[i] = s[i + 1]
  BY EmptySeq, HeadTailProperties, LenProperties
<1> DEFINE u == s \o t
           v == Tail(s) \o t
<1>2. /\ u \in Seq(T) /\ Len(u) = Len(s) + Len(t)
      /\ \A i \in 1 .. Len(s) + Len(t) :
           u[i] = IF i <= Len(s) THEN s[i] ELSE t[i - Len(s)]
  BY ConcatProperties
<1>3. /\ v \in Seq(T) /\ Len(v) = Len(s) - 1 + Len(t)
      /\ \A i \in 1 .. Len(s) - 1 + Len(t) :
           v[i] = IF i <= Len(s) - 1 THEN Tail(s)[i] ELSE t[i - (Len(s) - 1)]
  BY <1>1, ConcatProperties
<1> HIDE DEF u, v
<1>4. u # <<>> /\ Head(u) = Head(s)
  <2>1. Len(u) # 0 /\ u[1] = s[1]
    BY <1>1, <1>2
  <2>2. u # <<>>
    BY <2>1
  <2> QED
    BY <1>2, <2>1, <2>2
<1>5. Tail(u) = v
  <2>1. /\ Tail(u) \in Seq(T) /\ Len(Tail(u)) = Len(u) - 1
        /\ \A i \in 1 .. Len(Tail(u)) : Tail(u)[i] = u[i + 1]
    BY <1>2, <1>4, HeadTailProperties
  <2>2. Len(Tail(u)) = Len(v)
    BY <1>1, <1>2, <1>3, <2>1
  <2>3. ASSUME NEW i \in 1 .. Len(Tail(u)) PROVE Tail(u)[i] = v[i]
    <3>1. i \in 1 .. Len(s) - 1 + Len(t) /\ i + 1 \in 1 .. Len(s) + Len(t)
      BY <1>1, <1>2, <2>1
    <3>2. CASE i <= Len(s) - 1
      <4>1. i \in 1 .. Len(Tail(s)) /\ i + 1 <= Len(s)
        BY <1>1, <3>1, <3>2
      <4>2. Tail(u)[i] = s[i + 1] /\ v[i] = Tail(s)[i]
        BY <1>2, <1>3, <2>1, <3>1, <3>2, <4>1
      <4> QED
        BY <1>1, <4>1, <4>2
    <3>3. CASE ~(i <= Len(s) - 1)
      <4>1. ~(i + 1 <= Len(s)) /\ (i + 1) - Len(s) = i - (Len(s) - 1)
        BY <1>1, <3>1, <3>3
      <4> QED
        BY <1>2, <1>3, <2>1, <3>1, <3>3, <4>1
    <3> QED
      BY <3>2, <3>3
  <2> QED
    BY <1>3, <2>1, <2>2, <2>3, SeqEqual
<1> QED
  BY <1>4, <1>5 DEF u, v

------------------------------------------------------------------------------
(* A queue that is not in the map is empty, and nothing is in a socket     *)
(* that nobody has subscribed with.                                        *)
QueueInv ==
  /\ \A fd \in Fds \ mapped : pending_notifications_[fd] = <<>>
  /\ \A fd \in fresh : socket[fd] = <<>>

(* Also in the middle of a handler, a queue that is not empty waits for    *)
(* its callback, unless it is the one that is being sent; and a callback   *)
(* without a queue is left by a subscriber that has hung up.               *)
CallbackInv ==
  /\ \A fd \in mapped \ {sending} :
       fd \in file_callbacks_ <=> pending_notifications_[fd] # <<>>
  /\ file_callbacks_ \subseteq mapped \cup hung_up

(* Subscriptions have descriptors of their own.                            *)
SubscriptionInv ==
  /\ \A c \in Clients : notification_fd[c] \notin fresh
  /\ \A c \in Clients : notification_fd[c] = NoFd => known[c] = {}
  /\ \A c, d \in Clients : notification_fd[c] = notification_fd[d] =>
       c = d \/ notification_fd[c] = NoFd

(* The inductive invariant.                                                *)
IInv ==
  /\ TypeOK /\ QueueInv /\ CallbackInv /\ SubscriptionInv
  /\ NothingLostOrRepeated /\ CrashNeedsHangUp

(* Three sequences of messages, one after the other.                       *)
LEMMA Regroup ==
  \A s, t, u \in Seq(InfoType) : s \o t \o u = s \o (t \o u)
  BY ConcatAssociative

(* A subscriber for which a step changes nothing.                          *)
Unnoticed(c) ==
  Live(c)' =>
    LET fd == notification_fd[c]
    IN  /\ Live(c) /\ notification_fd'[c] = fd /\ known'[c] = known[c]
        /\ socket'[fd] \o pending_notifications_'[fd] \o todo'[fd] = InFlight(fd)
        /\ dropped'[fd] = dropped[fd]

(* If it is unnoticed by all and the table stays, nobody has to be told.   *)
LEMMA NobodyNotices ==
  ASSUME NothingLostOrRepeated, UNCHANGED sealed, \A c \in Clients : Unnoticed(c)
  PROVE  NothingLostOrRepeated'
<1> SUFFICES ASSUME NEW c \in Clients, Live(c)'
             PROVE  LET fd == notification_fd'[c]
                    IN  LeadTo(known'[c],
                               socket'[fd] \o pending_notifications_'[fd] \o todo'[fd],
                               sealed', ObjectIDs \ dropped'[fd])
  BY DEF NothingLostOrRepeated, InFlight
<1> DEFINE fd == notification_fd[c]
<1>1. /\ Live(c) /\ notification_fd'[c] = fd /\ known'[c] = known[c]
      /\ socket'[fd] \o pending_notifications_'[fd] \o todo'[fd] = InFlight(fd)
      /\ dropped'[fd] = dropped[fd]
  BY DEF Unnoticed
<1>2. LeadTo(known[c], InFlight(fd), sealed, ObjectIDs \ dropped[fd])
  BY <1>1 DEF NothingLostOrRepeated
<1> HIDE DEF fd
<1> QED
  BY <1>1, <1>2

(* It is so when the descriptor of the subscriber is left alone.           *)
LEMMA OtherDescriptor ==
  ASSUME NEW c \in Clients,
         Live(c)' =>
           LET fd == notification_fd[c]
           IN  /\ fd \in mapped /\ fd \notin hung_up /\ fd # NoFd
               /\ notification_fd'[c] = fd /\ known'[c] = known[c]
               /\ socket'[fd] = socket[fd] /\ todo'[fd] = todo[fd]
               /\ pending_notifications_'[fd] = pending_notifications_[fd]
               /\ dropped'[fd] = dropped[fd]
  PROVE  Unnoticed(c)
  BY DEF Unnoticed, Live, Subscribed, InFlight

(* PushNotifications tells every subscriber of the change.                 *)
LEMMA PushTellsAll ==
  ASSUME TypeOK, Idle, NothingLostOrRepeated, NEW x \in InfoType,
         IF x.deletion THEN x.ids \subseteq sealed ELSE x.ids \cap sealed = {},
         sealed' = Told(sealed, x), PushNotifications(x),
         UNCHANGED <<notification_fd, mapped, pending_notifications_, socket, hung_up,
                     known, dropped>>
  PROVE  NothingLostOrRepeated'
<1> SUFFICES ASSUME NEW c \in Clients, Live(c)'
             PROVE  LET fd == notification_fd[c]
                    IN  LeadTo(known[c], socket[fd] \o pending_notifications_[fd]
                                           \o todo'[fd],
                               sealed', ObjectIDs \ dropped[fd])
  BY DEF NothingLostOrRepeated, InFlight
<1> DEFINE fd == notification_fd[c]
           s == socket[fd] \o pending_notifications_[fd]
           about == ObjectIDs \ dropped[fd]
<1>1. Live(c) /\ fd \in Fds /\ fd \in mapped
  BY DEF Live, Subscribed, TypeOK
<1>2. todo[fd] = <<>> /\ todo'[fd] = <<x>>
  BY <1>1 DEF Idle, PushNotifications
<1>3. s \in Seq(InfoType)
  BY <1>1, ConcatProperties DEF TypeOK
<1>4. LeadTo(known[c], s \o todo[fd], sealed, about) /\ known[c] \in SUBSET ObjectIDs
  BY <1>1 DEF NothingLostOrRepeated, TypeOK, InFlight
<1> HIDE DEF s, fd, about
<1>5. LeadTo(known[c], s, sealed, about)
  BY <1>2, <1>3, <1>4, ConcatEmptySeq
<1>6. LeadTo(known[c], s \o <<x>>, Told(sealed, x), about)
  BY <1>3, <1>4, <1>5, LeadExtend
<1> QED
  BY <1>2, <1>6 DEF s, fd, about

(* SealObjects: every subscriber will hear of the objects, once.           *)
LEMMA KeepsSealObjects ==
  ASSUME IInv, NEW ids \in SUBSET ObjectIDs, SealObjects(ids)
  PROVE  IInv'
<1> USE DEF IInv
<1>1. UNCHANGED <<notification_fd, fresh, pending_notifications_, mapped,
                  file_callbacks_, fired, sending, socket,
                  hung_up, known, crashed, dropped>>
  BY DEF SealObjects, table, subscribers, readers
<1>2. Idle /\ sealed' = sealed \cup ids /\ changes' \in 0 .. MaxChanges
  BY MaxChangesAssumption DEF SealObjects, TypeOK
<1>3. /\ SealedInfo(ids) \in InfoType
      /\ SealedInfo(ids).ids = ids /\ ~SealedInfo(ids).deletion
  BY DEF SealedInfo, InfoType
<1>4. PushNotifications(SealedInfo(ids)) /\ ids \cap sealed = {}
  BY DEF SealObjects
<1>5. todo' \in [Fds -> Seq(InfoType)]
  BY <1>3, <1>4 DEF PushNotifications
<1>6. TypeOK'
  BY <1>1, <1>2, <1>3, <1>4, <1>5 DEF TypeOK
<1>7. QueueInv'
  BY <1>1, <1>2, <1>3, <1>4, <1>5 DEF QueueInv
<1>8. CallbackInv'
  BY <1>1, <1>2, <1>3, <1>4, <1>5 DEF CallbackInv
<1>9. SubscriptionInv'
  BY <1>1, <1>2, <1>3, <1>4, <1>5 DEF SubscriptionInv
<1>10. NothingLostOrRepeated'
  <2>1. sealed' = Told(sealed, SealedInfo(ids))
    BY <1>2, <1>3 DEF Told
  <2> QED
    BY <1>1, <1>2, <1>3, <1>4, <2>1, PushTellsAll
<1>11. CrashNeedsHangUp'
  BY <1>1, <1>2, <1>3, <1>4, <1>5 DEF CrashNeedsHangUp
<1> QED
  BY <1>6, <1>7, <1>8, <1>9, <1>10, <1>11

(* DeleteObject and EvictObjects: every subscriber will hear of it, once.  *)
LEMMA KeepsEraseObject ==
  ASSUME IInv, NEW id \in ObjectIDs, EraseObject(id)
  PROVE  IInv'
<1> USE DEF IInv
<1>1. UNCHANGED <<notification_fd, fresh, pending_notifications_, mapped,
                  file_callbacks_, fired, sending, socket,
                  hung_up, known, crashed, dropped>>
  BY DEF EraseObject, table, subscribers, readers
<1>2. Idle /\ sealed' = sealed \ {id} /\ changes' \in 0 .. MaxChanges
  BY MaxChangesAssumption DEF EraseObject, TypeOK
<1>3. /\ DeletedInfo(id) \in InfoType
      /\ DeletedInfo(id).ids = {id} /\ DeletedInfo(id).deletion
  BY DEF DeletedInfo, InfoType
<1>4. PushNotifications(DeletedInfo(id)) /\ id \in sealed
  BY DEF EraseObject
<1>5. todo' \in [Fds -> Seq(InfoType)]
  BY <1>3, <1>4 DEF PushNotifications
<1>6. TypeOK'
  BY <1>1, <1>2, <1>3, <1>4, <1>5 DEF TypeOK
<1>7. QueueInv'
  BY <1>1, <1>2, <1>3, <1>4, <1>5 DEF QueueInv
<1>8. CallbackInv'
  BY <1>1, <1>2, <1>3, <1>4, <1>5 DEF CallbackInv
<1>9. SubscriptionInv'
  BY <1>1, <1>2, <1>3, <1>4, <1>5 DEF SubscriptionInv
<1>10. NothingLostOrRepeated'
  <2>1. sealed' = Told(sealed, DeletedInfo(id))
    BY <1>2, <1>3 DEF Told
  <2> QED
    BY <1>1, <1>2, <1>3, <1>4, <2>1, PushTellsAll
<1>11. CrashNeedsHangUp'
  BY <1>1, <1>2, <1>3, <1>4, <1>5 DEF CrashNeedsHangUp
<1> QED
  BY <1>6, <1>7, <1>8, <1>9, <1>10, <1>11

(* SubscribeToUpdates: what is sealed already is told in full; the others  *)
(* keep theirs, as the descriptor is new.                                  *)
LEMMA KeepsSubscribeToUpdates ==
  ASSUME IInv, NEW c \in Clients, SubscribeToUpdates(c)
  PROVE  IInv'
<1> USE DEF IInv
<1>1. UNCHANGED <<sealed, changes, pending_notifications_, file_callbacks_,
                  fired, sending, socket, hung_up, known,
                  crashed, dropped>>
  BY DEF SubscribeToUpdates, table, subscribers, readers
<1>2. ~crashed /\ sending = NoFd /\ \A f \in Fds : todo[f] = <<>>
  BY DEF SubscribeToUpdates, Idle
<1>3. notification_fd[c] = NoFd /\ NextFd \in fresh
  BY DEF SubscribeToUpdates, NextFd
<1>4. /\ fresh' = fresh \ {NextFd} /\ mapped' = mapped \cup {NextFd}
      /\ notification_fd' = [notification_fd EXCEPT ![c] = NextFd]
  BY DEF SubscribeToUpdates
<1>5. /\ todo' \in [Fds -> Seq(InfoType)]
      /\ \A fd \in Fds \ {NextFd} : todo'[fd] = <<>>
      /\ LeadTo({}, todo'[NextFd], sealed, ObjectIDs \ dropped[NextFd])
  <2> DEFINE s == [i \in 1 .. Cardinality(sealed) |-> SealedInfo({SetToSeq(sealed)[i]})]
  <2>1. IsFiniteSet(sealed) /\ sealed \in SUBSET ObjectIDs
    BY ObjectIDsAssumption, FS_Subset DEF TypeOK
  <2>2. s \in Seq(InfoType) /\ LeadTo({}, s, sealed, ObjectIDs \ dropped[NextFd])
    BY <2>1, LeadFromNothing
  <2>3. todo' = [todo EXCEPT ![NextFd] = s]
    BY DEF SubscribeToUpdates
  <2> HIDE DEF s
  <2> QED
    BY <1>2, <1>3, <2>2, <2>3 DEF TypeOK
<1>6. TypeOK'
  BY <1>1, <1>2, <1>3, <1>4, <1>5 DEF TypeOK
<1>7. QueueInv'
  BY <1>1, <1>2, <1>3, <1>4, <1>5 DEF QueueInv
<1>8. CallbackInv'
  <2>1. NextFd \notin file_callbacks_ /\ pending_notifications_[NextFd] = <<>>
    BY <1>3 DEF TypeOK, QueueInv
  <2> QED
    BY <1>1, <1>2, <1>4, <2>1 DEF CallbackInv
<1>9. SubscriptionInv'
  BY <1>1, <1>2, <1>3, <1>4, <1>5 DEF SubscriptionInv
<1>10. NothingLostOrRepeated'
  <2> SUFFICES ASSUME NEW d \in Clients, Live(d)'
               PROVE  LET fd == notification_fd'[d]
                      IN  LeadTo(known[d], socket[fd] \o pending_notifications_[fd]
                                             \o todo'[fd],
                                 sealed, ObjectIDs \ dropped[fd])
    BY <1>1 DEF NothingLostOrRepeated, InFlight
  <2>1. CASE d = c
    <3>1. PICK fd \in Fds : fd = NextFd
      BY <1>3 DEF TypeOK
    <3>2. notification_fd'[c] = fd /\ known[c] = {}
      BY <1>3, <1>4, <3>1 DEF TypeOK, SubscriptionInv
    <3>3. socket[fd] = <<>> /\ pending_notifications_[fd] = <<>>
      BY <1>3, <3>1 DEF QueueInv, TypeOK
    <3>4. /\ todo'[fd] \in Seq(InfoType)
          /\ LeadTo({}, todo'[fd], sealed, ObjectIDs \ dropped[fd])
      BY <1>5, <3>1
    <3>5. <<>> \o <<>> \o todo'[fd] = todo'[fd]
      BY <3>4, ConcatEmptySeq
    <3> QED
      BY <2>1, <3>2, <3>3, <3>4, <3>5
  <2>2. CASE d # c
    <3>1. PICK fd : fd = notification_fd[d]
      OBVIOUS
    <3>2. notification_fd'[d] = fd /\ fd # NextFd
      BY <1>3, <1>4, <2>2, <3>1 DEF TypeOK, SubscriptionInv
    <3>3. fd \in mapped /\ fd # NoFd /\ fd \notin hung_up /\ fd \in Fds
      BY <1>1, <1>4, <3>2 DEF Live, Subscribed, TypeOK
    <3>4. todo'[fd] = todo[fd]
      BY <1>2, <1>5, <3>2, <3>3
    <3>5. LeadTo(known[d], InFlight(fd), sealed, ObjectIDs \ dropped[fd])
      BY <3>1, <3>3 DEF NothingLostOrRepeated, Live, Subscribed
    <3> QED
      BY <3>2, <3>4, <3>5 DEF InFlight
  <2> QED
    BY <2>1, <2>2
<1>11. CrashNeedsHangUp'
  BY <1>1, <1>2, <1>3, <1>4, <1>5 DEF CrashNeedsHangUp
<1> QED
  BY <1>6, <1>7, <1>8, <1>9, <1>10, <1>11

(* DisconnectClient: callback, queue and descriptor go together, and no    *)
(* other subscriber has the descriptor.                                    *)
LEMMA KeepsDisconnectClient ==
  ASSUME IInv, NEW c \in Clients, DisconnectClient(c)
  PROVE  IInv'
<1> USE DEF IInv
<1>1. UNCHANGED <<sealed, changes, fresh, fired, todo, sending, socket,
                  hung_up, crashed, dropped>>
  BY DEF DisconnectClient, table, subscribers, readers
<1>2. ~crashed /\ sending = NoFd /\ \A f \in Fds : todo[f] = <<>>
  BY DEF DisconnectClient, Idle
<1>3. notification_fd[c] # NoFd /\ notification_fd[c] \in Fds
  BY DEF DisconnectClient, TypeOK
<1>4. /\ file_callbacks_' = file_callbacks_ \ {notification_fd[c]}
      /\ mapped' = mapped \ {notification_fd[c]}
  BY DEF DisconnectClient
<1>5. /\ pending_notifications_' \in [Fds -> Seq(InfoType)]
      /\ pending_notifications_'[notification_fd[c]] = <<>>
      /\ \A fd \in Fds \ {notification_fd[c]} :
           pending_notifications_'[fd] = pending_notifications_[fd]
  BY <1>3, EmptySeq DEF DisconnectClient, TypeOK
<1>6. /\ notification_fd' \in [Clients -> Fds \cup {NoFd}]
      /\ known' \in [Clients -> SUBSET ObjectIDs]
      /\ notification_fd'[c] = NoFd /\ known'[c] = {}
      /\ \A d \in Clients \ {c} :
           notification_fd'[d] = notification_fd[d] /\ known'[d] = known[d]
  BY DEF DisconnectClient, TypeOK
<1>7. TypeOK'
  BY <1>1, <1>2, <1>3, <1>4, <1>5, <1>6 DEF TypeOK
<1>8. QueueInv'
  BY <1>1, <1>2, <1>3, <1>4, <1>5, <1>6 DEF QueueInv
<1>9. CallbackInv'
  <2>1. PICK fd \in Fds : fd = notification_fd[c]
    BY <1>3
  <2>2. \A f \in mapped \ {fd} : pending_notifications_'[f] = pending_notifications_[f]
    BY <1>5, <2>1 DEF TypeOK
  <2> QED
    BY <1>1, <1>2, <1>4, <2>1, <2>2 DEF CallbackInv, TypeOK
<1>10. SubscriptionInv'
  <2>1. \A d \in Clients : d = c \/ notification_fd'[d] = notification_fd[d]
    BY <1>6
  <2>2. NoFd \notin fresh
    BY NoFdAssumption DEF TypeOK
  <2> QED
    BY <1>1, <1>6, <2>1, <2>2 DEF SubscriptionInv
<1>11. NothingLostOrRepeated'
  <2>1. ASSUME NEW d \in Clients PROVE Unnoticed(d)
    <3>1. CASE d = c
      BY <1>6, <3>1 DEF Unnoticed, Live, Subscribed
    <3>2. CASE d # c
      <4>1. notification_fd[d] # notification_fd[c]
        BY <1>3, <3>2 DEF SubscriptionInv
      <4>2. Live(d)' => notification_fd[d] \in mapped /\ notification_fd[d] \in Fds
        BY <1>4, <1>6, <3>2 DEF Live, TypeOK
      <4> QED
        BY <1>1, <1>5, <1>6, <3>2, <4>1, <4>2, OtherDescriptor DEF Live, Subscribed
    <3> QED
      BY <3>1, <3>2
  <2> QED
    BY <1>1, <2>1, NobodyNotices
<1>12. CrashNeedsHangUp'
  BY <1>1, <1>2, <1>3, <1>4, <1>5, <1>6 DEF CrashNeedsHangUp
<1> QED
  BY <1>7, <1>8, <1>9, <1>10, <1>11, <1>12

(* A push: what the handler had to say to the subscriber joins the end of  *)
(* its queue.                                                              *)
LEMMA KeepsPush ==
  ASSUME IInv, NEW fd \in Fds, Push(fd)
  PROVE  IInv'
<1> USE DEF IInv
<1>1. UNCHANGED <<sealed, changes, notification_fd, fresh, mapped,
                  file_callbacks_, fired, socket, hung_up,
                  known, crashed, dropped>>
  BY DEF Push, table, subscribers, readers
<1>2. ~crashed /\ sending = NoFd /\ todo[fd] # <<>>
  BY DEF Push
<1>3. /\ todo[fd] \in Seq(InfoType) /\ pending_notifications_[fd] \in Seq(InfoType)
      /\ Head(todo[fd]) \in InfoType /\ Tail(todo[fd]) \in Seq(InfoType)
      /\ Append(pending_notifications_[fd], Head(todo[fd])) \in Seq(InfoType)
  <2>1. todo[fd] \in Seq(InfoType) /\ pending_notifications_[fd] \in Seq(InfoType)
    BY DEF TypeOK
  <2> QED
    BY <1>2, <2>1, HeadTailProperties, AppendProperties
<1>4. /\ todo' \in [Fds -> Seq(InfoType)] /\ todo'[fd] = Tail(todo[fd])
      /\ \A f \in Fds \ {fd} : todo'[f] = todo[f]
  BY <1>3 DEF Push, TypeOK
<1>5. /\ pending_notifications_' \in [Fds -> Seq(InfoType)]
      /\ \A f \in Fds \ {fd} : pending_notifications_'[f] = pending_notifications_[f]
      /\ fd \in mapped =>
           /\ pending_notifications_'[fd] =
                Append(pending_notifications_[fd], Head(todo[fd]))
           /\ sending' = fd
      /\ fd \notin mapped => UNCHANGED <<pending_notifications_, sending>>
  BY <1>3 DEF Push, TypeOK
<1>6. TypeOK'
  BY <1>1, <1>2, <1>3, <1>4, <1>5 DEF TypeOK
<1>7. QueueInv'
  BY <1>1, <1>2, <1>3, <1>4, <1>5 DEF QueueInv
<1>8. CallbackInv'
  <2>1. CASE fd \in mapped
    BY <1>1, <1>2, <1>5, <2>1, NoFdAssumption DEF CallbackInv, TypeOK
  <2>2. CASE fd \notin mapped
    BY <1>1, <1>5, <2>2 DEF CallbackInv
  <2> QED
    BY <2>1, <2>2
<1>9. SubscriptionInv'
  BY <1>1, <1>2, <1>3, <1>4, <1>5 DEF SubscriptionInv
<1>10. NothingLostOrRepeated'
  <2>1. ASSUME NEW c \in Clients PROVE Unnoticed(c)
    <3>1. CASE notification_fd[c] = fd
      <4> SUFFICES ASSUME Live(c)'
                   PROVE  /\ Live(c)
                          /\ socket[fd] \o pending_notifications_'[fd] \o todo'[fd]
                               = InFlight(fd)
        BY <1>1, <3>1 DEF Unnoticed
      <4>1. Live(c) /\ fd \in mapped
        BY <1>1, <3>1 DEF Live, Subscribed
      <4>2. pending_notifications_'[fd] \o todo'[fd]
              = pending_notifications_[fd] \o todo[fd]
        BY <1>2, <1>3, <1>4, <1>5, <4>1, MoveFirst
      <4>3. /\ socket[fd] \in Seq(InfoType) /\ todo'[fd] \in Seq(InfoType)
            /\ pending_notifications_'[fd] \in Seq(InfoType)
        BY <1>4, <1>5 DEF TypeOK
      <4>4. socket[fd] \o pending_notifications_'[fd] \o todo'[fd] =
              socket[fd] \o (pending_notifications_'[fd] \o todo'[fd])
        BY <4>3, Regroup
      <4>5. InFlight(fd) = socket[fd] \o (pending_notifications_[fd] \o todo[fd])
        <5> HIDE DEF IInv
        <5>1. /\ socket[fd] \in Seq(InfoType) /\ todo[fd] \in Seq(InfoType)
              /\ pending_notifications_[fd] \in Seq(InfoType)
          BY <1>3, <4>3
        <5>2. socket[fd] \o pending_notifications_[fd] \o todo[fd] =
                socket[fd] \o (pending_notifications_[fd] \o todo[fd])
          BY <5>1, Regroup
        <5> QED
          BY <5>2 DEF InFlight
      <4> QED
        BY <4>1, <4>2, <4>4, <4>5
    <3>2. CASE notification_fd[c] # fd
      <4>1. Live(c)' => notification_fd[c] \in Fds \ {fd}
        BY <1>1, <3>2 DEF Live, Subscribed, TypeOK
      <4> QED
        BY <1>1, <1>4, <1>5, <4>1, OtherDescriptor DEF Live, Subscribed
    <3> QED
      BY <3>1, <3>2
  <2> QED
    BY <1>1, <2>1, NobodyNotices
<1>11. CrashNeedsHangUp'
  BY <1>1, <1>2, <1>3, <1>4, <1>5 DEF CrashNeedsHangUp
<1> QED
  BY <1>6, <1>7, <1>8, <1>9, <1>10, <1>11

(* send takes a notification from the queue to the end of the socket.      *)
LEMMA KeepsSendOne ==
  ASSUME IInv, SendOne
  PROVE  IInv'
<1> USE DEF IInv
<1>1. UNCHANGED <<sealed, changes, notification_fd, fresh, mapped,
                  file_callbacks_, fired, todo, sending,
                  hung_up, known, crashed, dropped>>
  BY DEF SendOne, table, subscribers, readers
<1>2. /\ sending \in mapped /\ sending \in Fds /\ sending # NoFd
      /\ pending_notifications_[sending] # <<>>
  BY DEF SendOne, InSend, Queue, TypeOK
<1>3. sending \notin hung_up /\ Len(socket[sending]) < Room
  BY DEF SendOne
<1>4. /\ socket[sending] \in Seq(InfoType) /\ todo[sending] \in Seq(InfoType)
      /\ pending_notifications_[sending] \in Seq(InfoType)
  BY <1>2 DEF TypeOK
<1>5. /\ Head(pending_notifications_[sending]) \in InfoType
      /\ Tail(pending_notifications_[sending]) \in Seq(InfoType)
  BY <1>2, <1>4, HeadTailProperties
<1>6. /\ Append(socket[sending], Head(pending_notifications_[sending])) \in Seq(InfoType)
      /\ Len(Append(socket[sending], Head(pending_notifications_[sending]))) <= Room
  <2>1. Len(socket[sending]) \in Nat
    BY <1>4, LenProperties
  <2> QED
    BY <1>3, <1>4, <1>5, <2>1, AppendProperties, RoomAssumption
<1>7. /\ socket' \in [Fds -> Seq(InfoType)]
      /\ socket'[sending] = Append(socket[sending], Head(pending_notifications_[sending]))
      /\ \A fd \in Fds \ {sending} : socket'[fd] = socket[fd]
  BY <1>2, <1>6 DEF SendOne, Queue, TypeOK
<1>8. /\ pending_notifications_' \in [Fds -> Seq(InfoType)]
      /\ pending_notifications_'[sending] = Tail(pending_notifications_[sending])
      /\ \A fd \in Fds \ {sending} :
           pending_notifications_'[fd] = pending_notifications_[fd]
  BY <1>2, <1>5 DEF SendOne, TypeOK
<1>9. TypeOK'
  BY <1>1, <1>2, <1>3, <1>4, <1>5, <1>6, <1>7, <1>8 DEF TypeOK
<1>10. QueueInv'
  <2>1. sending \notin fresh /\ fresh \subseteq Fds
    BY <1>2 DEF TypeOK
  <2> QED
    BY <1>1, <1>2, <1>7, <1>8, <2>1 DEF QueueInv
<1>11. CallbackInv'
  <2>1. \A fd \in mapped \ {sending} :
          pending_notifications_'[fd] = pending_notifications_[fd]
    BY <1>8 DEF TypeOK
  <2> QED
    BY <1>1, <2>1 DEF CallbackInv
<1>12. SubscriptionInv'
  BY <1>1, <1>2, <1>3, <1>4, <1>5, <1>6, <1>7, <1>8 DEF SubscriptionInv
<1>13. NothingLostOrRepeated'
  <2>1. ASSUME NEW c \in Clients PROVE Unnoticed(c)
    <3>1. CASE notification_fd[c] = sending
      <4>1. PICK fd \in Fds : fd = sending
        BY <1>2
      <4> SUFFICES ASSUME Live(c)'
                   PROVE  /\ Live(c)
                          /\ socket'[fd] \o pending_notifications_'[fd] \o todo[fd]
                               = InFlight(fd)
        BY <1>1, <3>1, <4>1 DEF Unnoticed
      <4>2. Live(c)
        BY <1>1 DEF Live, Subscribed
      <4>3. socket'[fd] \o pending_notifications_'[fd]
              = socket[fd] \o pending_notifications_[fd]
        <5>1. /\ socket[fd] \in Seq(InfoType)
              /\ pending_notifications_[fd] \in Seq(InfoType)
              /\ pending_notifications_[fd] # << >>
          BY <1>2, <1>4, <4>1
        <5>2. /\ socket'[fd] = Append(socket[fd], Head(pending_notifications_[fd]))
              /\ pending_notifications_'[fd] = Tail(pending_notifications_[fd])
          BY <1>7, <1>8, <4>1
        <5> QED
          BY <5>1, <5>2, MoveFirst
      <4> QED
        BY <4>2, <4>3 DEF InFlight
    <3>2. CASE notification_fd[c] # sending
      <4>1. Live(c)' => notification_fd[c] \in Fds \ {sending}
        BY <1>1, <3>2 DEF Live, Subscribed, TypeOK
      <4> QED
        BY <1>1, <1>7, <1>8, <4>1, OtherDescriptor DEF Live, Subscribed
    <3> QED
      BY <3>1, <3>2
  <2> QED
    BY <1>1, <2>1, NobodyNotices
<1>14. CrashNeedsHangUp'
  BY <1>1, <1>2, <1>3, <1>4, <1>5, <1>6, <1>7, <1>8 DEF CrashNeedsHangUp
<1> QED
  BY <1>9, <1>10, <1>11, <1>12, <1>13, <1>14

(* The socket is full, or send interrupted: the queue waits for its        *)
(* callback.                                                               *)
LEMMA KeepsSendBlocked ==
  ASSUME IInv, SendBlocked
  PROVE  IInv'
<1> USE DEF IInv
<1>1. UNCHANGED <<sealed, changes, notification_fd, fresh,
                  pending_notifications_, mapped, fired,
                  todo, socket, hung_up, known, crashed, dropped>>
  BY DEF SendBlocked, table, subscribers, readers
<1>2. /\ sending \in mapped /\ sending \in Fds /\ sending # NoFd
      /\ pending_notifications_[sending] # <<>>
  BY DEF SendBlocked, InSend, Queue, TypeOK
<1>3. file_callbacks_' = file_callbacks_ \cup {sending} /\ sending' = NoFd
  BY DEF SendBlocked
<1>4. TypeOK'
  BY <1>1, <1>2, <1>3 DEF TypeOK
<1>5. QueueInv'
  BY <1>1, <1>2, <1>3 DEF QueueInv
<1>6. CallbackInv'
  BY <1>1, <1>2, <1>3 DEF CallbackInv
<1>7. SubscriptionInv'
  BY <1>1, <1>2, <1>3 DEF SubscriptionInv
<1>8. NothingLostOrRepeated'
  <2>1. ASSUME NEW c \in Clients PROVE Unnoticed(c)
    BY <1>1, <1>2, <1>3, OtherDescriptor DEF Live, Subscribed
  <2> QED
    BY <1>1, <2>1, NobodyNotices
<1>9. CrashNeedsHangUp'
  BY <1>1, <1>2, <1>3 DEF CrashNeedsHangUp
<1> QED
  BY <1>4, <1>5, <1>6, <1>7, <1>8, <1>9

(* A send fails: what its notification was about is not known any more.    *)
LEMMA KeepsSendFails ==
  ASSUME IInv, SendFails
  PROVE  IInv'
<1> USE DEF IInv
<1>1. UNCHANGED <<sealed, changes, notification_fd, fresh, mapped,
                  file_callbacks_, fired, todo, sending, socket,
                  hung_up, known, crashed>>
  BY DEF SendFails, table, subscribers, readers
<1>2. /\ sending \in mapped /\ sending \in Fds /\ sending # NoFd
      /\ pending_notifications_[sending] # <<>>
  BY DEF SendFails, InSend, Queue, TypeOK
<1>3. /\ socket[sending] \in Seq(InfoType) /\ todo[sending] \in Seq(InfoType)
      /\ pending_notifications_[sending] \in Seq(InfoType)
  BY <1>2 DEF TypeOK
<1>4. /\ Head(pending_notifications_[sending]) \in InfoType
      /\ Tail(pending_notifications_[sending]) \in Seq(InfoType)
  BY <1>2, <1>3, HeadTailProperties
<1>5. /\ pending_notifications_' \in [Fds -> Seq(InfoType)]
      /\ pending_notifications_'[sending] = Tail(pending_notifications_[sending])
      /\ \A fd \in Fds \ {sending} :
           pending_notifications_'[fd] = pending_notifications_[fd]
  BY <1>2, <1>4 DEF SendFails, TypeOK
<1>6. /\ dropped' \in [Fds -> SUBSET ObjectIDs]
      /\ dropped'[sending] = dropped[sending] \cup Head(pending_notifications_[sending]).ids
      /\ \A fd \in Fds \ {sending} : dropped'[fd] = dropped[fd]
  <2>1. Head(pending_notifications_[sending]).ids \in SUBSET ObjectIDs
    BY <1>4 DEF InfoType
  <2> QED
    BY <1>2, <2>1 DEF SendFails, Queue, TypeOK
<1>7. TypeOK'
  BY <1>1, <1>2, <1>5, <1>6 DEF TypeOK
<1>8. QueueInv'
  BY <1>1, <1>2, <1>5 DEF QueueInv
<1>9. CallbackInv'
  <2>1. \A fd \in mapped \ {sending} :
          pending_notifications_'[fd] = pending_notifications_[fd]
    BY <1>5 DEF TypeOK
  <2> QED
    BY <1>1, <2>1 DEF CallbackInv
<1>10. SubscriptionInv'
  BY <1>1 DEF SubscriptionInv
<1>11. NothingLostOrRepeated'
  <2> SUFFICES ASSUME NEW c \in Clients, Live(c)'
               PROVE  LET fd == notification_fd[c]
                      IN  LeadTo(known[c],
                                 socket[fd] \o pending_notifications_'[fd] \o todo[fd],
                                 sealed, ObjectIDs \ dropped'[fd])
    BY <1>1 DEF NothingLostOrRepeated, InFlight
  <2>1. PICK fd \in Fds : fd = notification_fd[c]
    BY <1>1 DEF Live, Subscribed, TypeOK
  <2>2. LeadTo(known[c], InFlight(fd), sealed, ObjectIDs \ dropped[fd])
    BY <1>1, <2>1 DEF NothingLostOrRepeated, Live, Subscribed
  <2>3. CASE fd = sending
    <3> DEFINE rest == pending_notifications_[fd] \o todo[fd]
               lost == Head(pending_notifications_[fd]).ids
    <3>1. /\ socket[fd] \in Seq(InfoType) /\ todo[fd] \in Seq(InfoType)
          /\ pending_notifications_[fd] \in Seq(InfoType)
          /\ pending_notifications_[fd] # <<>>
          /\ Tail(pending_notifications_[fd]) \in Seq(InfoType)
          /\ known[c] \in SUBSET ObjectIDs
      BY <1>2, <1>3, <1>4, <2>3 DEF TypeOK
    <3>2. /\ rest \in Seq(InfoType) /\ rest # <<>>
          /\ Head(rest) = Head(pending_notifications_[fd])
          /\ Tail(rest) = Tail(pending_notifications_[fd]) \o todo[fd]
      BY <3>1, ConcatProperties, FirstOfConcat
    <3>3. InFlight(fd) = socket[fd] \o rest
      BY <3>1, Regroup DEF InFlight
    <3>4. socket[fd] \o Tail(pending_notifications_[fd]) \o todo[fd]
            = socket[fd] \o Tail(rest)
      <4> HIDE DEF IInv, rest
      <4>1. socket[fd] \o Tail(pending_notifications_[fd]) \o todo[fd]
              = socket[fd] \o (Tail(pending_notifications_[fd]) \o todo[fd])
        BY <3>1, Regroup
      <4> QED
        BY <3>2, <4>1
    <3>5. (ObjectIDs \ dropped[fd]) \ lost = ObjectIDs \ dropped'[fd]
      BY <1>6, <2>3
    <3> HIDE DEF rest, lost
    <3>6. LeadTo(known[c], socket[fd] \o rest, sealed, ObjectIDs \ dropped[fd])
      BY <2>2, <3>3
    <3>7. LeadTo(known[c], socket[fd] \o Tail(rest), sealed,
                 (ObjectIDs \ dropped[fd]) \ Head(rest).ids)
      BY <3>1, <3>2, <3>6, LeadDrop
    <3>8. /\ Head(rest).ids = lost
          /\ pending_notifications_'[fd] = Tail(pending_notifications_[fd])
      BY <1>5, <2>3, <3>2 DEF lost
    <3> QED
      BY <2>1, <3>4, <3>5, <3>7, <3>8
  <2>4. CASE fd # sending
    <3>1. fd \in Fds \ {sending}
      BY <2>4
    <3> QED
      BY <1>5, <1>6, <2>1, <2>2, <3>1 DEF InFlight
  <2> QED
    BY <2>3, <2>4
<1>12. CrashNeedsHangUp'
  BY <1>1 DEF CrashNeedsHangUp
<1> QED
  BY <1>7, <1>8, <1>9, <1>10, <1>11, <1>12

(* The subscriber has hung up: its queue is erased, its callback may stay. *)
LEMMA KeepsSendBroken ==
  ASSUME IInv, SendBroken
  PROVE  IInv'
<1> USE DEF IInv
<1>1. UNCHANGED <<sealed, changes, notification_fd, fresh, file_callbacks_,
                  fired, todo, socket, hung_up, known,
                  crashed, dropped>>
  BY DEF SendBroken, table, subscribers, readers
<1>2. /\ sending \in mapped /\ sending \in Fds /\ sending # NoFd
      /\ pending_notifications_[sending] # <<>>
  BY DEF SendBroken, InSend, Queue, TypeOK
<1>3. sending \in hung_up /\ mapped' = mapped \ {sending} /\ sending' = NoFd
  BY DEF SendBroken
<1>4. /\ pending_notifications_' \in [Fds -> Seq(InfoType)]
      /\ pending_notifications_'[sending] = <<>>
      /\ \A fd \in Fds \ {sending} :
           pending_notifications_'[fd] = pending_notifications_[fd]
  BY <1>2, EmptySeq DEF SendBroken, TypeOK
<1>5. TypeOK'
  BY <1>1, <1>2, <1>3, <1>4 DEF TypeOK
<1>6. QueueInv'
  BY <1>1, <1>2, <1>3, <1>4 DEF QueueInv
<1>7. CallbackInv'
  <2>1. \A fd \in mapped' : fd \in mapped \ {sending} /\ fd \in Fds \ {sending}
    BY <1>3 DEF TypeOK
  <2>2. \A fd \in mapped' : pending_notifications_'[fd] = pending_notifications_[fd]
    BY <1>4, <2>1
  <2> QED
    BY <1>1, <1>3, <2>1, <2>2 DEF CallbackInv
<1>8. SubscriptionInv'
  BY <1>1, <1>2, <1>3, <1>4 DEF SubscriptionInv
<1>9. NothingLostOrRepeated'
  <2>1. ASSUME NEW c \in Clients PROVE Unnoticed(c)
    <3>1. Live(c)' => notification_fd[c] \in Fds \ {sending}
      BY <1>1, <1>3 DEF Live, Subscribed, TypeOK
    <3> QED
      BY <1>1, <1>3, <1>4, <3>1, OtherDescriptor DEF Live, Subscribed
  <2> QED
    BY <1>1, <2>1, NobodyNotices
<1>10. CrashNeedsHangUp'
  BY <1>1, <1>2, <1>3, <1>4 DEF CrashNeedsHangUp
<1> QED
  BY <1>5, <1>6, <1>7, <1>8, <1>9, <1>10

(* All is sent: the callback goes.                                         *)
LEMMA KeepsSendDone ==
  ASSUME IInv, SendDone
  PROVE  IInv'
<1> USE DEF IInv
<1>1. UNCHANGED <<sealed, changes, notification_fd, fresh,
                  pending_notifications_, mapped, fired,
                  todo, socket, hung_up, known, crashed, dropped>>
  BY DEF SendDone, table, subscribers, readers
<1>2. /\ sending \in mapped /\ sending # NoFd
      /\ pending_notifications_[sending] = <<>>
  BY DEF SendDone, InSend, Queue, TypeOK
<1>3. file_callbacks_' = file_callbacks_ \ {sending} /\ sending' = NoFd
  BY DEF SendDone
<1>4. TypeOK'
  BY <1>1, <1>2, <1>3 DEF TypeOK
<1>5. QueueInv'
  BY <1>1, <1>2, <1>3 DEF QueueInv
<1>6. CallbackInv'
  BY <1>1, <1>2, <1>3 DEF CallbackInv
<1>7. SubscriptionInv'
  BY <1>1, <1>2, <1>3 DEF SubscriptionInv
<1>8. NothingLostOrRepeated'
  <2>1. ASSUME NEW c \in Clients PROVE Unnoticed(c)
    BY <1>1, <1>2, <1>3, OtherDescriptor DEF Live, Subscribed
  <2> QED
    BY <1>1, <2>1, NobodyNotices
<1>9. CrashNeedsHangUp'
  BY <1>1, <1>2, <1>3 DEF CrashNeedsHangUp
<1> QED
  BY <1>4, <1>5, <1>6, <1>7, <1>8, <1>9

(* Polling only finds out which callbacks can run.                         *)
LEMMA KeepsPoll ==
  ASSUME IInv, Poll
  PROVE  IInv'
<1> USE DEF IInv
<1>1. UNCHANGED <<sealed, changes, notification_fd, fresh,
                  pending_notifications_, mapped,
                  file_callbacks_, todo, sending, socket,
                  hung_up, known, crashed, dropped>>
  BY DEF Poll, table, subscribers, readers
<1>2. fired' \subseteq file_callbacks_
  BY DEF Poll
<1>3. TypeOK'
  BY <1>1, <1>2 DEF TypeOK
<1>4. QueueInv'
  BY <1>1, <1>2 DEF QueueInv
<1>5. CallbackInv'
  BY <1>1, <1>2 DEF CallbackInv
<1>6. SubscriptionInv'
  BY <1>1, <1>2 DEF SubscriptionInv
<1>7. NothingLostOrRepeated'
  <2>1. ASSUME NEW c \in Clients PROVE Unnoticed(c)
    BY <1>1, <1>2, OtherDescriptor DEF Live, Subscribed
  <2> QED
    BY <1>1, <2>1, NobodyNotices
<1>8. CrashNeedsHangUp'
  BY <1>1, <1>2 DEF CrashNeedsHangUp
<1> QED
  BY <1>3, <1>4, <1>5, <1>6, <1>7, <1>8

(* A callback runs: without a queue only if its subscriber has hung up.    *)
LEMMA KeepsWriteCallback ==
  ASSUME IInv, NEW fd \in Fds, WriteCallback(fd)
  PROVE  IInv'
<1> USE DEF IInv
<1>1. UNCHANGED <<sealed, changes, notification_fd, fresh,
                  pending_notifications_, mapped,
                  file_callbacks_, todo, socket, hung_up,
                  known, dropped>>
  BY DEF WriteCallback, table, subscribers, readers
<1>2. ~crashed /\ sending = NoFd /\ fired' \subseteq fired
  BY DEF WriteCallback, Idle
<1>3. \/ sending' = NoFd /\ (crashed' <=> fd \in file_callbacks_ \ mapped)
      \/ sending' = fd /\ fd \in mapped /\ ~crashed'
  BY DEF WriteCallback
<1>4. crashed' \in BOOLEAN
  BY DEF WriteCallback
<1>5. TypeOK'
  BY <1>1, <1>2, <1>3, <1>4 DEF TypeOK
<1>6. QueueInv'
  BY <1>1, <1>2, <1>3, <1>4 DEF QueueInv
<1>7. CallbackInv'
  <2>1. sending \notin mapped
    BY <1>2, NoFdAssumption DEF TypeOK
  <2> QED
    BY <1>1, <2>1 DEF CallbackInv
<1>8. SubscriptionInv'
  BY <1>1, <1>2, <1>3, <1>4 DEF SubscriptionInv
<1>9. NothingLostOrRepeated'
  <2>1. ASSUME NEW c \in Clients PROVE Unnoticed(c)
    BY <1>1, <1>2, <1>3, <1>4, OtherDescriptor DEF Live, Subscribed
  <2> QED
    BY <1>1, <2>1, NobodyNotices
<1>10. CrashNeedsHangUp'
  <2>1. crashed' => fd \in hung_up
    BY <1>3 DEF CallbackInv
  <2> QED
    BY <1>1, <2>1 DEF CrashNeedsHangUp
<1> QED
  BY <1>5, <1>6, <1>7, <1>8, <1>9, <1>10

(* A subscriber reads a message: it knows more, and less is in flight.     *)
LEMMA KeepsGetNotification ==
  ASSUME IInv, NEW c \in Clients, GetNotification(c)
  PROVE  IInv'
<1> USE DEF IInv
<1>1. UNCHANGED <<sealed, changes, notification_fd, fresh,
                  pending_notifications_, mapped,
                  file_callbacks_, fired, todo, sending,
                  hung_up, crashed, dropped>>
  BY DEF GetNotification, table, subscribers, readers
<1>2. PICK fd \in Fds : fd = notification_fd[c]
  BY DEF GetNotification, Subscribed, TypeOK
<1>3. /\ socket[fd] # <<>> /\ fd # NoFd
      /\ socket[fd] \in Seq(InfoType) /\ known[c] \in SUBSET ObjectIDs
  BY <1>2 DEF GetNotification, Subscribed, TypeOK
<1>4. /\ Head(socket[fd]) \in InfoType /\ Tail(socket[fd]) \in Seq(InfoType)
      /\ Len(Tail(socket[fd])) <= Room
  <2>1. Len(socket[fd]) \in Nat /\ Len(socket[fd]) <= Room
    BY <1>3, LenProperties DEF TypeOK
  <2> QED
    BY <1>3, <2>1, HeadTailProperties, RoomAssumption
<1>5. Told(known[c], Head(socket[fd])) \in SUBSET ObjectIDs
  BY <1>3, <1>4 DEF Told, InfoType
<1>6. /\ known' \in [Clients -> SUBSET ObjectIDs]
      /\ known'[c] = Told(known[c], Head(socket[fd]))
      /\ \A d \in Clients \ {c} : known'[d] = known[d]
  BY <1>2, <1>5 DEF GetNotification, TypeOK
<1>7. /\ socket' \in [Fds -> Seq(InfoType)] /\ socket'[fd] = Tail(socket[fd])
      /\ \A f \in Fds \ {fd} : socket'[f] = socket[f]
  BY <1>2, <1>4 DEF GetNotification, TypeOK
<1>8. \A d \in Clients : notification_fd[d] = fd => d = c
  BY <1>2, <1>3 DEF SubscriptionInv
<1>9. TypeOK'
  BY <1>1, <1>2, <1>3, <1>4, <1>5, <1>6, <1>7, <1>8 DEF TypeOK
<1>10. QueueInv'
  <2>1. \A f \in fresh : f \in Fds \ {fd}
    BY <1>2 DEF TypeOK, SubscriptionInv
  <2> QED
    BY <1>1, <1>7, <2>1 DEF QueueInv
<1>11. CallbackInv'
  BY <1>1, <1>2, <1>3, <1>4, <1>5, <1>6, <1>7, <1>8 DEF CallbackInv
<1>12. SubscriptionInv'
  BY <1>1, <1>2, <1>3, <1>4, <1>5, <1>6, <1>7, <1>8 DEF SubscriptionInv
<1>13. NothingLostOrRepeated'
  <2> SUFFICES ASSUME NEW d \in Clients, Live(d)'
               PROVE  LET f == notification_fd[d]
                      IN  LeadTo(known'[d],
                                 socket'[f] \o pending_notifications_[f] \o todo[f],
                                 sealed, ObjectIDs \ dropped[f])
    BY <1>1 DEF NothingLostOrRepeated, InFlight
  <2>1. LET f == notification_fd[d]
        IN  Live(d) /\ LeadTo(known[d], InFlight(f), sealed, ObjectIDs \ dropped[f])
    BY <1>1 DEF NothingLostOrRepeated, Live, Subscribed
  <2>2. CASE d = c
    <3> DEFINE rest == pending_notifications_[fd] \o todo[fd]
               s == socket[fd] \o rest
    <3>1. pending_notifications_[fd] \in Seq(InfoType) /\ todo[fd] \in Seq(InfoType)
      BY DEF TypeOK
    <3>2. rest \in Seq(InfoType)
      BY <3>1, ConcatProperties
    <3>3. s = InFlight(fd)
      BY <1>3, <3>1, Regroup DEF InFlight
    <3>4. Tail(socket[fd]) \o pending_notifications_[fd] \o todo[fd]
            = Tail(socket[fd]) \o rest
      BY <1>4, <3>1, Regroup
    <3> HIDE DEF rest
    <3>5. s \in Seq(InfoType) /\ s # <<>> /\ Head(s) = Head(socket[fd])
          /\ Tail(s) = Tail(socket[fd]) \o rest
      BY <1>3, <3>2, ConcatProperties, FirstOfConcat
    <3> HIDE DEF s
    <3>6. LeadTo(known[c], s, sealed, ObjectIDs \ dropped[fd])
      BY <1>2, <2>1, <2>2, <3>3
    <3>7. LeadTo(Told(known[c], Head(s)), Tail(s), sealed, ObjectIDs \ dropped[fd])
      BY <1>3, <3>5, <3>6, LeadRead
    <3> QED
      BY <1>2, <1>6, <1>7, <2>2, <3>4, <3>5, <3>7
  <2>3. CASE d # c
    <3>1. notification_fd[d] \in Fds \ {fd}
      BY <1>8, <2>1, <2>3 DEF Live, Subscribed, TypeOK
    <3> QED
      BY <1>6, <1>7, <2>1, <2>3, <3>1 DEF InFlight
  <2> QED
    BY <2>2, <2>3
<1>14. CrashNeedsHangUp'
  BY <1>1, <1>2, <1>3, <1>4, <1>5, <1>6, <1>7, <1>8 DEF CrashNeedsHangUp
<1> QED
  BY <1>9, <1>10, <1>11, <1>12, <1>13, <1>14

(* A subscriber hangs up: it need not be told any more.                    *)
LEMMA KeepsHangUp ==
  ASSUME IInv, NEW c \in Clients, HangUp(c)
  PROVE  IInv'
<1> USE DEF IInv
<1>1. UNCHANGED <<sealed, changes, notification_fd, fresh,
                  pending_notifications_, mapped,
                  file_callbacks_, fired, todo, sending,
                  known, crashed, dropped>>
  BY DEF HangUp, table, subscribers, readers
<1>2. PICK fd \in Fds : fd = notification_fd[c]
  BY DEF HangUp, Subscribed, TypeOK
<1>3. hung_up' = hung_up \cup {fd} /\ fd \notin fresh
  BY <1>2 DEF HangUp, SubscriptionInv
<1>4. /\ socket' \in [Fds -> Seq(InfoType)] /\ socket'[fd] = <<>>
      /\ \A f \in Fds \ {fd} : socket'[f] = socket[f]
  BY <1>2, EmptySeq DEF HangUp, TypeOK
<1>5. Len(<<>>) <= Room
  BY EmptySeq, RoomAssumption
<1>6. TypeOK'
  BY <1>1, <1>2, <1>3, <1>4, <1>5 DEF TypeOK
<1>7. QueueInv'
  <2>1. \A f \in fresh : f \in Fds \ {fd}
    BY <1>3 DEF TypeOK
  <2> QED
    BY <1>1, <1>4, <2>1 DEF QueueInv
<1>8. CallbackInv'
  BY <1>1, <1>2, <1>3, <1>4, <1>5 DEF CallbackInv
<1>9. SubscriptionInv'
  BY <1>1, <1>2, <1>3, <1>4, <1>5 DEF SubscriptionInv
<1>10. NothingLostOrRepeated'
  <2>1. ASSUME NEW d \in Clients PROVE Unnoticed(d)
    <3>1. Live(d)' => notification_fd[d] \in Fds \ {fd}
      BY <1>1, <1>3 DEF Live, Subscribed, TypeOK
    <3> QED
      BY <1>1, <1>3, <1>4, <3>1, OtherDescriptor DEF Live, Subscribed
  <2> QED
    BY <1>1, <2>1, NobodyNotices
<1>11. CrashNeedsHangUp'
  BY <1>1, <1>2, <1>3, <1>4, <1>5 DEF CrashNeedsHangUp
<1> QED
  BY <1>6, <1>7, <1>8, <1>9, <1>10, <1>11

------------------------------------------------------------------------------
(* A store without subscribers satisfies the invariant.                    *)
LEMMA InitIInv == Init => IInv
<1> SUFFICES ASSUME Init
             PROVE  IInv
  OBVIOUS
<1> USE DEF Init
<1>1. <<>> \in Seq(InfoType) /\ Len(<<>>) <= Room
  BY EmptySeq, RoomAssumption
<1>2. TypeOK
  <2> DEFINE none == [fd \in Fds |-> <<>>]
  <2>1. none \in [Fds -> Seq(InfoType)] /\ \A fd \in Fds : Len(none[fd]) <= Room
    BY <1>1
  <2>2. pending_notifications_ = none /\ todo = none /\ socket = none
    OBVIOUS
  <2> HIDE DEF none
  <2>3. changes \in 0 .. MaxChanges
    BY MaxChangesAssumption
  <2>4. /\ notification_fd \in [Clients -> Fds \cup {NoFd}]
        /\ known \in [Clients -> SUBSET ObjectIDs] /\ crashed \in BOOLEAN
        /\ dropped \in [Fds -> SUBSET ObjectIDs]
    OBVIOUS
  <2>5. /\ sealed = {} /\ fresh = Fds /\ mapped = {} /\ sending = NoFd
        /\ file_callbacks_ = {} /\ fired = {} /\ hung_up = {}
    OBVIOUS
  <2> QED
    BY <2>1, <2>2, <2>3, <2>4, <2>5 DEF TypeOK
<1>3. QueueInv /\ CallbackInv
  BY DEF QueueInv, CallbackInv
<1>4. SubscriptionInv
  BY NoFdAssumption DEF SubscriptionInv
<1>5. NothingLostOrRepeated
  BY DEF NothingLostOrRepeated, Live, Subscribed
<1>6. CrashNeedsHangUp
  BY DEF CrashNeedsHangUp
<1> QED
  BY <1>2, <1>3, <1>4, <1>5, <1>6 DEF IInv

(* Every step of the loop, of a handler and of a subscriber preserves it.  *)
LEMMA NextIInv == IInv /\ [Next]_vars => IInv'
<1> SUFFICES ASSUME IInv, [Next]_vars
             PROVE  IInv'
  OBVIOUS
<1>1. CASE UNCHANGED vars
  <2> USE <1>1 DEF vars, IInv
  <2>1. TypeOK' /\ QueueInv' /\ CallbackInv' /\ SubscriptionInv' /\ CrashNeedsHangUp'
    BY DEF TypeOK, QueueInv, CallbackInv, SubscriptionInv, CrashNeedsHangUp
  <2>2. NothingLostOrRepeated'
    BY DEF NothingLostOrRepeated, Live, Subscribed, InFlight
  <2> QED
    BY <2>1, <2>2
<1>2. CASE Loop
  BY <1>2, KeepsSendOne, KeepsSendBlocked, KeepsSendFails, KeepsSendBroken, KeepsSendDone,
     KeepsPoll, KeepsPush, KeepsWriteCallback DEF Loop
<1>3. ASSUME NEW ids \in SUBSET ObjectIDs, SealObjects(ids) PROVE IInv'
  BY <1>3, KeepsSealObjects
<1>4. ASSUME NEW id \in ObjectIDs, EraseObject(id) PROVE IInv'
  BY <1>4, KeepsEraseObject
<1>5. ASSUME NEW c \in Clients,
             \/ SubscribeToUpdates(c) \/ DisconnectClient(c)
             \/ GetNotification(c) \/ HangUp(c)
      PROVE  IInv'
  BY <1>5, KeepsSubscribeToUpdates, KeepsDisconnectClient, KeepsGetNotification,
     KeepsHangUp
<1> QED
  BY <1>1, <1>2, <1>3, <1>4, <1>5 DEF Next

------------------------------------------------------------------------------
(* store.cc, the event loop and the subscribers keep the invariant.        *)
THEOREM NotificationsInvariant == Spec => []IInv
  BY InitIInv, NextIInv, PTL DEF Spec

(* Queues, sockets and descriptors always have values of their types.      *)
THEOREM NotificationsTypeOK == Spec => []TypeOK
<1>1. IInv => TypeOK
  BY DEF IInv
<1> QED
  BY <1>1, NotificationsInvariant, PTL

(* Each subscriber the store serves is told every change of the object     *)
(* table once and in order, whenever it subscribed, however small its      *)
(* socket is, however slowly it reads and however often its sends are      *)
(* interrupted; a send that fails costs only what its notification named.  *)
THEOREM NotificationsNothingLost == Spec => []NothingLostOrRepeated
<1>1. IInv => NothingLostOrRepeated
  BY DEF IInv
<1> QED
  BY <1>1, NotificationsInvariant, PTL

(* Between two handlers a queue is waiting if and only if its callback is  *)
(* registered: none is forgotten, and none runs for nothing.               *)
THEOREM NotificationsCallbacks == Spec => []CallbackIffPending
<1>1. IInv => CallbackIffPending
  BY NoFdAssumption DEF IInv, TypeOK, CallbackInv, CallbackIffPending, Idle
<1> QED
  BY <1>1, NotificationsInvariant, PTL

(* Only when a subscriber has hung up does a callback look for a queue     *)
(* that is no longer there.                                                *)
THEOREM NotificationsCrash == Spec => []CrashNeedsHangUp
<1>1. IInv => CrashNeedsHangUp
  BY DEF IInv
<1> QED
  BY <1>1, NotificationsInvariant, PTL

=============================================================================

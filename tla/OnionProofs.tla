----------------------------- MODULE OnionProofs -----------------------------
(***************************************************************************)
(* Proofs about the way of a message, for any number of users, messages,   *)
(* relays, lists and restarts, and for any keyrings: the text comes out    *)
(* only at its recipient, at most once; no relay sees who writes to whom;  *)
(* a finished packet leads to its recipient; a thread hangs for ever only  *)
(* where a recipient's key was missing, or a frame was cut or a file       *)
(* closed in use.                                                          *)
(***************************************************************************)
EXTENDS Onion, SequenceTheorems, FiniteSetTheorems, TLAPS

\* What serving, joining and ending a queue do to its elements.
LEMMA QueueSets ==
    ASSUME NEW S, NEW s \in Seq(S)
    PROVE  /\ Len(s) \in Nat /\ DOMAIN s = 1 .. Len(s) /\ ToSet(s) \subseteq S
           /\ \A i \in DOMAIN s : s[i] \in ToSet(s) /\ s[i] \in S
           /\ s # <<>> => /\ Head(s) \in ToSet(s) /\ Head(s) = s[1] /\ Head(s) \in S
                          /\ Len(s) >= 1
                          /\ Tail(s) \in Seq(S) /\ Len(Tail(s)) = Len(s) - 1
                          /\ DOMAIN Tail(s) = 1 .. Len(s) - 1
                          /\ \A i \in 1 .. Len(s) - 1 : Tail(s)[i] = s[i + 1]
                          /\ ToSet(Tail(s)) \subseteq ToSet(s)
           /\ \A e \in S : /\ Append(s, e) \in Seq(S)
                           /\ DOMAIN Append(s, e) = 1 .. Len(s) + 1
                           /\ \A i \in 1 .. Len(s) : Append(s, e)[i] = s[i]
                           /\ Append(s, e)[Len(s) + 1] = e
                           /\ ToSet(Append(s, e)) \subseteq ToSet(s) \cup {e}
  <1>1. /\ Len(s) \in Nat /\ DOMAIN s = 1 .. Len(s)
        /\ \A i \in 1 .. Len(s) : s[i] \in S
    BY LenProperties, ElementOfSeq
  <1>2. /\ ToSet(s) \subseteq S
        /\ \A i \in DOMAIN s : s[i] \in ToSet(s)
    BY <1>1 DEF ToSet
  <1>3. ASSUME s # <<>>
        PROVE  /\ Head(s) \in ToSet(s) /\ Head(s) = s[1] /\ Head(s) \in S
               /\ Len(s) >= 1
               /\ Tail(s) \in Seq(S) /\ Len(Tail(s)) = Len(s) - 1
               /\ DOMAIN Tail(s) = 1 .. Len(s) - 1
               /\ \A i \in 1 .. Len(s) - 1 : Tail(s)[i] = s[i + 1]
               /\ ToSet(Tail(s)) \subseteq ToSet(s)
    <2>1. /\ Head(s) \in S /\ Head(s) = s[1]
          /\ Tail(s) \in Seq(S) /\ Len(Tail(s)) = Len(s) - 1 /\ Len(s) >= 1
      BY <1>1, <1>3, HeadTailProperties, EmptySeq
    <2>2. /\ DOMAIN Tail(s) = 1 .. Len(s) - 1
          /\ \A i \in 1 .. Len(s) - 1 : Tail(s)[i] = s[i + 1]
      BY <1>3, <2>1, HeadTailProperties, LenProperties
    <2>3. \A i \in 1 .. Len(s) - 1 : i + 1 \in DOMAIN s
      BY <1>1
    <2>4. ToSet(Tail(s)) \subseteq ToSet(s)
      BY <1>1, <2>2, <2>3 DEF ToSet
    <2>5. QED
      BY <1>1, <1>2, <2>1, <2>2, <2>4
  <1>4. ASSUME NEW e \in S
        PROVE  /\ Append(s, e) \in Seq(S)
               /\ DOMAIN Append(s, e) = 1 .. Len(s) + 1
               /\ \A i \in 1 .. Len(s) : Append(s, e)[i] = s[i]
               /\ Append(s, e)[Len(s) + 1] = e
               /\ ToSet(Append(s, e)) \subseteq ToSet(s) \cup {e}
    <2> DEFINE t == Append(s, e)
    <2>1. /\ t \in Seq(S)
          /\ Len(t) = Len(s) + 1
          /\ \A i \in 1 .. Len(s) : t[i] = s[i]
          /\ t[Len(s) + 1] = e
      BY AppendProperties
    <2>2. DOMAIN t = 1 .. Len(s) + 1
      BY <2>1, LenProperties
    <2> HIDE DEF t
    <2>3. \A i \in 1 .. Len(s) + 1 : i = Len(s) + 1 \/ i \in 1 .. Len(s)
      BY <1>1
    <2>4. ToSet(t) \subseteq ToSet(s) \cup {e}
      BY <1>1, <2>1, <2>2, <2>3 DEF ToSet
    <2>5. QED
      BY <2>1, <2>2, <2>4 DEF t
  <1>5. QED
    BY <1>1, <1>2, <1>3, <1>4

LEMMA NothingQueued ==
    ASSUME NEW S
    PROVE  <<>> \in Seq(S) /\ ToSet(<<>>) = {} /\ Len(<<>>) = 0 /\ DOMAIN <<>> = {}
  <1>1. <<>> \in Seq(S) /\ Len(<<>>) = 0
    BY EmptySeq
  <1>2. DOMAIN <<>> = 1 .. 0
    BY <1>1, LenProperties
  <1>3. QED
    BY <1>1, <1>2 DEF ToSet

\* The last of a route and the rest of it.
LEMMA LastAndFront ==
    ASSUME NEW S, NEW s \in Seq(S), s # <<>>
    PROVE  /\ Last(s) \in S /\ Last(s) = s[Len(s)] /\ Last(s) \in ToSet(s)
           /\ Len(s) \in Nat /\ Len(s) >= 1 /\ DOMAIN s = 1 .. Len(s)
           /\ Front(s) \in Seq(S) /\ Len(Front(s)) = Len(s) - 1
           /\ DOMAIN Front(s) = 1 .. Len(s) - 1
           /\ \A i \in 1 .. Len(s) - 1 : Front(s)[i] = s[i]
           /\ ToSet(Front(s)) \subseteq ToSet(s)
           /\ Front(s) = <<>> <=> Len(s) = 1
           /\ IsInjective(s) => IsInjective(Front(s)) /\ Last(s) \notin ToSet(Front(s))
  <1>1. /\ Len(s) \in Nat /\ DOMAIN s = 1 .. Len(s) /\ Len(s) >= 1
        /\ \A i \in 1 .. Len(s) : s[i] \in S
    BY LenProperties, ElementOfSeq, EmptySeq
  <1>2. /\ Front(s) \in Seq(S) /\ Len(Front(s)) = Len(s) - 1
        /\ \A i \in 1 .. Len(s) - 1 : Front(s)[i] = s[i]
    <2>1. \A i \in 1 .. Len(s) - 1 : s[i] \in S
      BY <1>1
    <2>2. Len(s) - 1 \in Int
      BY <1>1
    <2>3. /\ Front(s) \in Seq(S)
          /\ Len(Front(s)) = IF 1 <= Len(s) - 1 THEN Len(s) - 1 - 1 + 1 ELSE 0
          /\ \A i \in 1 .. (Len(s) - 1) - 1 + 1 : Front(s)[i] = s[1 + i - 1]
      BY <2>1, <2>2, SubSeqProperties DEF Front
    <2> DEFINE n == Len(s)
               t == Front(s)
    <2> HIDE DEF n, t
    <2>4. n \in Nat /\ n >= 1
      BY <1>1 DEF n
    <2>5. \A i \in 1 .. n - 1 : i \in 1 .. (n - 1) - 1 + 1 /\ 1 + i - 1 = i
      BY <2>4
    <2>6. /\ t \in Seq(S) /\ Len(t) = IF 1 <= n - 1 THEN n - 1 - 1 + 1 ELSE 0
          /\ \A i \in 1 .. (n - 1) - 1 + 1 : t[i] = s[1 + i - 1]
      BY <2>3 DEF n, t
    <2>7. Len(t) = n - 1
      BY <2>4, <2>6
    <2>8. \A i \in 1 .. n - 1 : t[i] = s[i]
      BY <2>5, <2>6
    <2>9. QED
      BY <2>6, <2>7, <2>8 DEF n, t
  <1>3. DOMAIN Front(s) = 1 .. Len(s) - 1
    BY <1>2, LenProperties
  <1>4. Front(s) = <<>> <=> Len(s) = 1
    BY <1>1, <1>2, EmptySeq
  <1>5. ToSet(Front(s)) \subseteq ToSet(s)
    BY <1>1, <1>2, <1>3 DEF ToSet
  <1>6. ASSUME IsInjective(s)
        PROVE  IsInjective(Front(s)) /\ Last(s) \notin ToSet(Front(s))
    <2>1. IsInjective(Front(s))
      BY <1>1, <1>2, <1>3, <1>6 DEF IsInjective
    <2>2. \A i \in 1 .. Len(s) - 1 : s[i] # s[Len(s)]
      BY <1>1, <1>6 DEF IsInjective
    <2>3. QED
      BY <1>2, <1>3, <2>1, <2>2 DEF ToSet, Last
  <1>7. QED
    BY <1>1, <1>2, <1>3, <1>4, <1>5, <1>6 DEF Last, ToSet

\* A layer around others.
LEMMA OneMoreLayer ==
    ASSUME NEW S, NEW s \in Seq(S), NEW e \in S
    PROVE  /\ <<e>> \o s \in Seq(S) /\ Len(<<e>> \o s) = Len(s) + 1
           /\ (<<e>> \o s)[1] = e
           /\ \A i \in 1 .. Len(s) : (<<e>> \o s)[i + 1] = s[i]
  <1>1. <<e>> \in Seq(S) /\ Len(<<e>>) = 1 /\ <<e>>[1] = e
    OBVIOUS
  <1>2. Len(s) \in Nat
    BY LenProperties
  <1>3. /\ <<e>> \o s \in Seq(S) /\ Len(<<e>> \o s) = Len(<<e>>) + Len(s)
        /\ \A i \in 1 .. Len(<<e>>) + Len(s) :
              (<<e>> \o s)[i] = IF i <= Len(<<e>>) THEN <<e>>[i] ELSE s[i - Len(<<e>>)]
    BY <1>1, ConcatProperties
  <1> DEFINE t == <<e>> \o s
  <1> HIDE DEF t
  <1>4. /\ Len(t) = Len(s) + 1
        /\ \A i \in 1 .. 1 + Len(s) : t[i] = IF i <= 1 THEN <<e>>[i] ELSE s[i - 1]
    BY <1>1, <1>2, <1>3 DEF t
  <1>5. t[1] = e
    BY <1>1, <1>2, <1>4
  <1>6. \A i \in 1 .. Len(s) : t[i + 1] = s[i]
    BY <1>2, <1>4
  <1>7. QED
    BY <1>3, <1>4, <1>5, <1>6 DEF t


-----------------------------------------------------------------------------
(* The operators of Onion.                                                 *)

\* One round keeps the text and leaves a packet with a layer: a new one around
\* what there was if the key is there, else the last one under a new header; and
\* nothing only if the very first key is missing (messanger.cc:97-121).
Wrapped(w, p, keys, from, to) ==
    \/ w = NoFile /\ p.layers = <<>> /\ to \notin keys
    \/ /\ w \in Packet /\ w # NoFile /\ w.text = p.text /\ w.layers # <<>>
       /\ w.layers[1].from = from /\ w.layers[1].to = to
       /\ \/ /\ to \in keys
             /\ Len(w.layers) = Len(p.layers) + 1
             /\ w.layers[1].key = to
             /\ \A i \in 1 .. Len(p.layers) : w.layers[i + 1] = p.layers[i]
          \/ /\ to \notin keys /\ p.layers # <<>>
             /\ Len(w.layers) = Len(p.layers)
             /\ w.layers[1].key = p.layers[1].key
             /\ \A i \in 2 .. Len(p.layers) : w.layers[i] = p.layers[i]

LEMMA WrapProperties ==
    ASSUME NEW p \in Packet, NEW keys, NEW from \in Name, NEW to \in Name,
           NEW w, w = Wrap(p, keys, from, to)
    PROVE  Wrapped(w, p, keys, from, to)
  <1>1. p # NoFile /\ p.layers \in Seq(Layer) /\ p.text \in Text
    BY OnionAssumption DEF Packet
  <1>2. CASE to \in keys
    <2> DEFINE e == [from |-> from, to |-> to, key |-> to]
    <2>1. e \in Layer
      BY DEF Layer
    <2>2. w = [p EXCEPT !.layers = <<e>> \o p.layers]
      BY <1>1, <1>2 DEF Wrap
    <2>3. w.layers = <<e>> \o p.layers /\ w.text = p.text
      BY <2>2 DEF Packet
    <2>4. /\ w.layers \in Seq(Layer) /\ Len(w.layers) = Len(p.layers) + 1
          /\ w.layers[1] = e
          /\ \A i \in 1 .. Len(p.layers) : w.layers[i + 1] = p.layers[i]
      BY <1>1, <2>1, <2>3, OneMoreLayer
    <2>5. w \in Packet
      BY <2>2, <2>3, <2>4 DEF Packet
    <2>6. Len(w.layers) # 0
      <3>1. Len(p.layers) \in Nat
        BY <1>1, LenProperties
      <3>2. QED
        BY <2>4, <3>1
    <2>7. w.layers # <<>>
      BY <2>6, EmptySeq
    <2>8. w # NoFile
      BY <2>5, OnionAssumption
    <2>9. /\ e.from = from /\ e.to = to /\ e.key = to
      OBVIOUS
    <2>10. QED
      BY <1>2, <2>3, <2>4, <2>5, <2>7, <2>8, <2>9 DEF Wrapped
  <1>3. CASE to \notin keys /\ p.layers = <<>>
    BY <1>1, <1>3 DEF Wrap, Wrapped
  <1>4. CASE to \notin keys /\ p.layers # <<>>
    <2> DEFINE l == p.layers
               e == [from |-> from, to |-> to, key |-> l[1].key]
    <2>1. l \in Seq(Layer) /\ Len(l) \in Nat /\ Len(l) >= 1 /\ l[1] \in Layer
      BY <1>1, <1>4, QueueSets
    <2>2. e \in Layer
      BY <2>1 DEF Layer
    <2>3. w = [p EXCEPT !.layers[1] = e]
      BY <1>1, <1>4 DEF Wrap
    <2>4. w.layers = [l EXCEPT ![1] = e] /\ w.text = p.text
      BY <2>3 DEF Packet
    <2> HIDE DEF l, e
    <2>5. /\ w.layers \in Seq(Layer) /\ Len(w.layers) = Len(l)
          /\ w.layers[1] = e
          /\ \A i \in 2 .. Len(l) : w.layers[i] = l[i]
      BY <2>1, <2>2, <2>4, ExceptSeq
    <2>6. w \in Packet
      BY <2>3, <2>4, <2>5 DEF Packet
    <2>7. w.layers # <<>>
      BY <2>1, <2>5, EmptySeq
    <2>8. w # NoFile
      BY <2>6, OnionAssumption
    <2>9. /\ e.from = from /\ e.to = to /\ e.key = l[1].key
      BY DEF e
    <2>10. QED
      BY <1>4, <2>4, <2>5, <2>6, <2>7, <2>8, <2>9 DEF l, Wrapped
  <1>5. QED
    BY <1>2, <1>3, <1>4

\* Decrypting takes the outermost layer off.
LEMMA PeelProperties ==
    ASSUME NEW p \in Packet, p.layers # <<>>
    PROVE  /\ Peel(p) \in Packet /\ Peel(p) # NoFile /\ Peel(p).text = p.text
           /\ Len(p.layers) \in Nat /\ Len(p.layers) >= 1
           /\ p.layers[1] \in Layer /\ Head(p.layers) = p.layers[1]
           /\ Peel(p).layers \in Seq(Layer)
           /\ Len(Peel(p).layers) = Len(p.layers) - 1
           /\ \A i \in 1 .. Len(p.layers) - 1 : Peel(p).layers[i] = p.layers[i + 1]
           /\ Peel(p).layers = <<>> <=> Len(p.layers) = 1
           /\ Inner(p) = IF Len(p.layers) = 1 THEN p.text ELSE HeaderOf(p.layers[2])
           /\ Inner(p) \in Header \cup Text
  <1>1. p.layers \in Seq(Layer) /\ p.text \in Text
    BY DEF Packet
  <1>2. /\ Len(p.layers) \in Nat /\ Len(p.layers) >= 1
        /\ p.layers[1] \in Layer /\ Head(p.layers) = p.layers[1]
        /\ Tail(p.layers) \in Seq(Layer) /\ Len(Tail(p.layers)) = Len(p.layers) - 1
        /\ \A i \in 1 .. Len(p.layers) - 1 : Tail(p.layers)[i] = p.layers[i + 1]
    BY <1>1, QueueSets
  <1>3. Peel(p).layers = Tail(p.layers) /\ Peel(p).text = p.text /\ Peel(p) \in Packet
    BY <1>1, <1>2 DEF Peel, Packet
  <1>4. Peel(p) # NoFile
    BY <1>3, OnionAssumption
  <1>5. Tail(p.layers) = <<>> <=> Len(p.layers) = 1
    <2> DEFINE t == Tail(p.layers)
    <2>1. t \in Seq(Layer) /\ Len(t) = Len(p.layers) - 1
      BY <1>2
    <2> HIDE DEF t
    <2>2. t = <<>> <=> Len(t) = 0
      BY <2>1, EmptySeq
    <2>3. QED
      BY <1>2, <2>1, <2>2 DEF t
  <1>6. ASSUME Len(p.layers) # 1
        PROVE  Inner(p) = HeaderOf(p.layers[2]) /\ HeaderOf(p.layers[2]) \in Header
    <2>1. Head(Tail(p.layers)) = Tail(p.layers)[1] /\ Tail(p.layers)[1] = p.layers[2]
          /\ Tail(p.layers)[1] \in Layer
      BY <1>2, <1>5, <1>6, QueueSets
    <2>2. QED
      BY <1>3, <1>5, <1>6, <2>1 DEF Inner, HeaderOf, Header, Layer
  <1>7. QED
    BY <1>1, <1>2, <1>3, <1>4, <1>5, <1>6 DEF Inner

\* A path goes from the sender through others, each once, to the recipient; with
\* two others or more in the list, and two relays allowed, it has two or more
\* (util.cc:172-214).
LongWay(route, nodelist, from, to) ==
    /\ route \in Seq(Name) /\ route # <<>>
    /\ route[1] = from /\ Last(route) = to /\ route[2] \in Name
    /\ IsInjective(route)
    /\ MaxRelays >= 2 /\ ~(Cardinality(nodelist \ {from, to}) < 2) => Len(route) >= 4

LEMMA PathProperties ==
    ASSUME NEW nodelist \in SUBSET Name, NEW from \in Name, NEW to \in Name, from # to,
           NEW route, route \in generate_path(nodelist, from, to)
    PROVE  LongWay(route, nodelist, from, to)
  <1> DEFINE others == nodelist \ {from, to}
             count  == Smaller(Cardinality(others), MaxRelays)
  <1>1. Cardinality(others) \in Nat
    <2>1. others \in SUBSET Name
      OBVIOUS
    <2>2. IsFiniteSet(others)
      BY <2>1, OnionAssumption, FS_Subset
    <2>3. QED
      BY <2>2, FS_CardinalityType
  <1>2. /\ count \in Nat
        /\ MaxRelays >= 2 /\ ~(Cardinality(others) < 2) => count >= 2
    BY <1>1, OnionAssumption DEF Smaller
  <1>3. PICK r \in [1 .. count -> others] : IsInjective(r) /\ route = (<<from>> \o r) \o <<to>>
    BY DEF generate_path
  <1> HIDE DEF others, count
  <1>4. r \in Seq(others) /\ others \subseteq Name
    BY <1>2, <1>3, SeqDef DEF others
  <1>5. r \in Seq(Name) /\ Len(r) = count
    <2>1. r \in [1 .. count -> Name]
      BY <1>3, <1>4
    <2>2. r \in Seq(Name)
      BY <1>2, <2>1, SeqDef
    <2>3. DOMAIN r = 1 .. Len(r) /\ DOMAIN r = 1 .. count /\ Len(r) \in Nat
      BY <1>3, <2>2, LenProperties
    <2>4. QED
      BY <1>2, <2>2, <2>3
  <1>6. /\ <<from>> \o r \in Seq(Name) /\ Len(<<from>> \o r) = count + 1
        /\ (<<from>> \o r)[1] = from
        /\ \A i \in 1 .. count : (<<from>> \o r)[i + 1] = r[i]
    BY <1>5, OneMoreLayer
  <1> DEFINE s == <<from>> \o r
             u == <<to>>
  <1>7. /\ u \in Seq(Name) /\ Len(u) = 1 /\ u[1] = to
    OBVIOUS
  <1>8. /\ route \in Seq(Name) /\ Len(route) = Len(s) + Len(u)
        /\ \A i \in 1 .. Len(s) + Len(u) :
              route[i] = IF i <= Len(s) THEN s[i] ELSE u[i - Len(s)]
    BY <1>3, <1>6, <1>7, ConcatProperties DEF s
  <1> HIDE DEF s, u
  <1>9. /\ Len(route) = count + 2
        /\ \A i \in 1 .. count + 2 :
              route[i] = IF i <= count + 1 THEN s[i] ELSE u[i - (count + 1)]
    BY <1>2, <1>6, <1>7, <1>8 DEF s
  <1>10. route[1] = from
    BY <1>2, <1>6, <1>9 DEF s
  <1>11. route[count + 2] = to
    BY <1>2, <1>7, <1>9
  <1>12. \A i \in 1 .. count + 2 : i # 1 /\ i # count + 2 =>
            i - 1 \in 1 .. count /\ route[i] = r[i - 1] /\ r[i - 1] \in others
    <2> SUFFICES ASSUME NEW i \in 1 .. count + 2, i # 1, i # count + 2
                 PROVE  i - 1 \in 1 .. count /\ route[i] = r[i - 1] /\ r[i - 1] \in others
      OBVIOUS
    <2>1. i - 1 \in 1 .. count /\ i <= count + 1 /\ (i - 1) + 1 = i
      BY <1>2
    <2>2. route[i] = s[i]
      BY <1>9, <2>1
    <2>3. s[(i - 1) + 1] = r[i - 1]
      BY <1>6, <2>1 DEF s
    <2>4. QED
      BY <1>3, <2>1, <2>2, <2>3
  <1>13. DOMAIN route = 1 .. count + 2
    BY <1>8, <1>9, LenProperties
  <1>14. from \notin others /\ to \notin others
    BY DEF others
  <1>15. IsInjective(route)
    <2> SUFFICES ASSUME NEW a \in 1 .. count + 2, NEW b \in 1 .. count + 2,
                        route[a] = route[b]
                 PROVE  a = b
      BY <1>13 DEF IsInjective
    <2>1. CASE a = 1 \/ a = count + 2 \/ b = 1 \/ b = count + 2
      BY <1>2, <1>10, <1>11, <1>12, <1>14, <2>1
    <2>2. CASE a # 1 /\ a # count + 2 /\ b # 1 /\ b # count + 2
      <3>1. r[a - 1] = r[b - 1] /\ a - 1 \in DOMAIN r /\ b - 1 \in DOMAIN r
        BY <1>3, <1>12, <2>2
      <3>2. a - 1 = b - 1
        BY <1>3, <3>1 DEF IsInjective
      <3>3. QED
        BY <1>2, <3>2
    <2>3. QED
      BY <2>1, <2>2
  <1>16. route[2] \in Name
    BY <1>2, <1>8, <1>9, ElementOfSeq
  <1>17. route # <<>>
    BY <1>2, <1>9, EmptySeq
  <1>18. QED
    BY <1>2, <1>8, <1>9, <1>10, <1>11, <1>15, <1>16, <1>17 DEF Last, LongWay, others, count

-----------------------------------------------------------------------------
(* Types.                                                                  *)

LEMMA Lists ==
    /\ <<>> \in List
    /\ \A l \in List, id \in Name : /\ WithPhantom(l, id) \in List
                                    /\ DOMAIN l \in SUBSET Name
                                    /\ Lookup(l, id) \in Addr \cup {NoAddr}
    /\ \A a : Reachable(a) => a \in Addr
  <1>1. <<>> \in List
    <2>1. <<>> \in Seq(Addr \cup {NoAddr}) /\ Len(<<>>) = 0
      BY EmptySeq
    <2>2. <<>> \in [1 .. 0 -> Addr \cup {NoAddr}]
      BY <2>1, LenProperties
    <2>3. 1 .. 0 \in SUBSET Name
      OBVIOUS
    <2>4. QED
      BY <2>2, <2>3 DEF List
  <1>2. ASSUME NEW l \in List, NEW id \in Name
        PROVE  /\ WithPhantom(l, id) \in List
               /\ DOMAIN l \in SUBSET Name
               /\ Lookup(l, id) \in Addr \cup {NoAddr}
    <2>1. PICK D \in SUBSET Name : l \in [D -> Addr \cup {NoAddr}]
      BY DEF List
    <2>2. WithPhantom(l, id) \in [D \cup {id} -> Addr \cup {NoAddr}]
      BY <2>1 DEF WithPhantom
    <2>3. D \cup {id} \in SUBSET Name
      BY <2>1
    <2>4. QED
      BY <2>1, <2>2, <2>3 DEF List, Lookup
  <1>3. ASSUME NEW a, Reachable(a)
        PROVE  a \in Addr
    BY <1>3, OnionAssumption DEF Reachable
  <1>4. QED
    BY <1>1, <1>2, <1>3

\* What a UI thread is doing, and what a packet of TypeOK is.
LEMMA OutKinds ==
    ASSUME TypeOK, NEW n \in Name
    PROVE  /\ out[n].at = "sending" => /\ out[n] \in Sending
                                       /\ out[n].file # NoFile => out[n].file \in Packet
           /\ out[n].at # "sending" => out[n].at \in {"idle", "writing", "closing", "spins"}
           /\ out[n].at = "writing" => out[n].addr \in Addr
           /\ Idle.at = "idle" /\ Closing.at = "closing"
           /\ \A a \in Addr : Writing(a).at = "writing"
           /\ \A a \in Addr \cup {NoAddr} : Spins(a).at = "spins"
  BY DEF TypeOK, Idle, Writing, Closing, Spins, Sending

\* A packet in a queue.
LEMMA Queued ==
    ASSUME TypeOK, NEW n \in Name
    PROVE  /\ Home[n] \in Addr
           /\ inq[Home[n]] \in Seq(Packet \cup {NoFile})
           /\ inq[Home[n]] # <<>> =>
                 /\ Head(inq[Home[n]]) \in Packet \cup {NoFile}
                 /\ Head(inq[Home[n]]) # NoFile => /\ Head(inq[Home[n]]) \in Waiting
                                                   /\ Head(inq[Home[n]]) \in Packet
                 /\ Tail(inq[Home[n]]) \in Seq(Packet \cup {NoFile})
           /\ \A p \in Waiting : p \in Packet
  <1>1. Home[n] \in Addr /\ inq[Home[n]] \in Seq(Packet \cup {NoFile})
    BY OnionAssumption DEF TypeOK
  <1> DEFINE s == inq[Home[n]]
  <1> HIDE DEF s
  <1>2. s # <<>> => /\ Head(s) \in ToSet(s) /\ Head(s) \in Packet \cup {NoFile}
                    /\ Tail(s) \in Seq(Packet \cup {NoFile})
    BY <1>1, QueueSets DEF s
  <1>3. Head(s) \in ToSet(s) /\ Head(s) # NoFile => Head(s) \in Waiting
    BY <1>1 DEF Waiting, s
  <1>4. \A a \in Addr : ToSet(inq[a]) \subseteq Packet \cup {NoFile}
    <2> SUFFICES ASSUME NEW a \in Addr
                 PROVE  ToSet(inq[a]) \subseteq Packet \cup {NoFile}
      OBVIOUS
    <2>1. inq[a] \in Seq(Packet \cup {NoFile})
      BY DEF TypeOK
    <2>2. QED
      BY <2>1, QueueSets
  <1>5. \A p \in Waiting : p \in Packet
    BY <1>4 DEF Waiting
  <1>6. QED
    BY <1>1, <1>2, <1>3, <1>5 DEF s

\* The message that is written and the way it will go.
LEMMA Composed ==
    ASSUME TypeOK, NEW n \in Name, Compose(n)
    PROVE  \E m \in Script \ sent :
              \E route \in generate_path(DOMAIN list[n], n, m.to), q \in Sending :
                 /\ m \in Text /\ m.from = n /\ m.to \in Name /\ n # m.to
                 /\ DOMAIN list[n] \in SUBSET Name
                 /\ q.route = route /\ q.temp_from = m.to
                 /\ q.file \in Packet /\ q.file # NoFile
                 /\ q.file.layers = <<>> /\ q.file.text = m
                 /\ out[n] = Idle /\ out' = [out EXCEPT ![n] = q]
                 /\ sent' = sent \cup {m} /\ thin' = thin \cup Noted(n, m)
  <1>1. PICK m \in Script \ sent :
               \E route \in generate_path(DOMAIN list[n], n, m.to) :
                  /\ m.from = n
                  /\ out' = [out EXCEPT ![n] =
                               [at |-> "sending", route |-> route,
                                temp_from |-> Last(route), next |-> route[2],
                                file |-> [layers |-> <<>>,
                                          text |-> [m EXCEPT !.from = route[1],
                                                             !.to = Last(route)]]]]
                  /\ sent' = sent \cup {m} /\ thin' = thin \cup Noted(n, m)
    BY DEF Compose
  <1>2. PICK route \in generate_path(DOMAIN list[n], n, m.to) :
                  /\ m.from = n
                  /\ out' = [out EXCEPT ![n] =
                               [at |-> "sending", route |-> route,
                                temp_from |-> Last(route), next |-> route[2],
                                file |-> [layers |-> <<>>,
                                          text |-> [m EXCEPT !.from = route[1],
                                                             !.to = Last(route)]]]]
                  /\ sent' = sent \cup {m} /\ thin' = thin \cup Noted(n, m)
    BY <1>1
  <1>3. m \in Text /\ m.to \in Name /\ n # m.to
    BY <1>2, OnionAssumption DEF Text
  <1>4. DOMAIN list[n] \in SUBSET Name
    BY Lists DEF TypeOK
  <1>5. /\ route \in Seq(Name) /\ route[1] = n /\ Last(route) = m.to /\ route[2] \in Name
    <2> DEFINE D  == DOMAIN list[n]
               to == m.to
    <2>1. D \in SUBSET Name /\ to \in Name /\ n # to /\ route \in generate_path(D, n, to)
      BY <1>3, <1>4
    <2> HIDE DEF D, to
    <2>2. LongWay(route, D, n, to)
      BY <2>1, PathProperties
    <2>3. QED
      BY <2>2 DEF to, LongWay
  <1> DEFINE f == [layers |-> <<>>, text |-> m]
             q == [at |-> "sending", route |-> route, temp_from |-> m.to,
                   next |-> route[2], file |-> f]
  <1>6. [m EXCEPT !.from = route[1], !.to = Last(route)] = m
    BY <1>2, <1>3, <1>5 DEF Text
  <1>7. f \in Packet /\ f # NoFile
    <2>1. f \in Packet
      BY <1>3, EmptySeq DEF Packet
    <2>2. QED
      BY <2>1, OnionAssumption
  <1>8. q \in Sending
    BY <1>3, <1>5, <1>7 DEF Sending
  <1>9. out' = [out EXCEPT ![n] = q]
    BY <1>2, <1>5, <1>6
  <1>10. out[n] = Idle
    BY DEF Compose
  <1>11. /\ q.route = route /\ q.temp_from = m.to /\ q.file = f
         /\ f.layers = <<>> /\ f.text = m
    OBVIOUS
  <1> HIDE DEF f, q
  <1>12. QED
    BY <1>2, <1>3, <1>4, <1>7, <1>8, <1>9, <1>10, <1>11

\* A round of the loop.
LEMMA Encapsulated ==
    ASSUME TypeOK, NEW n \in Name, Encapsulate(n)
    PROVE  \E o, q \in Sending :
              /\ o = out[n] /\ o.at = "sending" /\ o.route # <<>>
              /\ o.route \in Seq(Name) /\ o.temp_from \in Name
              /\ o.file # NoFile => o.file \in Packet
              /\ out' = [out EXCEPT ![n] = q]
              /\ q.route = Front(o.route) /\ q.temp_from = Last(o.route)
              /\ q.file = Wrap(o.file, Keys[n], Last(o.route), o.temp_from)
  <1>1. PICK o \in Sending : o = out[n] /\ o.at = "sending" /\ o.route # <<>>
    BY OutKinds DEF Encapsulate
  <1> DEFINE from == Last(o.route)
             q    == [o EXCEPT !.route = Front(o.route), !.temp_from = from,
                               !.file = Wrap(o.file, Keys[n], from, o.temp_from)]
  <1>2. out' = [out EXCEPT ![n] = q]
    BY <1>1 DEF Encapsulate
  <1>3. /\ o.route \in Seq(Name) /\ o.temp_from \in Name
        /\ o.file \in Packet \cup {NoFile}
    BY DEF Sending
  <1>4. Front(o.route) \in Seq(Name) /\ from \in Name
    BY <1>1, <1>3, LastAndFront
  <1>5. Wrap(o.file, Keys[n], from, o.temp_from) \in Packet \cup {NoFile}
    <2>1. CASE o.file = NoFile
      BY <2>1 DEF Wrap
    <2>2. CASE o.file \in Packet
      <3> DEFINE p == o.file
                 keys == Keys[n]
                 to == o.temp_from
                 w == Wrap(p, keys, from, to)
      <3>1. p \in Packet /\ to \in Name /\ from \in Name /\ w = Wrap(p, keys, from, to)
        BY <1>3, <1>4, <2>2
      <3> HIDE DEF p, keys, to, from, w
      <3>2. Wrapped(w, p, keys, from, to)
        BY <3>1, WrapProperties
      <3>3. w \in Packet \cup {NoFile}
        BY <3>2 DEF Wrapped
      <3>4. QED
        BY <3>3 DEF p, keys, to, from, w
    <2>3. QED
      BY <1>3, <2>1, <2>2
  <1>6. /\ q.route = Front(o.route) /\ q.temp_from = from
        /\ q.file = Wrap(o.file, Keys[n], from, o.temp_from)
    BY DEF Sending
  <1>7. q \in Sending
    BY <1>4, <1>5 DEF Sending
  <1> HIDE DEF q
  <1>8. QED
    BY <1>1, <1>2, <1>3, <1>6, <1>7

\* The queue that Serves, once its head is served, and once a packet joined one.
LEMMA QueueTypes ==
    ASSUME TypeOK, NEW n \in Name
    PROVE  /\ inq[Home[n]] # <<>> => Served(n) \in [Addr -> Seq(Packet \cup {NoFile})]
           /\ \A f \in [Addr -> Seq(Packet \cup {NoFile})], a \in Addr, p \in Packet \cup {NoFile} :
                 [f EXCEPT ![a] = Append(@, p)] \in [Addr -> Seq(Packet \cup {NoFile})]
  <1>1. ASSUME inq[Home[n]] # <<>>
        PROVE  Served(n) \in [Addr -> Seq(Packet \cup {NoFile})]
    <2>1. Tail(inq[Home[n]]) \in Seq(Packet \cup {NoFile})
      BY <1>1, Queued
    <2>2. inq \in [Addr -> Seq(Packet \cup {NoFile})]
      BY DEF TypeOK
    <2>3. QED
      BY <2>1, <2>2 DEF Served
  <1>2. ASSUME NEW f \in [Addr -> Seq(Packet \cup {NoFile})], NEW a \in Addr,
               NEW p \in Packet \cup {NoFile}
        PROVE  [f EXCEPT ![a] = Append(@, p)] \in [Addr -> Seq(Packet \cup {NoFile})]
    <2>1. Append(f[a], p) \in Seq(Packet \cup {NoFile})
      BY AppendProperties
    <2>2. QED
      BY <2>1
  <1>3. QED
    BY <1>1, <1>2

\* What a listener keeps of a file it could decrypt.
LEMMA Kept ==
    ASSUME TypeOK, NEW n \in Name, NEW p \in Packet, Opens(n, p)
    PROVE  /\ [outer |-> HeaderOf(Head(p.layers)), inner |-> Inner(p), of |-> p.text]
                 \in Decrypted
           /\ Inner(p).to \in Name
           /\ Peel(p) \in Packet
  <1>1. p.layers # <<>> /\ p.text \in Text
    BY DEF Opens, Packet
  <1>2. /\ Head(p.layers) \in Layer /\ Inner(p) \in Header \cup Text /\ Peel(p) \in Packet
    BY <1>1, PeelProperties
  <1>3. HeaderOf(Head(p.layers)) \in Header
    BY <1>2 DEF HeaderOf, Header, Layer
  <1>4. QED
    BY <1>1, <1>2, <1>3 DEF Decrypted, Header, Text

-----------------------------------------------------------------------------
(* Frames that are cut, files and sockets that are closed in use.          *)

\* What is in the queues, but for what will never come.
Blanks(g) ==
    /\ g \in [Addr -> Seq(Packet \cup {NoFile})]
    /\ \A a \in Addr : /\ DOMAIN g[a] = DOMAIN inq[a]
                       /\ \A i \in DOMAIN inq[a] : g[a][i] \in {inq[a][i], NoFile}

LEMMA CutBlanks ==
    ASSUME TypeOK, NEW H
    PROVE  /\ Blanks(Cut(H))
           /\ H = {} => \A a \in Addr : \A i \in DOMAIN inq[a] : Cut(H)[a][i] = inq[a][i]
  <1> DEFINE S == Packet \cup {NoFile}
             x(a, i) == IF \E h \in H : h.to = a /\ h.file = inq[a][i]
                        THEN NoFile ELSE inq[a][i]
             c(a) == [i \in 1 .. Len(inq[a]) |-> x(a, i)]
  <1>1. ASSUME NEW a \in Addr
        PROVE  /\ c(a) \in Seq(S) /\ DOMAIN c(a) = DOMAIN inq[a]
               /\ \A i \in DOMAIN inq[a] : c(a)[i] = x(a, i)
    <2>1. inq[a] \in Seq(S)
      BY DEF TypeOK
    <2>2. /\ Len(inq[a]) \in Nat /\ DOMAIN inq[a] = 1 .. Len(inq[a])
          /\ \A i \in DOMAIN inq[a] : inq[a][i] \in S
      BY <2>1, QueueSets
    <2>3. \A i \in 1 .. Len(inq[a]) : x(a, i) \in S
      BY <2>2
    <2> HIDE DEF x, S
    <2>4. c(a) \in [1 .. Len(inq[a]) -> S]
      BY <2>3
    <2>5. c(a) \in Seq(S)
      BY <2>2, <2>4, SeqDef
    <2>6. QED
      BY <2>2, <2>5 DEF S
  <1>2. Cut(H) = [a \in Addr |-> c(a)]
    BY DEF Cut
  <1> HIDE DEF c, S
  <1>3. Cut(H) \in [Addr -> Seq(S)]
    BY <1>1, <1>2
  <1>4. \A a \in Addr : Cut(H)[a] = c(a)
    BY <1>2
  <1>5. Blanks(Cut(H))
    BY <1>1, <1>3, <1>4 DEF Blanks, S
  <1>6. QED
    BY <1>1, <1>4, <1>5

\* The second close of the UI thread's TCP_Client.
LEMMA DestroyedUI ==
    ASSUME TypeOK, NEW n \in Name, DestroyUI(n)
    PROVE  /\ out' = [out EXCEPT ![n] = Idle]
           /\ UNCHANGED <<up, list, files, chat, sent, thin, stops, lists>>
           /\ torn' \in {torn, torn \cup {n}} /\ half' \subseteq half
           /\ \/ lst' = lst
              \/ lst' = [lst EXCEPT ![n] = "serves"]
              \/ n \in torn' /\ \E l \in {"closing", "wedged"} : lst' = [lst EXCEPT ![n] = l]
           /\ \/ inq' = inq
              \/ inq[Home[n]] # <<>> /\ inq' = Served(n)
              \/ n \in torn' /\ Blanks(inq')
  <1>1. /\ out' = [out EXCEPT ![n] = Idle]
        /\ UNCHANGED <<up, list, files, chat, sent, thin, stops, lists>>
    BY DEF DestroyUI
  <1>2. CASE UNCHANGED <<inq, lst, half, torn>>
    BY <1>1, <1>2
  <1>3. CASE Serves(n) /\ inq' = Served(n) /\ UNCHANGED <<lst, half, torn>>
    BY <1>1, <1>3 DEF Serves
  <1>4. CASE lst' = [lst EXCEPT ![n] = "serves"] /\ UNCHANGED <<inq, half, torn>>
    BY <1>1, <1>4
  <1>5. CASE /\ Arrived(n) /\ inq' = Served(n) /\ lst' = [lst EXCEPT ![n] = "wedged"]
             /\ torn' = torn \cup {n} /\ half' = half
    BY <1>1, <1>5 DEF Arrived, Serves
  <1>6. CASE /\ \E l \in {"closing", "wedged"} : lst' = [lst EXCEPT ![n] = l]
             /\ Tear(n, "listener")
    <2>1. /\ inq' = Cut(HalfOf(n, {"listener"})) /\ torn' = torn \cup {n}
          /\ half' = half \ HalfOf(n, {"listener"})
      BY <1>6 DEF Tear
    <2>2. Blanks(inq')
      BY <2>1, CutBlanks
    <2>3. QED
      BY <1>1, <1>6, <2>1, <2>2
  <1>7. QED
    BY <1>2, <1>3, <1>4, <1>5, <1>6 DEF DestroyUI

\* The second close of the listener's.
LEMMA DestroyedListener ==
    ASSUME TypeOK, NEW n \in Name, DestroyListener(n)
    PROVE  /\ lst' = [lst EXCEPT ![n] = "serves"]
           /\ UNCHANGED <<up, list, files, chat, sent, thin, stops, lists>>
           /\ torn' \in {torn, torn \cup {n}} /\ half' \subseteq half
           /\ \/ out' = out
              \/ out' = [out EXCEPT ![n] = Closing]
              \/ n \in torn' /\ \E a \in Addr \cup {NoAddr} : out' = [out EXCEPT ![n] = Spins(a)]
           /\ inq' = inq \/ (n \in torn' /\ Blanks(inq'))
           /\ \A k \in Name : out'[k] = out[k] \/ out'[k].at # "sending"
  <1>1. /\ lst' = [lst EXCEPT ![n] = "serves"]
        /\ UNCHANGED <<up, list, files, chat, sent, thin, stops, lists>>
    BY DEF DestroyListener
  <1> DEFINE X == {Closing} \cup {Spins(a) : a \in Addr \cup {NoAddr}}
  <1>2. ASSUME out' = out \/ \E x \in X : out' = [out EXCEPT ![n] = x]
        PROVE  \A k \in Name : out'[k] = out[k] \/ out'[k].at # "sending"
    <2>1. \A x \in X : x.at # "sending"
      BY OutKinds
    <2>2. \A k \in Name : out'[k] = out[k] \/ out'[k] \in X
      BY <1>2 DEF TypeOK
    <2>3. QED
      BY <2>1, <2>2
  <1> DEFINE R == /\ torn' \in {torn, torn \cup {n}} /\ half' \subseteq half
                  /\ \/ out' = out
                     \/ out' = [out EXCEPT ![n] = Closing]
                     \/ n \in torn' /\ \E a \in Addr \cup {NoAddr} :
                                          out' = [out EXCEPT ![n] = Spins(a)]
                  /\ inq' = inq \/ (n \in torn' /\ Blanks(inq'))
  <1>3. ASSUME UNCHANGED <<out, inq, half, torn>>
        PROVE  R
    BY <1>3
  <1>4. ASSUME out' = [out EXCEPT ![n] = Closing], UNCHANGED <<inq, half, torn>>
        PROVE  R
    BY <1>4
  <1>5. ASSUME out' = [out EXCEPT ![n] = Spins(NoAddr)], torn' = torn \cup {n},
               UNCHANGED <<inq, half>>
        PROVE  R
    BY <1>5
  <1>6. ASSUME out[n].at = "writing", Tear(n, "ui"),
               \E o \in {Closing, Spins(out[n].addr)} : out' = [out EXCEPT ![n] = o]
        PROVE  R
    <2>1. /\ inq' = Cut(HalfOf(n, {"ui"})) /\ torn' = torn \cup {n}
          /\ half' = half \ HalfOf(n, {"ui"})
      BY <1>6 DEF Tear
    <2>2. Blanks(inq')
      BY <2>1, CutBlanks
    <2>3. out[n].addr \in Addr
      BY <1>6, OutKinds
    <2>4. QED
      BY <1>6, <2>1, <2>2, <2>3
  <1>7. R
    BY <1>3, <1>4, <1>5, <1>6 DEF DestroyListener
  <1>8. out' = out \/ \E x \in X : out' = [out EXCEPT ![n] = x]
    BY <1>7
  <1> HIDE DEF X
  <1>9. QED
    BY <1>1, <1>2, <1>7, <1>8

\* The end of a messenger: its queue is gone, and the frames it was sending are
\* cut.
LEMMA Stopped ==
    ASSUME TypeOK, NEW n \in Name, Stop(n)
    PROVE  /\ \A k \in Name : out'[k] \in {Idle, Closing, out[k]}
           /\ out' = [k \in Name |-> out'[k]]
           /\ torn \subseteq torn' /\ torn' \subseteq torn \cup {n} /\ half' \subseteq half
           /\ \E g : /\ Blanks(g) /\ inq' = [g EXCEPT ![Home[n]] = <<>>]
                     /\ torn' # {} \/ \A a \in Addr : \A i \in DOMAIN inq[a] :
                                          g[a][i] = inq[a][i]
           /\ UNCHANGED <<files, sent, thin, lists>>
  <1>1. PICK freed \in SUBSET {k \in Name : out[k] = Spins(Home[n])} :
           out' = [k \in Name |-> IF k = n THEN Idle
                                 ELSE IF k \in freed THEN Closing ELSE out[k]]
    BY DEF Stop
  <1>2. /\ \A k \in Name : out'[k] \in {Idle, Closing, out[k]}
        /\ out' = [k \in Name |-> out'[k]]
    BY <1>1
  <1> DEFINE H == HalfOf(n, {"ui", "listener"})
  <1>3. /\ inq' = [Cut(H) EXCEPT ![Home[n]] = <<>>] /\ half' = half \ H
        /\ torn' = torn \cup {h.by : h \in H}
        /\ UNCHANGED <<files, sent, thin, lists>>
    BY DEF Stop
  <1>4. \A h \in H : h.by = n
    BY DEF HalfOf
  <1> HIDE DEF H
  <1>5. /\ Blanks(Cut(H))
        /\ H = {} => \A a \in Addr : \A i \in DOMAIN inq[a] : Cut(H)[a][i] = inq[a][i]
    BY CutBlanks
  <1>6. H # {} => torn' # {}
    BY <1>3
  <1>7. \E g : /\ Blanks(g) /\ inq' = [g EXCEPT ![Home[n]] = <<>>]
               /\ torn' # {} \/ \A a \in Addr : \A i \in DOMAIN inq[a] : g[a][i] = inq[a][i]
    <2>1. PICK g : g = Cut(H)
      OBVIOUS
    <2>2. /\ Blanks(g) /\ inq' = [g EXCEPT ![Home[n]] = <<>>]
          /\ torn' # {} \/ \A a \in Addr : \A i \in DOMAIN inq[a] : g[a][i] = inq[a][i]
      BY <1>3, <1>5, <1>6, <2>1
    <2>3. QED
      BY <2>2
  <1>8. torn \subseteq torn' /\ torn' \subseteq torn \cup {n} /\ half' \subseteq half
    BY <1>3, <1>4
  <1>9. QED
    BY <1>2, <1>3, <1>7, <1>8

\* Every step of the UI thread keeps the types.
LEMMA UITypes ==
    ASSUME TypeOK, NEW n \in Name, Compose(n) \/ UIThread(n)
    PROVE  TypeOK'
  <1> DEFINE Q == Packet \cup {NoFile}
             O == {Idle, Closing} \cup {Writing(a) : a \in Addr}
                     \cup {Spins(a) : a \in Addr \cup {NoAddr}} \cup Sending
             L == {"serves", "writing", "closing", "wedged"}
  <1>0. /\ out \in [Name -> O] /\ inq \in [Addr -> Seq(Q)]
        /\ list \in [Name -> List] /\ lst \in [Name -> L]
        /\ half \subseteq Half /\ torn \subseteq Name
    BY DEF TypeOK
  <1>1. CASE Compose(n)
    <2>1. PICK m \in Script \ sent, q \in Sending :
             /\ out' = [out EXCEPT ![n] = q]
             /\ sent' = sent \cup {m} /\ thin' = thin \cup Noted(n, m)
      BY <1>1, Composed
    <2>2. out' \in [Name -> O]
      BY <1>0, <2>1
    <2>3. sent' \subseteq Script /\ thin' \subseteq sent'
      BY <2>1 DEF TypeOK, Noted
    <2>4. UNCHANGED <<up, list, inq, lst, half, torn, files, chat, stops, lists>>
      BY <1>1 DEF Compose
    <2>5. QED
      BY <2>2, <2>3, <2>4 DEF TypeOK
  <1>2. CASE Encapsulate(n)
    <2>1. PICK q \in Sending : out' = [out EXCEPT ![n] = q]
      BY <1>2, Encapsulated
    <2>2. out' \in [Name -> O]
      BY <1>0, <2>1
    <2>3. UNCHANGED <<up, list, inq, lst, half, torn, files, chat, sent, thin, stops, lists>>
      BY <1>2 DEF Encapsulate
    <2>4. QED
      BY <2>2, <2>3 DEF TypeOK
  <1>3. CASE Transmit(n)
    <2>1. out[n] \in Sending
      BY <1>3, OutKinds DEF Transmit
    <2>2. out[n].next \in Name /\ out[n].file \in Q
      BY <2>1 DEF Sending
    <2>3. list' \in [Name -> List]
      <3>1. WithPhantom(list[n], out[n].next) \in List
        BY <1>0, <2>2, Lists
      <3>2. list' = [list EXCEPT ![n] = WithPhantom(list[n], out[n].next)]
        BY <1>3 DEF Transmit
      <3>3. QED
        BY <1>0, <3>1, <3>2
    <2> DEFINE a == Lookup(list[n], out[n].next)
               q == out[n].file
    <2>4. UNCHANGED <<up, lst, torn, files, chat, sent, thin, stops, lists>>
      BY <1>3 DEF Transmit
    <2>5. CASE Reachable(a)
      <3>1. a \in Addr
        BY <2>5, Lists
      <3>2. /\ inq' = [inq EXCEPT ![a] = Append(@, q)]
            /\ out' = [out EXCEPT ![n] = IF q = NoFile THEN Spins(a) ELSE Writing(a)]
            /\ half' = IF q = NoFile THEN half ELSE half \cup {Frame(n, "ui", a, q)}
        BY <1>3, <2>5 DEF Transmit
      <3>3. q \in Q
        BY <2>2
      <3> HIDE DEF a, q
      <3>4. inq' \in [Addr -> Seq(Q)]
        BY <1>0, <3>1, <3>2, <3>3, QueueTypes
      <3>5. out' \in [Name -> O]
        BY <1>0, <3>1, <3>2
      <3>6. half' \subseteq Half
        BY <1>0, <3>1, <3>2, <3>3 DEF Half, Frame
      <3>7. QED
        BY <2>3, <2>4, <3>4, <3>5, <3>6 DEF TypeOK
    <2>6. CASE ~Reachable(a)
      <3>1. inq' = inq /\ half' = half /\ out' = [out EXCEPT ![n] = Idle]
        BY <1>3, <2>6 DEF Transmit
      <3>2. out' \in [Name -> O]
        BY <1>0, <3>1
      <3>3. QED
        BY <2>3, <2>4, <3>1, <3>2 DEF TypeOK
    <2>7. QED
      BY <2>5, <2>6
  <1>4. CASE FinishUI(n)
    <2>1. /\ out' = [out EXCEPT ![n] = Closing] /\ half' \subseteq half
          /\ UNCHANGED <<up, list, inq, lst, torn, files, chat, sent, thin, stops, lists>>
      BY <1>4 DEF FinishUI
    <2>2. out' \in [Name -> O] /\ half' \subseteq Half
      BY <1>0, <2>1
    <2>3. QED
      BY <2>1, <2>2 DEF TypeOK
  <1>5. CASE DestroyUI(n)
    <2>1. /\ out' = [out EXCEPT ![n] = Idle]
          /\ UNCHANGED <<up, list, files, chat, sent, thin, stops, lists>>
          /\ torn' \in {torn, torn \cup {n}} /\ half' \subseteq half
          /\ lst' = lst \/ \E l \in L : lst' = [lst EXCEPT ![n] = l]
      BY <1>5, DestroyedUI
    <2>2. out' \in [Name -> O] /\ lst' \in [Name -> L] /\ half' \subseteq Half
          /\ torn' \subseteq Name
      BY <1>0, <2>1
    <2>3. inq' \in [Addr -> Seq(Q)]
      BY <1>0, <1>5, DestroyedUI, QueueTypes DEF Blanks
    <2>4. QED
      BY <2>1, <2>2, <2>3 DEF TypeOK
  <1>6. QED
    BY <1>1, <1>2, <1>3, <1>4, <1>5 DEF UIThread

\* So does every step of a listener, and of a process.
LEMMA ListenerTypes ==
    ASSUME TypeOK, NEW n \in Name, NewList(n) \/ Listener(n) \/ Stop(n) \/ Restart(n)
    PROVE  TypeOK'
  <1> DEFINE Q == Packet \cup {NoFile}
             O == {Idle, Closing} \cup {Writing(a) : a \in Addr}
                     \cup {Spins(a) : a \in Addr \cup {NoAddr}} \cup Sending
             L == {"serves", "writing", "closing", "wedged"}
             p == Head(inq[Home[n]])
  <1>0. /\ out \in [Name -> O] /\ inq \in [Addr -> Seq(Q)]
        /\ list \in [Name -> List] /\ lst \in [Name -> L]
        /\ half \subseteq Half /\ torn \subseteq Name
        /\ files \in [Name -> SUBSET Decrypted] /\ chat \in [Name -> Seq(Text)]
        /\ up \in [Name -> BOOLEAN]
    BY DEF TypeOK
  <1>1. CASE NewList(n)
    <2>1. list' \in [Name -> List]
      <3>1. PICK v \in Views : list' = [list EXCEPT ![n] = v]
        BY <1>1 DEF NewList
      <3>2. v \in List
        BY OnionAssumption
      <3>3. QED
        BY <1>0, <3>1, <3>2
    <2>2. lists' \in 0 .. MaxLists
      BY <1>1, OnionAssumption DEF NewList, TypeOK
    <2>3. UNCHANGED <<up, out, inq, lst, half, torn, files, chat, sent, thin, stops>>
      BY <1>1 DEF NewList
    <2>4. QED
      BY <2>1, <2>2, <2>3 DEF TypeOK
  <1>2. CASE ReceiveNothing(n)
    <2>1. inq' \in [Addr -> Seq(Q)]
      BY <1>2, QueueTypes DEF ReceiveNothing, Serves
    <2>2. lst' \in [Name -> L]
      BY <1>0, <1>2 DEF ReceiveNothing
    <2>3. UNCHANGED <<up, list, out, half, torn, files, chat, sent, thin, stops, lists>>
      BY <1>2 DEF ReceiveNothing
    <2>4. QED
      BY <2>1, <2>2, <2>3 DEF TypeOK
  <1>3. ASSUME Received(n)
        PROVE  /\ p \in Packet
               /\ Served(n) \in [Addr -> Seq(Q)]
               /\ UNCHANGED <<up, out, torn, sent, thin, stops, lists>>
    BY <1>3, Queued, QueueTypes DEF Received, Arrived, Serves
  <1>4. ASSUME Received(n), Opens(n, p), Keep(n, p)
        PROVE  files' \in [Name -> SUBSET Decrypted]
    BY <1>0, <1>3, <1>4, Kept DEF Keep
  <1>5. CASE Discard(n)
    <2>1. Received(n) /\ inq' = Served(n) /\ UNCHANGED <<list, lst, half, files, chat>>
      BY <1>5 DEF Discard
    <2>2. QED
      BY <1>3, <2>1 DEF TypeOK
  <1>6. CASE Forward(n)
    <2> DEFINE a == Lookup(list[n], Inner(p).to)
    <2>1. /\ Received(n) /\ Opens(n, p) /\ Keep(n, p)
          /\ list' = [list EXCEPT ![n] = WithPhantom(@, Inner(p).to)]
          /\ inq' = IF Reachable(a) THEN [Served(n) EXCEPT ![a] = Append(@, Peel(p))]
                    ELSE Served(n)
          /\ half' = IF Reachable(a)
                     THEN half \cup {Frame(n, "listener", a, Peel(p))} ELSE half
          /\ lst' = [lst EXCEPT ![n] = IF Reachable(a) THEN "writing" ELSE @]
          /\ chat' = chat
      BY <1>6 DEF Forward
    <2>2. Inner(p).to \in Name /\ Peel(p) \in Packet
      BY <1>3, <2>1, Kept
    <2>3. WithPhantom(list[n], Inner(p).to) \in List
      BY <1>0, <2>2, Lists
    <2>4. list' \in [Name -> List]
      BY <1>0, <2>1, <2>3
    <2>5. inq' \in [Addr -> Seq(Q)]
      <3>1. Served(n) \in [Addr -> Seq(Q)]
        BY <1>3, <2>1
      <3>2. CASE Reachable(a)
        <4>1. a \in Addr
          BY <3>2, Lists
        <4>2. inq' = [Served(n) EXCEPT ![a] = Append(@, Peel(p))]
          BY <2>1, <3>2
        <4> DEFINE f == Served(n)
                   r == Peel(p)
        <4>3. f \in [Addr -> Seq(Q)] /\ r \in Q /\ inq' = [f EXCEPT ![a] = Append(@, r)]
          BY <2>2, <3>1, <4>2
        <4> HIDE DEF a, f, r, p
        <4>4. QED
          BY <4>1, <4>3, QueueTypes
      <3>3. CASE ~Reachable(a)
        BY <2>1, <3>1, <3>3
      <3>4. QED
        BY <3>2, <3>3
    <2>6. lst' \in [Name -> L]
      <3> HIDE DEF a
      <3>1. QED
        BY <1>0, <2>1
    <2>7. half' \subseteq Half
      <3> DEFINE r == Peel(p)
      <3>1. Reachable(a) => a \in Addr
        BY Lists
      <3>2. /\ half' = IF Reachable(a) THEN half \cup {Frame(n, "listener", a, r)} ELSE half
            /\ r \in Packet
        BY <2>1, <2>2
      <3> HIDE DEF a, r
      <3>3. QED
        BY <1>0, <3>1, <3>2 DEF Half, Frame
    <2>8. QED
      BY <1>3, <1>4, <2>1, <2>4, <2>5, <2>6, <2>7 DEF TypeOK
  <1>7. CASE Show(n)
    <2>1. /\ Received(n) /\ Opens(n, p) /\ Keep(n, p)
          /\ inq' = Served(n) /\ UNCHANGED <<list, lst, half>>
          /\ chat' = chat \/ chat' = [chat EXCEPT ![n] = Append(@, p.text)]
      BY <1>7 DEF Show
    <2>2. p.text \in Text
      BY <1>3, <2>1 DEF Packet
    <2>3. Append(chat[n], p.text) \in Seq(Text)
      BY <1>0, <2>2, AppendProperties
    <2>4. chat' \in [Name -> Seq(Text)]
      BY <1>0, <2>1, <2>3
    <2>5. QED
      BY <1>3, <1>4, <2>1, <2>4 DEF TypeOK
  <1>8. CASE FinishListener(n)
    <2>1. /\ lst' = [lst EXCEPT ![n] = "closing"] /\ half' \subseteq half
          /\ UNCHANGED <<up, list, out, inq, torn, files, chat, sent, thin, stops, lists>>
      BY <1>8 DEF FinishListener
    <2>2. lst' \in [Name -> L] /\ half' \subseteq Half
      BY <1>0, <2>1
    <2>3. QED
      BY <2>1, <2>2 DEF TypeOK
  <1>9. CASE DestroyListener(n)
    <2>1. /\ lst' = [lst EXCEPT ![n] = "serves"]
          /\ UNCHANGED <<up, list, files, chat, sent, thin, stops, lists>>
          /\ torn' \in {torn, torn \cup {n}} /\ half' \subseteq half
          /\ \/ out' = out
             \/ \E x \in {Closing} \cup {Spins(a) : a \in Addr \cup {NoAddr}} :
                   out' = [out EXCEPT ![n] = x]
          /\ inq' = inq \/ Blanks(inq')
      BY <1>9, DestroyedListener
    <2>2. /\ out' \in [Name -> O] /\ lst' \in [Name -> L]
          /\ half' \subseteq Half /\ torn' \subseteq Name
      BY <1>0, <2>1
    <2>3. inq' \in [Addr -> Seq(Q)]
      BY <1>0, <2>1 DEF Blanks
    <2>4. QED
      BY <2>1, <2>2, <2>3 DEF TypeOK
  <1>10. CASE Stop(n)
    <2>1. /\ \A k \in Name : out'[k] \in {Idle, Closing, out[k]}
          /\ out' = [k \in Name |-> out'[k]]
          /\ torn' \subseteq torn \cup {n} /\ half' \subseteq half
          /\ \E g : Blanks(g) /\ inq' = [g EXCEPT ![Home[n]] = <<>>]
          /\ UNCHANGED <<files, sent, thin, lists>>
      BY <1>10, Stopped
    <2>2. out' \in [Name -> O] /\ torn' \subseteq Name /\ half' \subseteq Half
      BY <1>0, <2>1
    <2>3. inq' \in [Addr -> Seq(Q)]
      <3>1. PICK g : Blanks(g) /\ inq' = [g EXCEPT ![Home[n]] = <<>>]
        BY <2>1
      <3>2. g \in [Addr -> Seq(Q)] /\ <<>> \in Seq(Q)
        BY <3>1, EmptySeq DEF Blanks
      <3> HIDE DEF Q
      <3>3. QED
        BY <3>1, <3>2
    <2>4. list' \in [Name -> List]
      BY <1>0, <1>10, Lists DEF Stop
    <2>5. /\ chat' \in [Name -> Seq(Text)]
          /\ lst' \in [Name -> L]
          /\ up' \in [Name -> BOOLEAN]
      BY <1>0, <1>10, EmptySeq DEF Stop
    <2>6. stops' \in 0 .. MaxStops
      BY <1>10, OnionAssumption DEF Stop, TypeOK
    <2>7. QED
      BY <2>1, <2>2, <2>3, <2>4, <2>5, <2>6 DEF TypeOK
  <1>11. CASE Restart(n)
    <2>1. up' \in [Name -> BOOLEAN]
          /\ UNCHANGED <<list, out, inq, lst, half, torn, files, chat, sent, thin, stops, lists>>
      BY <1>0, <1>11 DEF Restart
    <2>2. QED
      BY <2>1 DEF TypeOK
  <1>12. QED
    BY <1>1, <1>2, <1>5, <1>6, <1>7, <1>8, <1>9, <1>10, <1>11 DEF Listener

\* The variables have their types throughout.
THEOREM OnionTypeCorrect == Spec => []TypeOK
  <1>1. Init => TypeOK
    <2>1. <<>> \in Seq(Packet \cup {NoFile}) /\ <<>> \in Seq(Text)
      BY EmptySeq
    <2>2. QED
      BY <2>1, OnionAssumption DEF Init, TypeOK
  <1>2. TypeOK /\ [Next]_vars => TypeOK'
    <2>1. CASE UNCHANGED vars
      BY <2>1 DEF vars, TypeOK
    <2>2. QED
      BY <2>1, UITypes, ListenerTypes DEF Next
  <1>3. QED
    BY <1>1, <1>2, PTL DEF Spec

-----------------------------------------------------------------------------
(* What is true of every packet on its way.                                *)

\* The text was sent, and the innermost layer is for its recipient.
Sealed(p) ==
    /\ p.text \in sent
    /\ p.layers # <<>> => Last(p.layers).key = p.text.to

\* Each layer is sealed for the hop it is for, and from the one before.
Linked(p) ==
    LET l == p.layers
    IN /\ \A i \in DOMAIN l : l[i].key = l[i].to
       /\ \A i \in 1 .. Len(l) - 1 : l[i + 1].from = l[i].to
       /\ Last(l) = [from |-> p.text.to, to |-> p.text.to, key |-> p.text.to]

\* Its way was made of a list with two others or more.
Wide(p) == MaxRelays >= 2 /\ p.text \notin thin

\* Only the outermost header may name the sender; then, if it can be opened by
\* the hop it is for, the next one does not name the recipient.
Veiled(p) ==
    LET l == p.layers
    IN /\ \A i \in DOMAIN l \ {1} : l[i].from # p.text.from
       /\ /\ Len(l) >= 2
          /\ l[1].from = p.text.from /\ l[1].key = l[1].to /\ l[1].to # p.text.to
          => l[2].to # p.text.to

Travels(p) ==
    /\ Sealed(p)
    /\ Keys[p.text.from] = Name => p.layers # <<>> /\ Linked(p)
    /\ Wide(p) => Veiled(p)

\* While it is made, the route that is left names none of the hops the layers
\* are for, and is still long enough for two relays to be named.
Mixed(o) ==
    LET l  == o.file.layers
        to == o.file.text.to
    IN /\ IsInjective(o.route)
       /\ o.route # <<>> => o.route[1] = o.file.text.from
       /\ l = <<>> => Len(o.route) >= 4
       /\ o.route # <<>> => \A i \in DOMAIN l : l[i].from # o.file.text.from
       /\ o.route = <<>> => Veiled(o.file)
       /\ l # <<>> => /\ o.temp_from \notin ToSet(o.route)
                      /\ to \notin ToSet(o.route)
                      /\ \A i \in DOMAIN l : l[i].key \notin ToSet(o.route)
                      /\ o.temp_from = to => Len(o.route) >= 3
                      /\ o.temp_from # to => l[1].key # o.temp_from
                      /\ l[1].to = to => Len(o.route) >= 2

MadeOf(n, o) ==
    LET p == o.file
    IN /\ p.text.from = n
       /\ Sealed(p)
       /\ p.layers = <<>> => /\ o.route # <<>> /\ Last(o.route) = p.text.to
                             /\ o.temp_from = p.text.to
       /\ p.layers # <<>> /\ Keys[n] = Name =>
             Linked(p) /\ Head(p.layers).from = o.temp_from
       /\ Wide(p) => Mixed(o)

PacketInv ==
    /\ \A p \in Waiting : Travels(p)
    /\ \A n \in Making : MadeOf(n, out[n])

\* It sent a message, and lacks the key of its recipient.
Lacks(n) == \E m \in sent : m.from = n /\ m.to \notin Keys[n]

\* One peels a packet and passes it on: it is still one that travels, as the
\* recipient itself passes on only what is its own (listen.cc:105-124).
LEMMA PeelTravels ==
    ASSUME TypeOK, NEW n \in Name, NEW p \in Packet, Travels(p), Opens(n, p),
           Inner(p).from = n
    PROVE  Travels(Peel(p))
  <1> DEFINE q  == Peel(p)
             l  == p.layers
             ql == q.layers
  <1>1. /\ q \in Packet /\ q.text = p.text
        /\ Len(l) \in Nat /\ Len(l) >= 1 /\ Head(l) = l[1] /\ l \in Seq(Layer)
        /\ ql \in Seq(Layer) /\ Len(ql) = Len(l) - 1
        /\ \A i \in 1 .. Len(l) - 1 : ql[i] = l[i + 1]
        /\ Inner(p) = IF Len(l) = 1 THEN p.text ELSE HeaderOf(l[2])
        /\ l # <<>> /\ (ql = <<>> <=> Len(l) = 1)
    BY PeelProperties DEF Opens, Packet
  <1>2. /\ p.text \in sent /\ Last(l).key = p.text.to /\ l[1].to = n /\ l[1].key = n
    BY <1>1 DEF Travels, Sealed, Opens
  <1>3. p.text.from # p.text.to
    BY <1>2, OnionAssumption DEF TypeOK
  <1>4. Len(l) # 1
    BY <1>1, <1>2, <1>3 DEF Last
  <1>5. DOMAIN l = 1 .. Len(l) /\ DOMAIN ql = 1 .. Len(l) - 1
    BY <1>1, LenProperties
  <1> HIDE DEF q, l, ql
  <1>6. ql # <<>> /\ Len(l) >= 2 /\ Last(ql) = Last(l)
    BY <1>1, <1>4 DEF Last
  <1>7. Sealed(q)
    BY <1>1, <1>2, <1>6 DEF Sealed, ql
  <1>8. ASSUME Keys[p.text.from] = Name
        PROVE  Linked(q)
    <2>1. /\ \A i \in 1 .. Len(l) : l[i].key = l[i].to
          /\ \A i \in 1 .. Len(l) - 1 : l[i + 1].from = l[i].to
          /\ Last(l) = [from |-> p.text.to, to |-> p.text.to, key |-> p.text.to]
      BY <1>5, <1>8 DEF Travels, Linked, l
    <2>2. \A i \in 1 .. Len(l) - 1 : ql[i].key = ql[i].to
      BY <1>1, <2>1
    <2>3. ASSUME NEW i \in 1 .. Len(ql) - 1
          PROVE  ql[i + 1].from = ql[i].to
      <3>1. i + 1 \in 1 .. Len(l) - 1 /\ i \in 1 .. Len(l) - 1
        BY <1>1
      <3>2. ql[i] = l[i + 1] /\ ql[i + 1] = l[(i + 1) + 1]
        BY <1>1, <3>1
      <3>3. QED
        BY <2>1, <3>1, <3>2
    <2>4. QED
      BY <1>1, <1>5, <1>6, <2>1, <2>2, <2>3 DEF Linked, ql
  <1>9. ASSUME Wide(p)
        PROVE  Veiled(q)
    <2>1. \A i \in 1 .. Len(l) : i # 1 => l[i].from # p.text.from
      BY <1>5, <1>9 DEF Travels, Veiled, l
    <2>2. \A i \in 1 .. Len(l) - 1 : ql[i].from # p.text.from
      BY <1>1, <2>1
    <2>3. ql[1].from # p.text.from
      BY <1>1, <1>6, <2>2
    <2>4. \A i \in DOMAIN ql \ {1} : ql[i].from # q.text.from
      BY <1>1, <1>5, <2>2
    <2>5. QED
      BY <1>1, <2>3, <2>4 DEF Veiled, ql
  <1>10. QED
    BY <1>1, <1>6, <1>7, <1>8, <1>9 DEF Travels, Wide, q, ql

\* What one who can open a packet learns: the text if it is the recipient, not
\* both names if it is a relay.
LEMMA OpenedRight ==
    ASSUME TypeOK, NEW n \in Name, NEW p \in Packet, Travels(p), Opens(n, p)
    PROVE  /\ Inner(p) \in Text => Inner(p) = p.text /\ p.text \in sent /\ p.text.to = n
           /\ Peel(p).layers = <<>> => p.text \in sent /\ p.text.to = n
           /\ Wide(p) /\ n \notin {p.text.from, p.text.to} =>
                 ~(HeaderOf(Head(p.layers)).from = p.text.from /\ Inner(p).to = p.text.to)
  <1> DEFINE l  == p.layers
  <1>1. /\ Len(l) \in Nat /\ Len(l) >= 1 /\ Head(l) = l[1] /\ l \in Seq(Layer)
        /\ Inner(p) = IF Len(l) = 1 THEN p.text ELSE HeaderOf(l[2])
        /\ l # <<>> /\ (Peel(p).layers = <<>> <=> Len(l) = 1)
    BY PeelProperties DEF Opens, Packet
  <1>2. /\ p.text \in sent /\ Last(l).key = p.text.to /\ l[1].to = n /\ l[1].key = n
    BY <1>1 DEF Travels, Sealed, Opens
  <1> HIDE DEF l
  <1>3. Len(l) = 1 => p.text.to = n
    BY <1>2 DEF Last
  <1>4. \A x : HeaderOf(x) \notin Text
    BY DEF HeaderOf, Text
  <1>5. ASSUME Wide(p), n \notin {p.text.from, p.text.to}
        PROVE  ~(HeaderOf(Head(p.layers)).from = p.text.from /\ Inner(p).to = p.text.to)
    <2>1. Len(l) >= 2
      <3>1. Len(l) # 1
        BY <1>3, <1>5
      <3>2. Len(l) \in Nat /\ Len(l) >= 1
        BY <1>1
      <3>3. \A k \in Nat : k >= 1 /\ k # 1 => k >= 2
        OBVIOUS
      <3>4. QED
        BY <3>1, <3>2, <3>3
    <2>2. l[1].from = p.text.from => l[2].to # p.text.to
      BY <1>2, <1>5, <2>1 DEF Travels, Veiled, l
    <2>3. HeaderOf(Head(p.layers)).from = l[1].from /\ Inner(p).to = l[2].to
      BY <1>1, <2>1 DEF HeaderOf, l
    <2>4. QED
      BY <2>2, <2>3
  <1>6. QED
    BY <1>1, <1>2, <1>3, <1>4, <1>5

\* A packet that is finished is one that travels.
LEMMA FinishedTravels ==
    ASSUME NEW n \in Name, NEW o \in Sending, MadeOf(n, o), o.route = <<>>
    PROVE  Travels(o.file)
  BY DEF MadeOf, Travels, Wide, Mixed

\* A round keeps what is true of a packet that is made, unless it finds that the
\* key of the recipient is missing (messanger.cc:97-121).
LEMMA RoundMade ==
    ASSUME TypeOK, NEW n \in Name, NEW o \in Sending, NEW q \in Sending,
           MadeOf(n, o), o.route # <<>>, o.file # NoFile,
           q.route = Front(o.route), q.temp_from = Last(o.route),
           q.file = Wrap(o.file, Keys[n], Last(o.route), o.temp_from)
    PROVE  \/ q.file = NoFile /\ Lacks(n)
           \/ q.file \in Packet /\ q.file.text = o.file.text /\ MadeOf(n, q)
  <1> DEFINE p    == o.file
             w    == q.file
             l    == p.layers
             wl   == w.layers
             R    == o.route
             T    == q.route
             to   == o.temp_from
             from == Last(R)
             keys == Keys[n]
             m    == p.text
  <1>1. /\ p \in Packet /\ l \in Seq(Layer) /\ R \in Seq(Name) /\ to \in Name
        /\ m \in Text
    BY DEF Sending, Packet
  <1>2. /\ m.from = n /\ m \in sent /\ (l # <<>> => Last(l).key = m.to)
        /\ l = <<>> => R # <<>> /\ Last(R) = m.to /\ to = m.to
        /\ l # <<>> /\ keys = Name => Linked(p) /\ Head(l).from = to
        /\ Wide(p) => Mixed(o)
    BY DEF MadeOf, Sealed
  <1>3. /\ from \in Name /\ from = R[Len(R)] /\ from \in ToSet(R)
        /\ Len(R) \in Nat /\ Len(R) >= 1 /\ DOMAIN R = 1 .. Len(R)
        /\ T \in Seq(Name) /\ Len(T) = Len(R) - 1
        /\ \A i \in 1 .. Len(R) - 1 : T[i] = R[i]
        /\ ToSet(T) \subseteq ToSet(R)
        /\ T = <<>> <=> Len(R) = 1
        /\ IsInjective(R) => IsInjective(T) /\ from \notin ToSet(T)
    <2>1. R # <<>> /\ T = Front(R)
      OBVIOUS
    <2>2. PICK s \in Seq(Name) : s = R
      BY <1>1
    <2>3. s # <<>>
      BY <2>1, <2>2
    <2>4. /\ Last(s) \in Name /\ Last(s) = s[Len(s)] /\ Last(s) \in ToSet(s)
          /\ Len(s) \in Nat /\ Len(s) >= 1 /\ DOMAIN s = 1 .. Len(s)
          /\ Front(s) \in Seq(Name) /\ Len(Front(s)) = Len(s) - 1
          /\ \A i \in 1 .. Len(s) - 1 : Front(s)[i] = s[i]
          /\ ToSet(Front(s)) \subseteq ToSet(s)
          /\ Front(s) = <<>> <=> Len(s) = 1
          /\ IsInjective(s) => IsInjective(Front(s)) /\ Last(s) \notin ToSet(Front(s))
      BY ONLY <2>3, LastAndFront, s \in Seq(Name)
    <2> HIDE DEF R, T, from
    <2>5. from = Last(s)
      BY <2>2 DEF from
    <2>6. QED
      BY <2>1, <2>2, <2>4, <2>5
  <1>4. R # <<>> /\ q.temp_from = from
    OBVIOUS
  <1>5. Len(l) \in Nat /\ DOMAIN l = 1 .. Len(l) /\ (l = <<>> <=> Len(l) = 0)
    BY <1>1, LenProperties, EmptySeq
  <1> DEFINE A == /\ to \in keys
                  /\ Len(wl) = Len(l) + 1
                  /\ wl[1].key = to
                  /\ \A i \in 1 .. Len(l) : wl[i + 1] = l[i]
             B == /\ to \notin keys /\ l # <<>>
                  /\ Len(wl) = Len(l)
                  /\ wl[1].key = l[1].key
                  /\ \A i \in 2 .. Len(l) : wl[i] = l[i]
  <1>6. \/ w = NoFile /\ l = <<>> /\ to \notin keys
        \/ /\ w \in Packet /\ w # NoFile /\ w.text = m /\ wl # <<>>
           /\ wl[1].from = from /\ wl[1].to = to
           /\ A \/ B
    <2>1. w = Wrap(p, keys, from, to)
      OBVIOUS
    <2>2. p \in Packet /\ from \in Name /\ to \in Name
      BY <1>1, <1>3
    <2> HIDE DEF p, w, keys, from, to
    <2>3. Wrapped(w, p, keys, from, to)
      BY <2>1, <2>2, WrapProperties
    <2>4. QED
      BY <2>3 DEF Wrapped
  <1> HIDE DEF p, w, l, wl, R, T, to, from, keys, m, A, B
  <1>7. CASE w = NoFile /\ l = <<>> /\ to \notin keys
    <2>1. m \in sent /\ m.to \notin Keys[m.from]
      BY <1>2, <1>7 DEF keys
    <2>2. QED
      BY <1>2, <1>7, <2>1 DEF Lacks, w
  <1>8. ASSUME w \in Packet, w.text = m, wl # <<>>,
               wl[1].from = from, wl[1].to = to, A \/ B
        PROVE  MadeOf(n, q)
    <2>1. /\ wl \in Seq(Layer) /\ Len(wl) \in Nat /\ Len(wl) >= 1
          /\ DOMAIN wl = 1 .. Len(wl) /\ Head(wl) = wl[1] /\ wl[1] \in Layer
      BY <1>8, QueueSets DEF Packet, wl
    <2>2. l = <<>> => A
      BY <1>8 DEF B
    <2>3. l # <<>> => Len(l) >= 1
      BY <1>5
    <2>4. Last(wl).key = m.to
      <3>1. CASE l = <<>>
        <4>1. Len(l) = 0 /\ A /\ to = m.to
          BY <1>2, <1>5, <2>2, <3>1
        <4>2. Len(wl) = 1 /\ wl[1].key = m.to
          BY <4>1 DEF A
        <4>3. QED
          BY <4>2 DEF Last
      <3>2. CASE l # <<>> /\ A
        <4>1. wl[Len(l) + 1] = l[Len(l)]
          BY <1>5, <2>3, <3>2 DEF A
        <4>2. QED
          BY <1>2, <3>2, <4>1 DEF A, Last
      <3>3. CASE l # <<>> /\ B
        <4>1. Len(l) = 1 \/ Len(l) \in 2 .. Len(l)
          BY <1>5, <2>3, <3>3
        <4>2. wl[Len(l)].key = l[Len(l)].key
          BY <3>3, <4>1 DEF B
        <4>3. QED
          BY <1>2, <3>3, <4>2 DEF B, Last
      <3>4. QED
        BY <1>8, <3>1, <3>2, <3>3
    <2>5. Sealed(w)
      BY <1>2, <1>8, <2>4 DEF Sealed, wl
    <2>6. ASSUME keys = Name
          PROVE  Linked(w) /\ Head(wl).from = from
      <3>1. A
        BY <1>1, <1>8, <2>6 DEF B
      <3>2. CASE l = <<>>
        <4>1. Len(wl) = 1 /\ wl[1].key = m.to /\ wl[1].to = m.to /\ wl[1].from = m.to
          BY <1>2, <1>5, <1>8, <3>1, <3>2 DEF A, from
        <4>2. wl[1] = [from |-> m.to, to |-> m.to, key |-> m.to]
          BY <2>1, <4>1 DEF Layer
        <4>3. QED
          BY <1>8, <2>1, <4>1, <4>2 DEF Linked, Last, wl
      <3>3. CASE l # <<>>
        <4>1. /\ \A i \in 1 .. Len(l) : l[i].key = l[i].to
              /\ \A i \in 1 .. Len(l) - 1 : l[i + 1].from = l[i].to
              /\ Last(l) = [from |-> m.to, to |-> m.to, key |-> m.to]
              /\ l[1].from = to
          BY <1>1, <1>2, <1>5, <2>6, <3>3, QueueSets DEF Linked, l, m
        <4>2. \A i \in 1 .. Len(wl) : i = 1 \/ (i - 1 \in 1 .. Len(l) /\ wl[i] = l[i - 1])
          <5> SUFFICES ASSUME NEW i \in 1 .. Len(wl), i # 1
                       PROVE  i - 1 \in 1 .. Len(l) /\ wl[i] = l[i - 1]
            OBVIOUS
          <5>1. i - 1 \in 1 .. Len(l) /\ (i - 1) + 1 = i
            BY <1>5, <3>1 DEF A
          <5>2. QED
            BY <3>1, <5>1 DEF A
        <4>3. ASSUME NEW i \in DOMAIN wl
              PROVE  wl[i].key = wl[i].to
          <5>1. CASE i = 1
            <6>1. wl[1].key = to /\ wl[1].to = to
              BY <1>8, <3>1 DEF A
            <6>2. QED
              BY <5>1, <6>1
          <5>2. CASE i # 1
            <6>1. i - 1 \in 1 .. Len(l) /\ wl[i] = l[i - 1]
              BY <2>1, <4>2, <5>2
            <6>2. QED
              BY <4>1, <6>1
          <5>3. QED
            BY <5>1, <5>2
        <4>4. ASSUME NEW i \in 1 .. Len(wl) - 1
              PROVE  wl[i + 1].from = wl[i].to
          <5>1. i \in 1 .. Len(l) /\ wl[i + 1] = l[i]
            BY <1>5, <3>1 DEF A
          <5>2. CASE i = 1
            BY <1>8, <4>1, <5>1, <5>2
          <5>3. CASE i # 1
            <6>1. i - 1 \in 1 .. Len(l) - 1 /\ (i - 1) + 1 = i /\ i \in 1 .. Len(wl)
              BY <1>5, <2>1, <5>1, <5>3
            <6>2. wl[i] = l[i - 1]
              BY <4>2, <5>3, <6>1
            <6>3. l[(i - 1) + 1].from = l[i - 1].to
              BY <4>1, <6>1
            <6>4. QED
              BY <5>1, <6>1, <6>2, <6>3
          <5>4. QED
            BY <5>2, <5>3
        <4>5. Last(wl) = Last(l)
          <5>1. wl[Len(l) + 1] = l[Len(l)]
            BY <1>5, <2>3, <3>1, <3>3 DEF A
          <5>2. QED
            BY <3>1, <5>1 DEF A, Last
        <4>6. QED
          BY <1>8, <2>1, <4>1, <4>3, <4>4, <4>5 DEF Linked, wl
      <3>4. QED
        BY <3>2, <3>3
    <2>7. ASSUME Wide(w)
          PROVE  Mixed(q)
      <3>1. Wide(p) /\ Mixed(o)
        BY <1>2, <1>8, <2>7 DEF Wide, m
      <3>2. /\ IsInjective(R) /\ R[1] = n
            /\ l = <<>> => Len(R) >= 4
            /\ \A i \in 1 .. Len(l) : l[i].from # n
            /\ l # <<>> => /\ to \notin ToSet(R)
                           /\ m.to \notin ToSet(R)
                           /\ \A i \in 1 .. Len(l) : l[i].key \notin ToSet(R)
                           /\ to = m.to => Len(R) >= 3
                           /\ to # m.to => l[1].key # to
                           /\ l[1].to = m.to => Len(R) >= 2
        BY <1>2, <1>4, <1>5, <3>1 DEF Mixed, R, l, m, to, p
      <3>3. IsInjective(T) /\ from \notin ToSet(T)
        BY <1>3, <3>2
      <3>4. T # <<>> => T[1] = n /\ from # n
        <4>1. ASSUME T # <<>>
              PROVE  1 \in 1 .. Len(R) - 1 /\ Len(R) # 1 /\ 1 \in DOMAIN R /\ Len(R) \in DOMAIN R
          BY <1>3, <4>1
        <4>2. QED
          BY <1>3, <3>2, <4>1 DEF IsInjective
      <3>5. \A i \in 1 .. Len(wl) : i # 1 => wl[i].from # n /\
               \E j \in 1 .. Len(l) : wl[i] = l[j]
        <4> SUFFICES ASSUME NEW i \in 1 .. Len(wl), i # 1
                     PROVE  \E j \in 1 .. Len(l) : wl[i] = l[j]
          BY <3>2
        <4>1. CASE A
          <5>1. i - 1 \in 1 .. Len(l) /\ (i - 1) + 1 = i
            BY <1>5, <4>1 DEF A
          <5>2. QED
            BY <4>1, <5>1 DEF A
        <4>2. CASE B
          <5>1. i \in 2 .. Len(l) /\ i \in 1 .. Len(l)
            BY <1>5, <4>2 DEF B
          <5>2. QED
            BY <4>2, <5>1 DEF B
        <4>3. QED
          BY <1>8, <4>1, <4>2
      <3>6. T # <<>> => \A i \in DOMAIN wl : wl[i].from # n
        BY <1>8, <2>1, <3>4, <3>5
      <3>7. T = <<>> => Veiled(w)
        <4> SUFFICES ASSUME T = <<>>
                     PROVE  Veiled(w)
          OBVIOUS
        <4>1. Len(R) = 1
          BY <1>3
        <4>2. ~(1 >= 4) /\ ~(1 >= 3) /\ ~(1 >= 2)
          OBVIOUS
        <4>3. l # <<>> /\ to # m.to /\ l[1].to # m.to /\ l[1].key # to
          BY <3>2, <4>1, <4>2
        <4>4. Len(wl) >= 2 /\ wl[1].key = wl[1].to => wl[2].to # m.to
          <5>1. CASE A
            <6>1. wl[1 + 1] = l[1] /\ 1 + 1 = 2
              BY <1>5, <2>3, <4>3, <5>1 DEF A
            <6>2. QED
              BY <4>3, <6>1
          <5>2. CASE B
            BY <1>8, <4>3, <5>2 DEF B
          <5>3. QED
            BY <1>8, <5>1, <5>2
        <4>5. \A i \in DOMAIN wl \ {1} : wl[i].from # n
          BY <2>1, <3>5
        <4>6. QED
          BY <1>2, <1>8, <4>4, <4>5 DEF Veiled, wl
      <3>8. m.to \notin ToSet(T)
        BY <1>2, <1>3, <3>2, <3>3 DEF from
      <3>9. to \notin ToSet(T)
        BY <1>2, <1>3, <3>2, <3>8
      <3>10. \A i \in DOMAIN wl : wl[i].key \notin ToSet(T)
        <4>1. \A j \in 1 .. Len(l) : l[j].key \notin ToSet(T)
          BY <1>3, <1>5, <3>2
        <4>2. wl[1].key \notin ToSet(T)
          <5>1. CASE A
            BY <3>9, <5>1 DEF A
          <5>2. CASE B
            <6>1. 1 \in 1 .. Len(l)
              BY <1>5, <2>3, <5>2 DEF B
            <6>2. QED
              BY <4>1, <5>2, <6>1 DEF B
          <5>3. QED
            BY <1>8, <5>1, <5>2
        <4>3. QED
          BY <2>1, <3>5, <4>1, <4>2
      <3>11. from = m.to => Len(T) >= 3
        <4>1. l # <<>> => from # m.to
          BY <1>3, <3>2
        <4>2. l = <<>> => Len(T) >= 3
          BY <1>3, <3>2
        <4>3. QED
          BY <4>1, <4>2
      <3>12. from # m.to => wl[1].key # from
        <4> SUFFICES ASSUME from # m.to
                     PROVE  wl[1].key # from
          OBVIOUS
        <4>1. l # <<>>
          BY <1>2 DEF from
        <4>2. CASE A
          BY <1>3, <3>2, <4>1, <4>2 DEF A
        <4>3. CASE B
          <5>1. 1 \in 1 .. Len(l)
            BY <1>5, <2>3, <4>1
          <5>2. QED
            BY <1>3, <3>2, <4>1, <4>3, <5>1 DEF B
        <4>4. QED
          BY <1>8, <4>2, <4>3
      <3>13. to = m.to => Len(T) >= 2
        <4>1. l = <<>> => Len(T) >= 2
          BY <1>3, <3>2
        <4>2. l # <<>> /\ to = m.to => Len(T) >= 2
          BY <1>3, <3>2
        <4>3. QED
          BY <4>1, <4>2
      <3>14. QED
        BY <1>2, <1>4, <1>8, <3>3, <3>4, <3>6, <3>7, <3>8, <3>10, <3>11, <3>12, <3>13
        DEF Mixed, w, wl, T
    <2>8. QED
      BY <1>2, <1>4, <1>8, <2>5, <2>6, <2>7 DEF MadeOf, w, wl, keys
  <1>9. QED
    BY <1>6, <1>7, <1>8 DEF w, wl, p, m

\* What is true of a packet stays true as messages are sent.
LEMMA StaysTrue ==
    ASSUME sent \subseteq sent', thin \subseteq thin'
    PROVE  /\ \A p : Travels(p) => Travels(p)'
           /\ \A n, o : MadeOf(n, o) => MadeOf(n, o)'
  BY DEF Travels, MadeOf, Sealed, Wide

\* The packets in the queues of a function like inq.
WaitingIn(f) == (UNION {ToSet(f[a]) : a \in Addr}) \ {NoFile}

LEMMA WaitingAfter ==
    ASSUME NEW f \in [Addr -> Seq(Packet \cup {NoFile})], NEW a \in Addr
    PROVE  /\ f[a] # <<>> => WaitingIn([f EXCEPT ![a] = Tail(@)]) \subseteq WaitingIn(f)
           /\ WaitingIn([f EXCEPT ![a] = <<>>]) \subseteq WaitingIn(f)
           /\ \A p \in Packet \cup {NoFile} :
                 WaitingIn([f EXCEPT ![a] = Append(@, p)])
                    \subseteq WaitingIn(f) \cup ({p} \ {NoFile})
  <1>1. ASSUME NEW g \in [Addr -> Seq(Packet \cup {NoFile})], NEW P,
               \A b \in Addr \ {a} : g[b] = f[b],
               ToSet(g[a]) \subseteq ToSet(f[a]) \cup P
        PROVE  WaitingIn(g) \subseteq WaitingIn(f) \cup (P \ {NoFile})
    <2> SUFFICES ASSUME NEW x \in WaitingIn(g)
                 PROVE  x \in WaitingIn(f) \cup (P \ {NoFile})
      OBVIOUS
    <2>1. PICK b \in Addr : x \in ToSet(g[b]) /\ x # NoFile
      BY DEF WaitingIn
    <2>2. x \in ToSet(f[b]) \/ x \in P
      BY <1>1, <2>1
    <2>3. QED
      BY <2>1, <2>2 DEF WaitingIn
  <1>2. ASSUME NEW s \in Seq(Packet \cup {NoFile}), NEW P,
               ToSet(s) \subseteq ToSet(f[a]) \cup P
        PROVE  WaitingIn([f EXCEPT ![a] = s]) \subseteq WaitingIn(f) \cup (P \ {NoFile})
    <2> DEFINE g == [f EXCEPT ![a] = s]
    <2>1. /\ g \in [Addr -> Seq(Packet \cup {NoFile})]
          /\ \A b \in Addr \ {a} : g[b] = f[b]
          /\ ToSet(g[a]) \subseteq ToSet(f[a]) \cup P
      BY <1>2
    <2> HIDE DEF g
    <2>2. WaitingIn(g) \subseteq WaitingIn(f) \cup (P \ {NoFile})
      BY <1>1, <2>1
    <2>3. QED
      BY <2>2 DEF g
  <1>3. ASSUME f[a] # <<>>
        PROVE  WaitingIn([f EXCEPT ![a] = Tail(@)]) \subseteq WaitingIn(f)
    <2> DEFINE s == Tail(f[a])
    <2>1. s \in Seq(Packet \cup {NoFile}) /\ ToSet(s) \subseteq ToSet(f[a]) \cup {}
      BY <1>3, QueueSets
    <2> HIDE DEF s
    <2>2. WaitingIn([f EXCEPT ![a] = s]) \subseteq WaitingIn(f) \cup ({} \ {NoFile})
      BY <1>2, <2>1
    <2>3. QED
      BY <2>2 DEF s
  <1>4. WaitingIn([f EXCEPT ![a] = <<>>]) \subseteq WaitingIn(f)
    <2> DEFINE s == <<>>
    <2>1. s \in Seq(Packet \cup {NoFile}) /\ ToSet(s) \subseteq ToSet(f[a]) \cup {}
      BY NothingQueued
    <2> HIDE DEF s
    <2>2. WaitingIn([f EXCEPT ![a] = s]) \subseteq WaitingIn(f) \cup ({} \ {NoFile})
      BY <1>2, <2>1
    <2>3. QED
      BY <2>2 DEF s
  <1>5. ASSUME NEW p \in Packet \cup {NoFile}
        PROVE  WaitingIn([f EXCEPT ![a] = Append(@, p)])
                  \subseteq WaitingIn(f) \cup ({p} \ {NoFile})
    <2> DEFINE s == Append(f[a], p)
               P == {p}
    <2>1. s \in Seq(Packet \cup {NoFile}) /\ ToSet(s) \subseteq ToSet(f[a]) \cup P
      BY QueueSets
    <2> HIDE DEF s, P
    <2>2. WaitingIn([f EXCEPT ![a] = s]) \subseteq WaitingIn(f) \cup (P \ {NoFile})
      BY <1>2, <2>1
    <2>3. QED
      BY <2>2 DEF s, P
  <1>6. QED
    BY <1>3, <1>4, <1>5

LEMMA BlankWaiting ==
    ASSUME TypeOK, NEW g, Blanks(g)
    PROVE  WaitingIn(g) \subseteq WaitingIn(inq)
  <1> SUFFICES ASSUME NEW a \in Addr, NEW p \in ToSet(g[a]), p # NoFile
               PROVE  p \in ToSet(inq[a])
    BY DEF WaitingIn
  <1>1. g[a] \in Seq(Packet \cup {NoFile}) /\ inq[a] \in Seq(Packet \cup {NoFile})
    BY DEF Blanks, TypeOK
  <1>2. PICK i \in DOMAIN g[a] : p = g[a][i]
    BY DEF ToSet
  <1>3. i \in DOMAIN inq[a] /\ p = inq[a][i]
    BY <1>2 DEF Blanks
  <1>4. QED
    BY <1>1, <1>3, QueueSets

\* A queue that is joined.
Joined(f, a, p) == [f EXCEPT ![a] = Append(@, p)]

\* The same for inq, step by step.
LEMMA WaitingServed ==
    ASSUME TypeOK, NEW n \in Name, inq[Home[n]] # <<>>, inq' = Served(n)
    PROVE  Waiting' \subseteq Waiting
  <1>1. inq \in [Addr -> Seq(Packet \cup {NoFile})] /\ Home[n] \in Addr
    BY Queued DEF TypeOK
  <1>2. WaitingIn([inq EXCEPT ![Home[n]] = Tail(@)]) \subseteq WaitingIn(inq)
    BY <1>1, WaitingAfter
  <1>3. QED
    BY <1>2 DEF Served, Waiting, WaitingIn

LEMMA WaitingJoined ==
    ASSUME TypeOK, NEW a \in Addr, NEW p \in Packet \cup {NoFile}, inq' = Joined(inq, a, p)
    PROVE  Waiting' \subseteq Waiting \cup ({p} \ {NoFile})
  <1>1. inq \in [Addr -> Seq(Packet \cup {NoFile})]
    BY DEF TypeOK
  <1>2. WaitingIn([inq EXCEPT ![a] = Append(@, p)]) \subseteq WaitingIn(inq) \cup ({p} \ {NoFile})
    BY <1>1, WaitingAfter
  <1>3. QED
    BY <1>2 DEF Joined, Waiting, WaitingIn

LEMMA WaitingPassed ==
    ASSUME TypeOK, NEW n \in Name, inq[Home[n]] # <<>>, NEW a \in Addr,
           NEW p \in Packet, inq' = Joined(Served(n), a, p)
    PROVE  Waiting' \subseteq Waiting \cup {p}
  <1> DEFINE f == Served(n)
  <1>1. inq \in [Addr -> Seq(Packet \cup {NoFile})] /\ Home[n] \in Addr
        /\ f \in [Addr -> Seq(Packet \cup {NoFile})]
    BY Queued, QueueTypes DEF TypeOK
  <1>2. WaitingIn([inq EXCEPT ![Home[n]] = Tail(@)]) \subseteq WaitingIn(inq)
    BY <1>1, WaitingAfter
  <1>3. WaitingIn(f) \subseteq WaitingIn(inq)
    BY <1>2 DEF Served
  <1>4. inq' = [f EXCEPT ![a] = Append(@, p)]
    BY DEF Joined
  <1> HIDE DEF f
  <1>5. WaitingIn([f EXCEPT ![a] = Append(@, p)]) \subseteq WaitingIn(f) \cup ({p} \ {NoFile})
    BY <1>1, WaitingAfter
  <1>6. Waiting' = WaitingIn([f EXCEPT ![a] = Append(@, p)]) /\ Waiting = WaitingIn(inq)
    BY <1>4 DEF Waiting, WaitingIn
  <1>7. QED
    BY <1>3, <1>5, <1>6

LEMMA WaitingBlank ==
    ASSUME TypeOK, Blanks(inq')
    PROVE  Waiting' \subseteq Waiting
  <1>1. PICK g : g = inq'
    OBVIOUS
  <1>2. WaitingIn(g) \subseteq WaitingIn(inq)
    BY <1>1, BlankWaiting
  <1>3. QED
    BY <1>1, <1>2 DEF Waiting, WaitingIn

LEMMA WaitingReset ==
    ASSUME TypeOK, NEW n \in Name, NEW g, Blanks(g), inq' = [g EXCEPT ![Home[n]] = <<>>]
    PROVE  Waiting' \subseteq Waiting
  <1>1. g \in [Addr -> Seq(Packet \cup {NoFile})] /\ Home[n] \in Addr
    BY Queued DEF Blanks
  <1>2. WaitingIn([g EXCEPT ![Home[n]] = <<>>]) \subseteq WaitingIn(g)
    BY <1>1, WaitingAfter
  <1>3. WaitingIn(g) \subseteq WaitingIn(inq)
    BY BlankWaiting
  <1>4. QED
    BY <1>2, <1>3 DEF Waiting, WaitingIn

\* PacketInv holds after a step if it holds of what the step adds.
LEMMA PacketAdded ==
    ASSUME PacketInv, sent \subseteq sent', thin \subseteq thin',
           \A p \in Waiting' : p \in Waiting \/ Travels(p),
           \A k \in Making' : (k \in Making /\ out'[k] = out[k]) \/ MadeOf(k, out[k])'
    PROVE  PacketInv'
  <1>1. \A p \in Waiting' : Travels(p)'
    BY StaysTrue DEF PacketInv
  <1>2. \A k \in Making' : MadeOf(k, out[k])'
    <2> SUFFICES ASSUME NEW k \in Making', k \in Making, out'[k] = out[k]
                 PROVE  MadeOf(k, out[k])'
      OBVIOUS
    <2>1. PICK o : o = out[k]
      OBVIOUS
    <2>2. MadeOf(k, o)'
      BY <2>1, StaysTrue DEF PacketInv
    <2>3. QED
      BY <2>1, <2>2
  <1>3. QED
    BY <1>1, <1>2 DEF PacketInv

\* The packet a listener has before it.
LEMMA Served1 ==
    ASSUME TypeOK, PacketInv, NEW n \in Name, Received(n)
    PROVE  /\ inq[Home[n]] # <<>>
           /\ Head(inq[Home[n]]) \in Packet /\ Head(inq[Home[n]]) \in Waiting
           /\ Travels(Head(inq[Home[n]]))
           /\ UNCHANGED <<up, out, torn, sent, thin, stops, lists>>
  BY Queued DEF Received, Arrived, Serves, PacketInv

\* The queues after a file was forwarded, or could not be.
LEMMA Forwarded ==
    ASSUME TypeOK, PacketInv, NEW n \in Name, Forward(n)
    PROVE  \E p \in Packet :
              /\ p = Head(inq[Home[n]]) /\ p \in Waiting /\ Travels(p)
              /\ Opens(n, p) /\ Keep(n, p) /\ Inner(p).from = n
              /\ Peel(p) \in Packet /\ Travels(Peel(p)) /\ Peel(p).text = p.text
              /\ inq[Home[n]] # <<>>
              /\ \/ inq' = Served(n) /\ lst' = lst
                 \/ \E a \in Addr : /\ inq' = [Served(n) EXCEPT ![a] = Append(@, Peel(p))]
                                    /\ lst' = [lst EXCEPT ![n] = "writing"]
              /\ UNCHANGED <<out, torn, sent, thin, chat>>
  <1> DEFINE p == Head(inq[Home[n]])
             a == Lookup(list[n], Inner(p).to)
  <1>1. /\ Received(n) /\ Opens(n, p) /\ Keep(n, p) /\ Inner(p).from = n
        /\ inq' = IF Reachable(a) THEN [Served(n) EXCEPT ![a] = Append(@, Peel(p))]
                  ELSE Served(n)
        /\ lst' = [lst EXCEPT ![n] = IF Reachable(a) THEN "writing" ELSE @]
        /\ chat' = chat
    BY DEF Forward
  <1>2. /\ p \in Packet /\ p \in Waiting /\ Travels(p) /\ inq[Home[n]] # <<>>
        /\ UNCHANGED <<out, torn, sent, thin>>
    BY <1>1, Served1
  <1>3. Reachable(a) => a \in Addr
    BY Lists
  <1> HIDE DEF p, a
  <1>4. p.layers # <<>>
    BY <1>1 DEF Opens
  <1>5. Peel(p) \in Packet /\ Travels(Peel(p)) /\ Peel(p).text = p.text
    BY <1>1, <1>2, <1>4, PeelTravels, PeelProperties
  <1>6. \/ inq' = Served(n) /\ lst' = lst
        \/ \E b \in Addr : /\ inq' = [Served(n) EXCEPT ![b] = Append(@, Peel(p))]
                           /\ lst' = [lst EXCEPT ![n] = "writing"]
    <2>1. CASE Reachable(a)
      BY <1>1, <1>3, <2>1
    <2>2. CASE ~Reachable(a)
      <3>1. lst' = lst
        BY <1>1, <2>2 DEF TypeOK
      <3>2. QED
        BY <1>1, <2>2, <3>1
    <2>3. QED
      BY <2>1, <2>2
  <1>7. QED
    BY <1>1, <1>2, <1>5, <1>6 DEF p

\* The UI thread's steps keep it: it starts a packet, wraps it, and sends it when
\* it is finished.
LEMMA UIPackets ==
    ASSUME TypeOK, PacketInv, NEW n \in Name, Compose(n) \/ UIThread(n)
    PROVE  PacketInv'
  <1>0. \A k \in Making : out[k].at = "sending" /\ out[k].file # NoFile
    BY DEF Making
  <1>1. CASE Compose(n)
    <2>1. PICK m \in Script \ sent :
             \E route \in generate_path(DOMAIN list[n], n, m.to), q \in Sending :
                 /\ m \in Text /\ m.from = n /\ m.to \in Name /\ n # m.to
                 /\ DOMAIN list[n] \in SUBSET Name
                 /\ q.route = route /\ q.temp_from = m.to
                 /\ q.file \in Packet /\ q.file # NoFile
                 /\ q.file.layers = <<>> /\ q.file.text = m
                 /\ out[n] = Idle /\ out' = [out EXCEPT ![n] = q]
                 /\ sent' = sent \cup {m} /\ thin' = thin \cup Noted(n, m)
      BY <1>1, Composed
    <2>2. PICK route \in generate_path(DOMAIN list[n], n, m.to), q \in Sending :
                 /\ m \in Text /\ m.from = n /\ m.to \in Name /\ n # m.to
                 /\ DOMAIN list[n] \in SUBSET Name
                 /\ q.route = route /\ q.temp_from = m.to
                 /\ q.file \in Packet /\ q.file # NoFile
                 /\ q.file.layers = <<>> /\ q.file.text = m
                 /\ out[n] = Idle /\ out' = [out EXCEPT ![n] = q]
                 /\ sent' = sent \cup {m} /\ thin' = thin \cup Noted(n, m)
      BY <2>1
    <2>3. /\ route # <<>> /\ route[1] = n /\ Last(route) = m.to /\ IsInjective(route)
          /\ MaxRelays >= 2 /\ ~(Cardinality(DOMAIN list[n] \ {n, m.to}) < 2)
                => Len(route) >= 4
      <3> DEFINE D  == DOMAIN list[n]
                 to == m.to
      <3>1. D \in SUBSET Name /\ to \in Name /\ n # to /\ route \in generate_path(D, n, to)
        BY <2>2
      <3> HIDE DEF D, to
      <3>2. LongWay(route, D, n, to)
        BY <3>1, PathProperties
      <3>3. QED
        BY <3>2 DEF LongWay, D, to
    <2>4. Cardinality(DOMAIN list[n] \ {n, m.to}) < 2 => m \in thin'
      BY <2>2 DEF Noted
    <2>5. MadeOf(n, q)'
      <3>1. Sealed(q.file)'
        BY <2>2 DEF Sealed
      <3>2. Wide(q.file)' => Mixed(q)
        BY <2>2, <2>3, <2>4 DEF Wide, Mixed
      <3>3. QED
        BY <2>2, <2>3, <3>1, <3>2 DEF MadeOf
    <2>6. out'[n] = q /\ \A k \in Name \ {n} : out'[k] = out[k]
      BY <2>2 DEF TypeOK
    <2>7. \A k \in Making' : (k \in Making /\ out'[k] = out[k]) \/ MadeOf(k, out[k])'
      BY <2>5, <2>6 DEF Making
    <2>8. Waiting' = Waiting
      <3>1. inq' = inq /\ lst' = lst
        BY <1>1 DEF Compose
      <3>2. QED
        BY <3>1 DEF Waiting
    <2>9. sent \subseteq sent' /\ thin \subseteq thin'
      BY <2>2
    <2>10. QED
      BY <2>7, <2>8, <2>9, PacketAdded
  <1>2. CASE Encapsulate(n)
    <2>1. PICK o \in Sending, q \in Sending :
              /\ o = out[n] /\ o.at = "sending" /\ o.route # <<>>
              /\ o.route \in Seq(Name) /\ o.temp_from \in Name
              /\ o.file # NoFile => o.file \in Packet
              /\ out' = [out EXCEPT ![n] = q]
              /\ q.route = Front(o.route) /\ q.temp_from = Last(o.route)
              /\ q.file = Wrap(o.file, Keys[n], Last(o.route), o.temp_from)
      BY <1>2, Encapsulated
    <2>2. out'[n] = q /\ \A k \in Name \ {n} : out'[k] = out[k]
      BY <2>1 DEF TypeOK
    <2>3. Waiting' = Waiting /\ sent' = sent /\ thin' = thin
      BY <1>2 DEF Encapsulate, Waiting
    <2>4. q.file # NoFile => MadeOf(n, q)'
      <3>1. ASSUME q.file # NoFile
            PROVE  o.file # NoFile
        BY <2>1, <3>1 DEF Wrap
      <3>2. ASSUME q.file # NoFile
            PROVE  MadeOf(n, o)
        BY <2>1, <3>1, <3>2 DEF Making, PacketInv
      <3>3. ASSUME q.file # NoFile
            PROVE  MadeOf(n, q)
        BY <2>1, <3>1, <3>2, <3>3, RoundMade
      <3>4. sent \subseteq sent' /\ thin \subseteq thin'
        BY <2>3
      <3>5. QED
        BY <3>3, <3>4, StaysTrue
    <2>5. \A k \in Making' : (k \in Making /\ out'[k] = out[k]) \/ MadeOf(k, out[k])'
      BY <2>2, <2>4 DEF Making
    <2>6. QED
      BY <2>3, <2>5, PacketAdded
  <1>3. CASE Transmit(n)
    <2> DEFINE a == Lookup(list[n], out[n].next)
    <2>1. /\ out[n].at = "sending" /\ out[n].route = <<>>
          /\ sent' = sent /\ thin' = thin
          /\ \/ inq' = inq
             \/ Reachable(a) /\ inq' = [inq EXCEPT ![a] = Append(@, out[n].file)]
          /\ \A k \in Name \ {n} : out'[k] = out[k]
      BY <1>3 DEF Transmit, TypeOK
    <2>2. out'[n].at # "sending"
      <3>1. Reachable(a) => a \in Addr
        BY Lists
      <3>2. \/ out'[n] = Idle
            \/ Reachable(a) /\ out'[n] \in {Writing(a), Spins(a)}
        BY <1>3 DEF Transmit, TypeOK
      <3>3. QED
        BY <3>1, <3>2, OutKinds
    <2>3. \A k \in Making' : k \in Making /\ out'[k] = out[k]
      BY <2>1, <2>2 DEF Making
    <2>4. PICK p : p = out[n].file
      OBVIOUS
    <2>5. p # NoFile => p \in Packet /\ Travels(p)
      <3>1. PICK o \in Sending : o = out[n]
        BY <2>1, OutKinds
      <3>2. p # NoFile => n \in Making
        BY <2>1, <2>4 DEF Making
      <3>3. p # NoFile => MadeOf(n, o)
        BY <3>1, <3>2 DEF PacketInv
      <3>4. QED
        BY <2>1, <2>4, <3>1, <3>3, FinishedTravels, OutKinds
    <2>6. \A x \in Waiting' : x \in Waiting \/ Travels(x)
      <3>1. CASE inq' = inq
        BY <3>1 DEF Waiting
      <3>2. CASE Reachable(a) /\ inq' = [inq EXCEPT ![a] = Append(@, out[n].file)]
        <4>1. PICK b \in Addr : inq' = Joined(inq, b, p)
          BY <2>4, <3>2, Lists DEF Joined
        <4>2. p \in Packet \cup {NoFile}
          BY <2>5
        <4>3. Waiting' \subseteq Waiting \cup ({p} \ {NoFile})
          BY <4>1, <4>2, WaitingJoined
        <4>4. QED
          BY <2>5, <4>3
      <3>3. QED
        BY <2>1, <3>1, <3>2
    <2>7. QED
      BY <2>1, <2>3, <2>6, PacketAdded
  <1>4. CASE FinishUI(n)
    <2>1. /\ sent' = sent /\ thin' = thin /\ inq' = inq
          /\ out'[n] = Closing /\ \A k \in Name \ {n} : out'[k] = out[k]
      BY <1>4 DEF FinishUI, TypeOK
    <2>2. \A k \in Making' : k \in Making /\ out'[k] = out[k]
      BY <2>1, OutKinds DEF Making
    <2>3. Waiting' = Waiting
      BY <2>1 DEF Waiting
    <2>4. QED
      BY <2>1, <2>2, <2>3, PacketAdded
  <1>5. CASE DestroyUI(n)
    <2>1. /\ sent' = sent /\ thin' = thin
          /\ out' = [out EXCEPT ![n] = Idle]
          /\ \/ inq' = inq
             \/ inq[Home[n]] # <<>> /\ inq' = Served(n)
             \/ Blanks(inq')
      BY <1>5, DestroyedUI
    <2>2. out'[n] = Idle /\ \A k \in Name \ {n} : out'[k] = out[k]
      <3>1. DOMAIN out = Name
        BY DEF TypeOK
      <3>2. QED
        BY <2>1, <3>1
    <2>3. \A k \in Making' : k \in Making /\ out'[k] = out[k]
      BY <2>2, OutKinds DEF Making
    <2>4. Waiting' \subseteq Waiting
      <3>1. inq' = inq => Waiting' = Waiting
        BY DEF Waiting
      <3>2. QED
        BY <2>1, <3>1, WaitingServed, WaitingBlank
    <2>5. QED
      BY <2>1, <2>3, <2>4, PacketAdded
  <1>6. QED
    BY <1>1, <1>2, <1>3, <1>4, <1>5 DEF UIThread

\* So do the listener's steps and those of the process.
LEMMA ListenerPackets ==
    ASSUME TypeOK, PacketInv, NEW n \in Name,
           NewList(n) \/ Listener(n) \/ Stop(n) \/ Restart(n)
    PROVE  PacketInv'
  <1>1. sent' = sent /\ thin' = thin
    BY DEF NewList, Listener, ReceiveNothing, Discard, Forward, Show, FinishListener,
           DestroyListener, Received, Stop, Restart
  <1>2. \A k \in Making' : k \in Making /\ out'[k] = out[k]
    <2>1. \A k \in Name : out'[k] = out[k] \/ out'[k].at # "sending"
      <3>1. CASE Stop(n)
        BY <3>1, Stopped, OutKinds
      <3>2. CASE DestroyListener(n)
        BY <3>2, DestroyedListener
      <3>3. CASE NewList(n) \/ Restart(n) \/ ReceiveNothing(n) \/ Discard(n)
                 \/ Forward(n) \/ Show(n) \/ FinishListener(n)
        BY <3>3 DEF NewList, Restart, ReceiveNothing, Discard, Forward, Show,
                    FinishListener, Received
      <3>4. QED
        BY <3>1, <3>2, <3>3 DEF Listener
    <2>2. QED
      BY <2>1, OutKinds DEF Making
  <1>3. \A p \in Waiting' : p \in Waiting \/ Travels(p)
    <2>1. CASE NewList(n) \/ Restart(n) \/ FinishListener(n) \/ DestroyListener(n)
      <3>1. inq' = inq \/ Blanks(inq')
        BY <2>1, DestroyedListener DEF NewList, Restart, FinishListener
      <3>2. inq' = inq => Waiting' = Waiting
        BY DEF Waiting
      <3>3. QED
        BY <3>1, <3>2, WaitingBlank
    <2>2. CASE ReceiveNothing(n) \/ Discard(n) \/ Show(n)
      <3>1. inq[Home[n]] # <<>> /\ inq' = Served(n)
        BY <2>2 DEF ReceiveNothing, Discard, Show, Received, Arrived, Serves
      <3>2. QED
        BY <3>1, WaitingServed
    <2>3. CASE Forward(n)
      <3>1. PICK p \in Packet :
              /\ Peel(p) \in Packet /\ Travels(Peel(p)) /\ inq[Home[n]] # <<>>
              /\ \/ inq' = Served(n)
                 \/ \E a \in Addr : inq' = [Served(n) EXCEPT ![a] = Append(@, Peel(p))]
        BY <2>3, Forwarded
      <3>2. CASE inq' = Served(n)
        BY <3>1, <3>2, WaitingServed
      <3>3. CASE \E a \in Addr : inq' = [Served(n) EXCEPT ![a] = Append(@, Peel(p))]
        <4>1. PICK r \in Packet : r = Peel(p)
          BY <3>1
        <4>2. PICK a \in Addr : inq' = Joined(Served(n), a, r)
          BY <3>3, <4>1 DEF Joined
        <4>3. Waiting' \subseteq Waiting \cup {r}
          BY <3>1, <4>2, WaitingPassed
        <4>4. QED
          BY <3>1, <4>1, <4>3
      <3>4. QED
        BY <3>1, <3>2, <3>3
    <2>4. CASE Stop(n)
      BY <2>4, Stopped, WaitingReset
    <2>5. QED
      BY <2>1, <2>2, <2>3, <2>4 DEF Listener
  <1>4. QED
    BY <1>1, <1>2, <1>3, PacketAdded

LEMMA PacketInvariant == Spec => [](TypeOK /\ PacketInv)
  <1>1. Init => PacketInv
    <2>1. ASSUME Init
          PROVE  Making = {} /\ Waiting = {}
      <3>1. Making = {}
        BY <2>1 DEF Init, Making, Idle
      <3>2. \A a \in Addr : ToSet(inq[a]) = {}
        BY <2>1, NothingQueued DEF Init
      <3>3. QED
        BY <3>1, <3>2 DEF Waiting
    <2>2. QED
      BY <2>1 DEF PacketInv
  <1>2. TypeOK /\ PacketInv /\ [Next]_vars => PacketInv'
    <2>1. CASE UNCHANGED vars
      BY <2>1 DEF vars, PacketInv, Waiting, Making, Travels, MadeOf, Sealed, Wide
    <2>2. QED
      BY <2>1, UIPackets, ListenerPackets DEF Next
  <1>3. QED
    BY <1>1, <1>2, OnionTypeCorrect, PTL DEF Spec

-----------------------------------------------------------------------------
(* What a user learns.                                                     *)

\* What a listener keeps of a packet it opened.
Learned(p) == [outer |-> HeaderOf(Head(p.layers)), inner |-> Inner(p), of |-> p.text]

\* A file comes from a packet that travels and that its owner could open; a text
\* that is shown was in one (listen.cc:105-134).
LEMMA WhatIsLearned ==
    ASSUME TypeOK, PacketInv, [Next]_vars
    PROVE  /\ sent \subseteq sent' /\ thin \subseteq thin' /\ torn \subseteq torn'
           /\ \A k \in Name : \A f \in files'[k] :
                 f \in files[k] \/ \E p \in Packet : /\ Travels(p) /\ Opens(k, p)
                                                     /\ f = Learned(p)
           /\ \A k \in Name : \A m \in ToSet(chat'[k]) :
                 m \in ToSet(chat[k]) \/ (m \in sent /\ m.to = k)
  <1> DEFINE Result ==
         /\ sent \subseteq sent' /\ thin \subseteq thin' /\ torn \subseteq torn'
         /\ \A k \in Name : \A f \in files'[k] :
               f \in files[k] \/ \E p \in Packet : /\ Travels(p) /\ Opens(k, p)
                                                   /\ f = Learned(p)
         /\ \A k \in Name : \A m \in ToSet(chat'[k]) :
               m \in ToSet(chat[k]) \/ (m \in sent /\ m.to = k)
  <1> SUFFICES Result
    OBVIOUS
  <1>1. CASE UNCHANGED vars
    BY <1>1 DEF vars
  <1>2. ASSUME NEW n \in Name,
               \/ Compose(n) \/ UIThread(n) \/ NewList(n) \/ Restart(n) \/ ReceiveNothing(n)
               \/ Discard(n) \/ FinishListener(n) \/ DestroyListener(n)
        PROVE  Result
    <2>1. files' = files /\ chat' = chat /\ sent \subseteq sent' /\ thin \subseteq thin'
      BY <1>2 DEF Compose, UIThread, Encapsulate, Transmit, FinishUI, DestroyUI, NewList,
                  Restart, ReceiveNothing, Discard, FinishListener, DestroyListener, Received
    <2>2. torn \subseteq torn'
      <3>1. DestroyUI(n) \/ DestroyListener(n) => torn \subseteq torn'
        BY DestroyedUI, DestroyedListener
      <3>2. ~(DestroyUI(n) \/ DestroyListener(n)) => torn' = torn
        BY <1>2 DEF Compose, UIThread, Encapsulate, Transmit, FinishUI, NewList, Restart,
                    ReceiveNothing, Discard, FinishListener, Received
      <3>3. QED
        BY <3>1, <3>2
    <2>3. QED
      BY <2>1, <2>2
  <1>3. ASSUME NEW n \in Name, Stop(n)
        PROVE  Result
    <2>1. /\ files' = files /\ sent' = sent /\ thin' = thin /\ torn \subseteq torn'
          /\ chat' = [chat EXCEPT ![n] = <<>>]
      BY <1>3, Stopped DEF Stop
    <2>2. \A k \in Name : chat'[k] = chat[k] \/ chat'[k] = <<>>
      BY <2>1 DEF TypeOK
    <2>3. \A k \in Name : ToSet(chat'[k]) \subseteq ToSet(chat[k])
      BY <2>2, NothingQueued
    <2>4. QED
      BY <2>1, <2>3
  <1>4. ASSUME NEW n \in Name, NEW p \in Packet, Travels(p), Opens(n, p), Keep(n, p)
        PROVE  \A k \in Name : \A f \in files'[k] :
                  f \in files[k] \/ \E q \in Packet : /\ Travels(q) /\ Opens(k, q)
                                                      /\ f = Learned(q)
    <2>1. files' = [files EXCEPT ![n] = @ \cup {Learned(p)}]
      BY <1>4 DEF Keep, Learned
    <2>2. files'[n] = files[n] \cup {Learned(p)}
          /\ \A k \in Name \ {n} : files'[k] = files[k]
      BY <2>1 DEF TypeOK
    <2>3. QED
      BY <1>4, <2>2
  <1>5. ASSUME NEW n \in Name, Forward(n)
        PROVE  Result
    <2>1. PICK p \in Packet : /\ Travels(p) /\ Opens(n, p) /\ Keep(n, p)
                              /\ UNCHANGED <<torn, sent, thin, chat>>
      BY <1>5, Forwarded
    <2>2. QED
      BY <1>4, <2>1
  <1>6. ASSUME NEW n \in Name, Show(n)
        PROVE  Result
    <2>1. PICK p : p = Head(inq[Home[n]])
      OBVIOUS
    <2>2. /\ Received(n) /\ Opens(n, p) /\ Keep(n, p)
          /\ \/ chat' = chat
             \/ Peel(p).layers = <<>> /\ chat' = [chat EXCEPT ![n] = Append(@, p.text)]
      BY <1>6, <2>1 DEF Show
    <2>3. p \in Packet /\ Travels(p) /\ sent' = sent /\ thin' = thin /\ torn' = torn
      BY <2>1, <2>2, Served1
    <2>4. ASSUME NEW k \in Name, NEW m \in ToSet(chat'[k])
          PROVE  m \in ToSet(chat[k]) \/ (m \in sent /\ m.to = k)
      <3>1. CASE chat'[k] = chat[k]
        BY <3>1
      <3>2. CASE chat'[k] # chat[k]
        <4>1. k = n /\ chat'[n] = Append(chat[n], p.text) /\ Peel(p).layers = <<>>
          BY <2>2, <3>2 DEF TypeOK
        <4>2. p.text \in sent /\ p.text.to = n /\ p.text \in Text
          BY <2>2, <2>3, <4>1, OpenedRight DEF Packet
        <4>3. chat[n] \in Seq(Text)
          BY DEF TypeOK
        <4>4. ToSet(Append(chat[n], p.text)) \subseteq ToSet(chat[n]) \cup {p.text}
          BY <4>2, <4>3, QueueSets
        <4>5. QED
          BY <4>1, <4>2, <4>4
      <3>3. QED
        BY <3>1, <3>2
    <2>5. QED
      BY <1>4, <2>2, <2>3, <2>4
  <1>7. QED
    BY <1>1, <1>2, <1>3, <1>5, <1>6 DEF Next, Listener

\* The text of a message comes out of its layers only at the recipient its
\* sender meant, and never altered, whatever keys, lists and routes were used
\* (listen.cc:105-134, messanger.cc:90-121).
THEOREM OnlyForTheRecipient == Spec => []OnlyTheRecipient
  <1>1. Init => OnlyTheRecipient
    BY NothingQueued DEF Init, OnlyTheRecipient
  <1>2. TypeOK /\ PacketInv /\ OnlyTheRecipient /\ [Next]_vars => OnlyTheRecipient'
    <2> SUFFICES ASSUME TypeOK, PacketInv, OnlyTheRecipient, [Next]_vars
                 PROVE  OnlyTheRecipient'
      OBVIOUS
    <2>1. ASSUME NEW k \in Name, NEW f \in files'[k], f.inner \in Text
          PROVE  f.inner \in sent' /\ f.inner.to = k
      <3>1. CASE f \in files[k]
        BY <2>1, <3>1, WhatIsLearned DEF OnlyTheRecipient
      <3>2. CASE f \notin files[k]
        <4>1. PICK p \in Packet : Travels(p) /\ Opens(k, p) /\ f = Learned(p)
          BY <3>2, WhatIsLearned
        <4>2. f.inner = Inner(p)
          BY <4>1 DEF Learned
        <4>3. QED
          BY <2>1, <4>1, <4>2, OpenedRight, WhatIsLearned
      <3>3. QED
        BY <3>1, <3>2
    <2>2. ASSUME NEW k \in Name, NEW m \in ToSet(chat'[k])
          PROVE  m \in sent' /\ m.to = k
      BY WhatIsLearned DEF OnlyTheRecipient
    <2>3. QED
      BY <2>1, <2>2 DEF OnlyTheRecipient
  <1>3. QED
    BY <1>1, <1>2, PacketInvariant, PTL DEF Spec

\* When the list had two others or more, no relay can tell who writes to whom
\* (util.cc:199-203).
THEOREM NoRelayKnows == Spec => []Unlinkable
  <1>1. Init => Unlinkable
    BY DEF Init, Unlinkable
  <1>2. TypeOK /\ PacketInv /\ Unlinkable /\ [Next]_vars => Unlinkable'
    <2> SUFFICES ASSUME TypeOK, PacketInv, Unlinkable, [Next]_vars,
                        NEW k \in Name, NEW f \in files'[k],
                        k \notin {f.of.from, f.of.to}, MaxRelays >= 2, f.of \notin thin'
                 PROVE  ~(f.outer.from = f.of.from /\ f.inner.to = f.of.to)
      BY DEF Unlinkable
    <2>1. f.of \notin thin
      BY WhatIsLearned
    <2>2. CASE f \in files[k]
      BY <2>1, <2>2 DEF Unlinkable
    <2>3. CASE f \notin files[k]
      <3>1. PICK p \in Packet : Travels(p) /\ Opens(k, p) /\ f = Learned(p)
        BY <2>3, WhatIsLearned
      <3>2. /\ f.inner = Inner(p) /\ f.outer = HeaderOf(Head(p.layers)) /\ f.of = p.text
        BY <3>1 DEF Learned
      <3>3. Wide(p)
        BY <2>1, <3>2 DEF Wide
      <3>4. QED
        BY <3>1, <3>2, <3>3, OpenedRight
    <2>4. QED
      BY <2>2, <2>3
  <1>3. QED
    BY <1>1, <1>2, PacketInvariant, PTL DEF Spec

\* A finished packet of a sender with every key leads from hop to hop to its
\* recipient (messanger.cc:97-121).
THEOREM LeadsToTheRecipient == Spec => []Chained
  <1>1. TypeOK /\ PacketInv => Chained
    <2> SUFFICES ASSUME TypeOK, PacketInv,
                        NEW p \in Waiting \cup {out[n].file : n \in {k \in Making : out[k].route = <<>>}}
                 PROVE  Keys[p.text.from] = Name => p.layers # <<>> /\ Linked(p)
      BY DEF Chained, Linked
    <2>1. Travels(p)
      <3>1. CASE p \in Waiting
        BY <3>1 DEF PacketInv
      <3>2. CASE p \notin Waiting
        <4>1. PICK n \in Making : out[n].route = <<>> /\ p = out[n].file
          BY <3>2
        <4>2. n \in Name /\ out[n].at = "sending"
          BY <4>1 DEF Making
        <4>3. PICK o \in Sending : o = out[n]
          BY <4>2, OutKinds
        <4>4. MadeOf(n, o)
          BY <4>1, <4>3 DEF PacketInv
        <4>5. QED
          BY <4>1, <4>2, <4>3, <4>4, FinishedTravels
      <3>3. QED
        BY <3>1, <3>2
    <2>2. QED
      BY <2>1 DEF Travels
  <1>2. QED
    BY <1>1, PacketInvariant, PTL

-----------------------------------------------------------------------------
(* Who hangs, and for what reason.                                         *)

\* A sender that has the keys of its recipients and had nothing closed in use
\* has a file to send in every step, and sends it.
HasFile(n) ==
    /\ out[n].at # "spins"
    /\ out[n].at = "sending" => out[n].file # NoFile

UIReason == \A n \in Name : n \in torn \/ Lacks(n) \/ HasFile(n)

\* While every sender is such a one, what is announced comes, and is read.
Clean(f) == \A a \in Addr : NoFile \notin ToSet(f[a])

Torn == torn # {} \/ \E n \in Name : Lacks(n)

ListenerReason ==
    Torn \/ /\ \A n \in Name : lst[n] # "wedged"
            /\ Clean(inq)

HangInv == UIReason /\ ListenerReason

LEMMA CleanAfter ==
    ASSUME NEW f \in [Addr -> Seq(Packet \cup {NoFile})], Clean(f), NEW a \in Addr
    PROVE  /\ f[a] # <<>> => Clean([f EXCEPT ![a] = Tail(@)])
           /\ Clean([f EXCEPT ![a] = <<>>])
           /\ \A p \in Packet : Clean(Joined(f, a, p))
  <1>1. ASSUME NEW s, NoFile \notin ToSet(s)
        PROVE  Clean([f EXCEPT ![a] = s])
    BY <1>1 DEF Clean
  <1>2. f[a] \in Seq(Packet \cup {NoFile}) /\ NoFile \notin ToSet(f[a])
    BY DEF Clean
  <1>3. f[a] # <<>> => NoFile \notin ToSet(Tail(f[a]))
    BY <1>2, QueueSets
  <1>4. NoFile \notin ToSet(<<>>)
    BY NothingQueued
  <1>5. ASSUME NEW p \in Packet
        PROVE  NoFile \notin ToSet(Append(f[a], p))
    <2>1. ToSet(Append(f[a], p)) \subseteq ToSet(f[a]) \cup {p}
      BY <1>2, QueueSets
    <2>2. p # NoFile
      BY OnionAssumption
    <2>3. QED
      BY <1>2, <2>1, <2>2
  <1>6. QED
    BY <1>1, <1>3, <1>4, <1>5 DEF Joined

\* What is a reason to hang stays one.
LEMMA ReasonsStay ==
    ASSUME TypeOK, PacketInv, [Next]_vars
    PROVE  /\ \A n \in Name : n \in torn => n \in torn'
           /\ \A n \in Name : Lacks(n) => Lacks(n)'
           /\ Torn => Torn'
  <1>1. sent \subseteq sent' /\ torn \subseteq torn'
    BY WhatIsLearned
  <1>2. \A n \in Name : Lacks(n) => Lacks(n)'
    BY <1>1 DEF Lacks
  <1>3. Torn => Torn'
    BY <1>1, <1>2 DEF Torn
  <1>4. QED
    BY <1>1, <1>2, <1>3

\* The UI thread has a file in every round, unless the recipient's key is
\* missing (messanger.cc:113).
LEMMA UIHasReason ==
    ASSUME TypeOK, PacketInv, UIReason, NEW n \in Name, Compose(n) \/ UIThread(n)
    PROVE  UIReason'
  <1>0. [Next]_vars
    BY DEF Next
  <1>1. ASSUME NEW q, out' = [out EXCEPT ![n] = q],
               \/ n \in torn \/ Lacks(n) \/ Lacks(n)'
               \/ q.at # "spins" /\ (q.at = "sending" => q.file # NoFile)
        PROVE  UIReason'
    <2>1. out'[n] = q /\ \A k \in Name \ {n} : out'[k] = out[k]
      BY <1>1 DEF TypeOK
    <2>2. \A k \in Name \ {n} : k \in torn' \/ Lacks(k)' \/ HasFile(k)'
      BY <1>0, <2>1, ReasonsStay DEF UIReason, HasFile
    <2>3. n \in torn' \/ Lacks(n)' \/ HasFile(n)'
      BY <1>0, <1>1, <2>1, ReasonsStay DEF HasFile
    <2>4. QED
      BY <2>2, <2>3 DEF UIReason
  <1>2. CASE Compose(n)
    <2>1. PICK q \in Sending : q.file # NoFile /\ out' = [out EXCEPT ![n] = q]
      BY <1>2, Composed
    <2>2. q.at = "sending"
      BY DEF Sending
    <2>3. QED
      BY <1>1, <2>1, <2>2
  <1>3. CASE Encapsulate(n)
    <2>1. PICK o \in Sending, q \in Sending :
              /\ o = out[n] /\ o.at = "sending" /\ o.route # <<>>
              /\ o.route \in Seq(Name) /\ o.temp_from \in Name
              /\ o.file # NoFile => o.file \in Packet
              /\ out' = [out EXCEPT ![n] = q]
              /\ q.route = Front(o.route) /\ q.temp_from = Last(o.route)
              /\ q.file = Wrap(o.file, Keys[n], Last(o.route), o.temp_from)
      BY <1>3, Encapsulated
    <2>2. CASE n \in torn \/ Lacks(n)
      BY <1>1, <2>1, <2>2
    <2>3. CASE HasFile(n)
      <3>1. o.file # NoFile /\ MadeOf(n, o)
        BY <2>1, <2>3 DEF HasFile, Making, PacketInv
      <3>2. (q.file = NoFile /\ Lacks(n)) \/ q.file \in Packet
        BY <2>1, <3>1, RoundMade
      <3>3. Lacks(n) \/ (q.file # NoFile /\ q.at = "sending")
        BY <3>2, OnionAssumption DEF Sending
      <3>4. QED
        BY <1>1, <2>1, <3>3
    <2>4. QED
      BY <2>2, <2>3 DEF UIReason
  <1>4. CASE Transmit(n)
    <2>1. PICK a, p : a = Lookup(list[n], out[n].next) /\ p = out[n].file
      OBVIOUS
    <2>2. PICK q : /\ out' = [out EXCEPT ![n] = q]
                   /\ q = IF Reachable(a)
                          THEN IF p = NoFile THEN Spins(a) ELSE Writing(a) ELSE Idle
      BY <1>4, <2>1 DEF Transmit
    <2>3. out[n].at = "sending"
      BY <1>4 DEF Transmit
    <2>4. n \in torn \/ Lacks(n) \/ p # NoFile
      BY <2>1, <2>3 DEF UIReason, HasFile
    <2>5. p # NoFile => q.at \notin {"spins", "sending"}
      <3>1. Reachable(a) => a \in Addr
        BY Lists
      <3>2. QED
        BY <2>2, <3>1, OutKinds
    <2>6. QED
      BY <1>1, <2>2, <2>4, <2>5
  <1>5. CASE FinishUI(n)
    <2>1. out' = [out EXCEPT ![n] = Closing]
      BY <1>5 DEF FinishUI
    <2>2. QED
      BY <1>1, <2>1, OutKinds
  <1>6. CASE DestroyUI(n)
    <2>1. out' = [out EXCEPT ![n] = Idle]
      BY <1>6, DestroyedUI
    <2>2. QED
      BY <1>1, <2>1, OutKinds
  <1>7. QED
    BY <1>2, <1>3, <1>4, <1>5, <1>6 DEF UIThread

\* The other steps take none from it, but the second close of the listener's.
LEMMA UIKeepsReason ==
    ASSUME TypeOK, PacketInv, UIReason, NEW n \in Name,
           NewList(n) \/ Listener(n) \/ Stop(n) \/ Restart(n)
    PROVE  UIReason'
  <1>0. [Next]_vars
    BY DEF Next
  <1>1. ASSUME NEW k \in Name,
               k \in torn' \/ out'[k] = out[k] \/ out'[k] \in {Idle, Closing}
        PROVE  k \in torn' \/ Lacks(k)' \/ HasFile(k)'
    BY <1>0, <1>1, ReasonsStay, OutKinds DEF UIReason, HasFile
  <1>2. CASE Stop(n)
    <2>1. \A k \in Name : out'[k] = out[k] \/ out'[k] \in {Idle, Closing}
      BY <1>2, Stopped
    <2>2. QED
      BY <1>1, <2>1 DEF UIReason
  <1>3. CASE DestroyListener(n)
    <2>1. \A k \in Name : k \in torn' \/ out'[k] = out[k] \/ out'[k] = Closing
      BY <1>3, DestroyedListener DEF TypeOK
    <2>2. QED
      BY <1>1, <2>1 DEF UIReason
  <1>4. CASE NewList(n) \/ Restart(n) \/ ReceiveNothing(n) \/ Discard(n)
             \/ Forward(n) \/ Show(n) \/ FinishListener(n)
    <2>1. out' = out
      BY <1>4 DEF NewList, Restart, ReceiveNothing, Discard, Forward, Show,
                  FinishListener, Received
    <2>2. QED
      BY <1>1, <2>1 DEF UIReason
  <1>5. QED
    BY <1>2, <1>3, <1>4 DEF Listener

\* The UI thread announces a file that comes, unless something is a reason.
LEMMA UISound ==
    ASSUME TypeOK, PacketInv, UIReason, ListenerReason, NEW n \in Name,
           Compose(n) \/ UIThread(n), ~Torn'
    PROVE  ListenerReason'
  <1>0. /\ inq \in [Addr -> Seq(Packet \cup {NoFile})] /\ Home[n] \in Addr
        /\ ~Torn
    BY Queued, ReasonsStay DEF TypeOK, Next
  <1>1. Clean(inq) /\ \A k \in Name : lst[k] # "wedged"
    BY <1>0 DEF ListenerReason
  <1>2. ASSUME \A k \in Name : lst'[k] # "wedged", Clean(inq')
        PROVE  ListenerReason'
    BY <1>2 DEF ListenerReason, Clean
  <1>3. CASE Compose(n) \/ Encapsulate(n) \/ FinishUI(n)
    <2>1. lst' = lst /\ inq' = inq
      BY <1>3 DEF Compose, Encapsulate, FinishUI
    <2>2. QED
      BY <1>1, <1>2, <2>1
  <1>4. CASE Transmit(n)
    <2>1. PICK a, p : a = Lookup(list[n], out[n].next) /\ p = out[n].file
      OBVIOUS
    <2>2. HasFile(n)
      BY <1>0 DEF Torn, UIReason
    <2>3. p # NoFile /\ p \in Packet
      BY <1>4, <2>1, <2>2, OutKinds DEF Transmit, HasFile
    <2>4. lst' = lst /\ (inq' = inq \/ (Reachable(a) /\ inq' = Joined(inq, a, p)))
      BY <1>4, <2>1 DEF Transmit, Joined
    <2>5. Clean(inq')
      <3>1. Reachable(a) => a \in Addr
        BY Lists
      <3>2. Reachable(a) => Clean(Joined(inq, a, p))
        BY <1>0, <1>1, <2>3, <3>1, CleanAfter
      <3>3. QED
        BY <1>1, <2>4, <3>2
    <2>6. QED
      BY <1>1, <1>2, <2>4, <2>5
  <1>5. CASE DestroyUI(n)
    <2>1. n \notin torn'
      BY DEF Torn
    <2>2. /\ lst' = lst \/ lst' = [lst EXCEPT ![n] = "serves"]
          /\ inq' = inq \/ (inq[Home[n]] # <<>> /\ inq' = Served(n))
      BY <1>5, <2>1, DestroyedUI
    <2>3. \A k \in Name : lst'[k] # "wedged"
      BY <1>1, <2>2 DEF TypeOK
    <2>4. Clean(inq')
      BY <1>0, <1>1, <2>2, CleanAfter DEF Served
    <2>5. QED
      BY <1>2, <2>3, <2>4
  <1>6. QED
    BY <1>3, <1>4, <1>5 DEF UIThread

\* A listener finds bytes behind every announcement, and passes them on.
LEMMA ListenerSound ==
    ASSUME TypeOK, PacketInv, ListenerReason, NEW n \in Name,
           NewList(n) \/ Listener(n) \/ Stop(n) \/ Restart(n), ~Torn'
    PROVE  ListenerReason'
  <1>0. /\ inq \in [Addr -> Seq(Packet \cup {NoFile})] /\ Home[n] \in Addr
        /\ ~Torn
    BY Queued, ReasonsStay DEF TypeOK, Next
  <1>1. Clean(inq) /\ \A k \in Name : lst[k] # "wedged"
    BY <1>0 DEF ListenerReason
  <1>2. ASSUME \A k \in Name : lst'[k] = lst[k] \/ lst'[k] # "wedged", Clean(inq')
        PROVE  ListenerReason'
    BY <1>1, <1>2 DEF ListenerReason, Clean
  <1>3. CASE NewList(n) \/ Restart(n)
    <2>1. lst' = lst /\ inq' = inq
      BY <1>3 DEF NewList, Restart
    <2>2. QED
      BY <1>1, <1>2, <2>1
  <1>4. ~ReceiveNothing(n)
    <2>1. ASSUME inq[Home[n]] # <<>>
          PROVE  Head(inq[Home[n]]) # NoFile
      BY <1>0, <1>1, <2>1, QueueSets DEF Clean
    <2>2. QED
      BY <2>1 DEF ReceiveNothing, Serves
  <1>5. CASE Discard(n) \/ Show(n)
    <2>1. inq[Home[n]] # <<>> /\ inq' = Served(n) /\ lst' = lst
      BY <1>5 DEF Discard, Show, Received, Arrived, Serves
    <2>2. Clean(inq')
      BY <1>0, <1>1, <2>1, CleanAfter DEF Served
    <2>3. QED
      BY <1>2, <2>1, <2>2
  <1>6. CASE Forward(n)
    <2>1. PICK r \in Packet :
             /\ inq[Home[n]] # <<>>
             /\ \/ inq' = Served(n) /\ lst' = lst
                \/ \E a \in Addr : /\ inq' = Joined(Served(n), a, r)
                                   /\ lst' = [lst EXCEPT ![n] = "writing"]
      <3>1. PICK p \in Packet :
              /\ Peel(p) \in Packet /\ inq[Home[n]] # <<>>
              /\ \/ inq' = Served(n) /\ lst' = lst
                 \/ \E a \in Addr : /\ inq' = [Served(n) EXCEPT ![a] = Append(@, Peel(p))]
                                    /\ lst' = [lst EXCEPT ![n] = "writing"]
        BY <1>6, Forwarded
      <3>2. QED
        BY <3>1 DEF Joined
    <2>2. PICK f \in [Addr -> Seq(Packet \cup {NoFile})] : f = Served(n)
      BY <2>1, QueueTypes
    <2>3. Clean(f)
      BY <1>0, <1>1, <2>1, <2>2, CleanAfter DEF Served
    <2>4. Clean(inq')
      BY <2>1, <2>2, <2>3, CleanAfter
    <2>5. \A k \in Name : lst'[k] = lst[k] \/ lst'[k] # "wedged"
      BY <2>1 DEF TypeOK
    <2>6. QED
      BY <1>2, <2>4, <2>5
  <1>7. CASE FinishListener(n)
    <2>1. lst' = [lst EXCEPT ![n] = "closing"] /\ inq' = inq
      BY <1>7 DEF FinishListener
    <2>2. \A k \in Name : lst'[k] = lst[k] \/ lst'[k] # "wedged"
      BY <2>1 DEF TypeOK
    <2>3. QED
      BY <1>1, <1>2, <2>1, <2>2
  <1>8. CASE DestroyListener(n)
    <2>1. n \notin torn'
      BY DEF Torn
    <2>2. lst' = [lst EXCEPT ![n] = "serves"] /\ inq' = inq
      BY <1>8, <2>1, DestroyedListener
    <2>3. \A k \in Name : lst'[k] = lst[k] \/ lst'[k] # "wedged"
      BY <2>2 DEF TypeOK
    <2>4. QED
      BY <1>1, <1>2, <2>2, <2>3
  <1>9. CASE Stop(n)
    <2>1. torn' = {}
      BY DEF Torn
    <2>2. PICK g : /\ Blanks(g) /\ inq' = [g EXCEPT ![Home[n]] = <<>>]
                   /\ \A a \in Addr : \A i \in DOMAIN inq[a] : g[a][i] = inq[a][i]
      BY <1>9, <2>1, Stopped
    <2>3. g \in [Addr -> Seq(Packet \cup {NoFile})]
      BY <2>2 DEF Blanks
    <2>4. Clean(g)
      <3> SUFFICES ASSUME NEW a \in Addr, NoFile \in ToSet(g[a])
                   PROVE  FALSE
        BY DEF Clean
      <3>1. PICK i \in DOMAIN g[a] : g[a][i] = NoFile
        BY DEF ToSet
      <3>2. i \in DOMAIN inq[a] /\ inq[a][i] = NoFile
        BY <2>2, <3>1 DEF Blanks
      <3>3. NoFile \in ToSet(inq[a])
        BY <1>0, <3>2, QueueSets
      <3>4. QED
        BY <1>1, <3>3 DEF Clean
    <2>5. Clean(inq')
      BY <1>0, <2>2, <2>3, <2>4, CleanAfter
    <2>6. \A k \in Name : lst'[k] = lst[k] \/ lst'[k] # "wedged"
      BY <1>9 DEF Stop, TypeOK
    <2>7. QED
      BY <1>2, <2>5, <2>6
  <1>10. QED
    BY <1>3, <1>4, <1>5, <1>6, <1>7, <1>8, <1>9 DEF Listener

\* A messenger's UI hangs in send_message only if it had not the recipient's
\* own key, or its other thread closed a file or a socket in use; a listener
\* only if somebody's UI had not, or somebody's frame was cut or file closed
\* (messanger.cc:113, tcp_client.cc:96-131 and 162-177).
THEOREM OnlyForAReason == Spec => []HangsForAReason
  <1>1. TypeOK /\ Init => HangInv
    <2> SUFFICES ASSUME TypeOK, Init
                 PROVE  HangInv
      OBVIOUS
    <2>1. \A n \in Name : out[n] = Idle /\ lst[n] = "serves"
      BY DEF Init
    <2>2. UIReason
      BY <2>1, OutKinds DEF UIReason, HasFile
    <2>3. Clean(inq)
      BY NothingQueued DEF Init, Clean
    <2>4. QED
      BY <2>1, <2>2, <2>3 DEF HangInv, ListenerReason
  <1>2. TypeOK /\ PacketInv /\ HangInv /\ [Next]_vars => HangInv'
    <2> SUFFICES ASSUME TypeOK, PacketInv, HangInv, [Next]_vars
                 PROVE  HangInv'
      OBVIOUS
    <2>1. UIReason /\ ListenerReason
      BY DEF HangInv
    <2>2. CASE UNCHANGED vars
      BY <2>1, <2>2 DEF vars, HangInv, UIReason, HasFile, ListenerReason, Torn, Lacks, Clean
    <2>3. ASSUME NEW n \in Name, Compose(n) \/ UIThread(n)
          PROVE  HangInv'
      <3>1. UIReason'
        BY <2>1, <2>3, UIHasReason
      <3>2. CASE Torn'
        BY <3>1, <3>2 DEF HangInv, ListenerReason
      <3>3. CASE ~Torn'
        BY <2>1, <2>3, <3>1, <3>3, UISound DEF HangInv
      <3>4. QED
        BY <3>2, <3>3
    <2>4. ASSUME NEW n \in Name, NewList(n) \/ Listener(n) \/ Stop(n) \/ Restart(n)
          PROVE  HangInv'
      <3>1. UIReason'
        BY <2>1, <2>4, UIKeepsReason
      <3>2. CASE Torn'
        BY <3>1, <3>2 DEF HangInv, ListenerReason
      <3>3. CASE ~Torn'
        BY <2>1, <2>4, <3>1, <3>3, ListenerSound DEF HangInv
      <3>4. QED
        BY <3>2, <3>3
    <2>5. QED
      BY <2>2, <2>3, <2>4 DEF Next
  <1>3. TypeOK /\ HangInv => HangsForAReason
    <2> SUFFICES ASSUME TypeOK, HangInv, NEW n \in Name
                 PROVE  /\ out[n].at = "spins" => n \in torn \/ Lacks(n)
                        /\ lst[n] = "wedged" => torn # {} \/ \E m \in sent : m.to \notin Keys[m.from]
      BY DEF HangsForAReason, Lacks
    <2>1. out[n].at = "spins" => n \in torn \/ Lacks(n)
      BY DEF HangInv, UIReason, HasFile
    <2>2. (\E k \in Name : Lacks(k)) => \E m \in sent : m.to \notin Keys[m.from]
      BY DEF Lacks
    <2>3. QED
      BY <2>1, <2>2 DEF HangInv, ListenerReason, Torn
  <1>4. QED
    BY <1>1, <1>2, <1>3, PacketInvariant, OnionTypeCorrect, PTL DEF Spec

-----------------------------------------------------------------------------
(* A message is in one place only.                                         *)

\* Where a message may be: in the making, in a queue, on a screen.
Pos == Nat \ {0}

Made(n, m) == n \in Making /\ out[n].file.text = m

In(f, a, i, m) == i \in DOMAIN f[a] /\ f[a][i] # NoFile /\ f[a][i].text = m

Queues(a, i, m) == In(inq, a, i, m)

Shown(k, i, m) == i \in DOMAIN chat[k] /\ chat[k][i] = m

\* No two places have the same message.
Once ==
    \A m \in Text :
        /\ \A n \in Name, a \in Addr, i \in Pos : ~(Made(n, m) /\ Queues(a, i, m))
        /\ \A n, k \in Name, i \in Pos : ~(Made(n, m) /\ Shown(k, i, m))
        /\ \A a, b \in Addr, i, j \in Pos : Queues(a, i, m) /\ Queues(b, j, m) => a = b /\ i = j
        /\ \A a \in Addr, k \in Name, i, j \in Pos : ~(Queues(a, i, m) /\ Shown(k, j, m))
        /\ \A k, l \in Name, i, j \in Pos : Shown(k, i, m) /\ Shown(l, j, m) => k = l /\ i = j

\* Every message that is somewhere was sent; the one in the making is its
\* sender's.
LEMMA WhereSent ==
    ASSUME TypeOK, PacketInv, OnlyTheRecipient, NEW m
    PROVE  /\ \A n \in Name : Made(n, m) => m.from = n /\ m \in sent
           /\ \A a \in Addr, i \in Pos : Queues(a, i, m) => m \in sent
           /\ \A k \in Name, i \in Pos : Shown(k, i, m) => m \in sent
  <1>1. \A n \in Name : Made(n, m) => m.from = n /\ m \in sent
    BY DEF Made, PacketInv, MadeOf, Sealed
  <1>2. ASSUME NEW a \in Addr, NEW i \in Pos, Queues(a, i, m)
        PROVE  m \in sent
    <2>1. inq[a] \in Seq(Packet \cup {NoFile})
      BY DEF TypeOK
    <2>2. inq[a][i] \in ToSet(inq[a]) /\ inq[a][i] # NoFile /\ inq[a][i].text = m
      BY <1>2, <2>1, QueueSets DEF Queues, In
    <2>3. inq[a][i] \in Waiting
      BY <2>2 DEF Waiting
    <2>4. QED
      BY <2>2, <2>3 DEF PacketInv, Travels, Sealed
  <1>3. ASSUME NEW k \in Name, NEW i \in Pos, Shown(k, i, m)
        PROVE  m \in sent
    <2>1. chat[k] \in Seq(Text)
      BY DEF TypeOK
    <2>2. m \in ToSet(chat[k])
      BY <1>3, <2>1, QueueSets DEF Shown
    <2>3. QED
      BY <2>2 DEF OnlyTheRecipient
  <1>4. QED
    BY <1>1, <1>2, <1>3

\* The places of a queue that was served, and of one that was joined.
LEMMA PlacesServed ==
    ASSUME TypeOK, NEW n \in Name, inq[Home[n]] # <<>>,
           NEW b \in Addr, NEW i \in Pos, NEW m, In(Served(n), b, i, m)
    PROVE  IF b = Home[n] THEN In(inq, b, i + 1, m) ELSE In(inq, b, i, m)
  <1>1. inq \in [Addr -> Seq(Packet \cup {NoFile})] /\ Home[n] \in Addr
    BY Queued DEF TypeOK
  <1>2. CASE b # Home[n]
    BY <1>1, <1>2 DEF In, Served
  <1>3. CASE b = Home[n]
    <2> DEFINE s == inq[b]
    <2>1. s \in Seq(Packet \cup {NoFile}) /\ s # <<>> /\ Served(n)[b] = Tail(s)
      BY <1>1, <1>3 DEF Served
    <2> HIDE DEF s
    <2>2. /\ Len(s) \in Nat /\ DOMAIN s = 1 .. Len(s)
          /\ DOMAIN Tail(s) = 1 .. Len(s) - 1
          /\ \A j \in 1 .. Len(s) - 1 : Tail(s)[j] = s[j + 1]
      BY <2>1, QueueSets
    <2>3. i \in 1 .. Len(s) - 1 /\ Tail(s)[i] # NoFile /\ Tail(s)[i].text = m
      BY <2>1, <2>2 DEF In
    <2>4. i + 1 \in DOMAIN s /\ s[i + 1] # NoFile /\ s[i + 1].text = m
      BY <2>2, <2>3 DEF Pos
    <2>5. QED
      BY <1>3, <2>4 DEF In, s
  <1>4. QED
    BY <1>2, <1>3

LEMMA PlacesJoined ==
    ASSUME NEW f \in [Addr -> Seq(Packet \cup {NoFile})], NEW a \in Addr,
           NEW p \in Packet \cup {NoFile},
           NEW b \in Addr, NEW i \in Pos, NEW m, In(Joined(f, a, p), b, i, m)
    PROVE  \/ In(f, b, i, m)
           \/ p # NoFile /\ p.text = m /\ b = a /\ i = Len(f[a]) + 1
  <1>1. CASE b # a
    BY <1>1 DEF In, Joined
  <1>2. CASE b = a
    <2> DEFINE s == f[a]
    <2>1. s \in Seq(Packet \cup {NoFile}) /\ Joined(f, a, p)[b] = Append(s, p)
      BY <1>2 DEF Joined
    <2> HIDE DEF s
    <2>2. /\ Len(s) \in Nat /\ DOMAIN s = 1 .. Len(s)
          /\ DOMAIN Append(s, p) = 1 .. Len(s) + 1
          /\ \A j \in 1 .. Len(s) : Append(s, p)[j] = s[j]
          /\ Append(s, p)[Len(s) + 1] = p
      BY <2>1, QueueSets
    <2>3. i \in 1 .. Len(s) + 1 /\ Append(s, p)[i] # NoFile /\ Append(s, p)[i].text = m
      BY <2>1, <2>2 DEF In
    <2>4. i = Len(s) + 1 \/ i \in 1 .. Len(s)
      BY <2>2, <2>3
    <2>5. QED
      BY <1>2, <2>2, <2>3, <2>4 DEF In, s
  <1>3. QED
    BY <1>1, <1>2

\* What is cut is nowhere.
LEMMA PlacesBlank ==
    ASSUME NEW g, Blanks(g), NEW b \in Addr, NEW i, NEW m, In(g, b, i, m)
    PROVE  In(inq, b, i, m)
  BY DEF Blanks, In

-----------------------------------------------------------------------------
(* The ways a message moves.                                               *)

\* It stays, or goes.
LEMMA NothingMoves ==
    ASSUME Once,
           \A n \in Name, m \in Text : Made(n, m)' => Made(n, m),
           \A a \in Addr, i \in Pos, m \in Text : Queues(a, i, m)' => Queues(a, i, m),
           \A k \in Name, i \in Pos, m \in Text : Shown(k, i, m)' => Shown(k, i, m)
    PROVE  Once'
  BY DEF Once

\* A listener takes it out of its queue, and passes it on or shows it.
LEMMA ServedMoves ==
    ASSUME Once, NEW h \in Addr, NEW a \in Addr, NEW e \in Pos, NEW k \in Name, NEW c \in Pos,
           NEW passes \in BOOLEAN,
           \A n \in Name, m \in Text : Made(n, m)' => Made(n, m),
           \A b \in Addr, i \in Pos, m \in Text : Queues(b, i, m)' =>
              \/ b = h /\ Queues(b, i + 1, m)
              \/ b # h /\ Queues(b, i, m)
              \/ passes /\ Queues(h, 1, m) /\ b = a /\ i = e,
           \A l \in Name, i \in Pos, m \in Text : Shown(l, i, m)' =>
              \/ Shown(l, i, m)
              \/ ~passes /\ Queues(h, 1, m) /\ l = k /\ i = c
    PROVE  Once'
  <1>0. 1 \in Pos /\ (\A i \in Pos : i + 1 \in Pos /\ i + 1 # 1)
        /\ \A i, j \in Pos : i + 1 = j + 1 => i = j
    BY DEF Pos
  <1> SUFFICES ASSUME NEW m \in Text
               PROVE  /\ \A n \in Name, b \in Addr, i \in Pos : ~(Made(n, m)' /\ Queues(b, i, m)')
                      /\ \A n, l \in Name, i \in Pos : ~(Made(n, m)' /\ Shown(l, i, m)')
                      /\ \A b, d \in Addr, i, j \in Pos :
                            Queues(b, i, m)' /\ Queues(d, j, m)' => b = d /\ i = j
                      /\ \A b \in Addr, l \in Name, i, j \in Pos :
                            ~(Queues(b, i, m)' /\ Shown(l, j, m)')
                      /\ \A l, o \in Name, i, j \in Pos :
                            Shown(l, i, m)' /\ Shown(o, j, m)' => l = o /\ i = j
    BY DEF Once
  <1>1. /\ \A n \in Name, b \in Addr, i \in Pos : ~(Made(n, m) /\ Queues(b, i, m))
        /\ \A n, l \in Name, i \in Pos : ~(Made(n, m) /\ Shown(l, i, m))
        /\ \A b, d \in Addr, i, j \in Pos : Queues(b, i, m) /\ Queues(d, j, m) => b = d /\ i = j
        /\ \A b \in Addr, l \in Name, i, j \in Pos : ~(Queues(b, i, m) /\ Shown(l, j, m))
        /\ \A l, o \in Name, i, j \in Pos : Shown(l, i, m) /\ Shown(o, j, m) => l = o /\ i = j
    BY DEF Once
  <1>2. \A n \in Name, b \in Addr, i \in Pos : ~(Made(n, m)' /\ Queues(b, i, m)')
    BY <1>0, <1>1
  <1>3. \A n, l \in Name, i \in Pos : ~(Made(n, m)' /\ Shown(l, i, m)')
    BY <1>0, <1>1
  <1>4. \A b, d \in Addr, i, j \in Pos :
           Queues(b, i, m)' /\ Queues(d, j, m)' => b = d /\ i = j
    BY <1>0, <1>1
  <1>5. \A b \in Addr, l \in Name, i, j \in Pos : ~(Queues(b, i, m)' /\ Shown(l, j, m)')
    BY <1>0, <1>1
  <1>6. \A l, o \in Name, i, j \in Pos :
           Shown(l, i, m)' /\ Shown(o, j, m)' => l = o /\ i = j
    BY <1>0, <1>1
  <1>7. QED
    BY <1>2, <1>3, <1>4, <1>5, <1>6

\* It is taken out of a queue and no more.
LEMMA JustServed ==
    ASSUME TypeOK, Once, NEW n \in Name, inq[Home[n]] # <<>>, inq' = Served(n),
           \A k \in Name, m \in Text : Made(k, m)' => Made(k, m),
           \A k \in Name, i \in Pos, m \in Text : Shown(k, i, m)' => Shown(k, i, m)
    PROVE  Once'
  <1>1. \A b \in Addr, i \in Pos, m \in Text : Queues(b, i, m)' =>
           \/ b = Home[n] /\ Queues(b, i + 1, m)
           \/ b # Home[n] /\ Queues(b, i, m)
    BY PlacesServed DEF Queues
  <1>2. 1 \in Pos
    BY DEF Pos
  <1>3. PICK h \in Addr, yes \in BOOLEAN : h = Home[n] /\ yes
    BY Queued
  <1>4. /\ \A b \in Addr, i \in Pos, m \in Text : Queues(b, i, m)' =>
              \/ b = h /\ Queues(b, i + 1, m)
              \/ b # h /\ Queues(b, i, m)
              \/ yes /\ Queues(h, 1, m) /\ b = h /\ i = 1
        /\ \A k \in Name, i \in Pos, m \in Text : Shown(k, i, m)' =>
              \/ Shown(k, i, m)
              \/ ~yes /\ Queues(h, 1, m) /\ k = n /\ i = 1
    BY <1>1, <1>3
  <1>5. QED
    BY <1>2, <1>4, ServedMoves

\* The UI thread makes one of a message that was nowhere yet, and puts it into a
\* queue when it has made all its layers (messanger.cc:90-131).
LEMMA UIOnce ==
    ASSUME TypeOK, PacketInv, OnlyTheRecipient, Once, NEW n \in Name,
           Compose(n) \/ UIThread(n)
    PROVE  Once'
  <1>0. inq \in [Addr -> Seq(Packet \cup {NoFile})] /\ Home[n] \in Addr
    BY Queued DEF TypeOK
  <1>1. chat' = chat
    BY DEF Compose, UIThread, Encapsulate, Transmit, FinishUI, DestroyUI
  <1>2. \A k \in Name, i \in Pos, m \in Text : Shown(k, i, m)' => Shown(k, i, m)
    BY <1>1 DEF Shown
  <1>3. CASE Compose(n)
    <2>1. PICK m0 \in Script \ sent, q \in Sending :
             /\ q.file # NoFile /\ q.file.text = m0
             /\ out' = [out EXCEPT ![n] = q]
      BY <1>3, Composed
    <2>2. out'[n] = q /\ \A k \in Name \ {n} : out'[k] = out[k]
      BY <2>1 DEF TypeOK
    <2>3. \A k \in Name, m \in Text : Made(k, m)' => Made(k, m) \/ m = m0
      BY <2>1, <2>2 DEF Made, Making
    <2>4. \A a \in Addr, i \in Pos, m \in Text : Queues(a, i, m)' => Queues(a, i, m)
      BY <1>3 DEF Compose, Queues
    <2>5. /\ \A a \in Addr, i \in Pos : ~Queues(a, i, m0)
          /\ \A k \in Name, i \in Pos : ~Shown(k, i, m0)
      BY WhereSent
    <2>6. QED
      BY <1>2, <2>3, <2>4, <2>5 DEF Once
  <1>4. CASE Encapsulate(n)
    <2>1. PICK o \in Sending, q \in Sending :
              /\ o = out[n] /\ o.at = "sending" /\ o.route # <<>>
              /\ o.route \in Seq(Name) /\ o.temp_from \in Name
              /\ o.file # NoFile => o.file \in Packet
              /\ out' = [out EXCEPT ![n] = q]
              /\ q.route = Front(o.route) /\ q.temp_from = Last(o.route)
              /\ q.file = Wrap(o.file, Keys[n], Last(o.route), o.temp_from)
      BY <1>4, Encapsulated
    <2>2. q.file # NoFile => o.file # NoFile /\ q.file.text = o.file.text
      <3>1. q.file # NoFile => o.file # NoFile
        BY <2>1 DEF Wrap
      <3>2. o.file # NoFile => MadeOf(n, o)
        BY <2>1 DEF Making, PacketInv
      <3>3. QED
        BY <2>1, <3>1, <3>2, RoundMade
    <2>3. out'[n] = q /\ \A k \in Name \ {n} : out'[k] = out[k]
      BY <2>1 DEF TypeOK
    <2>4. \A k \in Name, m \in Text : Made(k, m)' => Made(k, m)
      BY <2>1, <2>2, <2>3 DEF Made, Making
    <2>5. \A a \in Addr, i \in Pos, m \in Text : Queues(a, i, m)' => Queues(a, i, m)
      BY <1>4 DEF Encapsulate, Queues
    <2>6. QED
      BY <1>2, <2>4, <2>5, NothingMoves
  <1>5. CASE Transmit(n)
    <2>1. PICK p, a : p = out[n].file /\ a = Lookup(list[n], out[n].next)
      OBVIOUS
    <2>2. /\ out[n].at = "sending" /\ p \in Packet \cup {NoFile}
          /\ \A k \in Name \ {n} : out'[k] = out[k]
          /\ \/ inq' = inq
             \/ Reachable(a) /\ inq' = Joined(inq, a, p)
      BY <1>5, <2>1, OutKinds DEF Transmit, TypeOK, Joined
    <2>3. out'[n].at # "sending"
      <3>1. Reachable(a) => a \in Addr
        BY Lists
      <3>2. \/ out'[n] = Idle
            \/ Reachable(a) /\ out'[n] \in {Writing(a), Spins(a)}
        BY <1>5, <2>1 DEF Transmit, TypeOK
      <3>3. QED
        BY <3>1, <3>2, OutKinds
    <2>4. \A k \in Name, m \in Text : Made(k, m)' => Made(k, m) /\ k # n
      BY <2>2, <2>3 DEF Made, Making
    <2>5. CASE inq' = inq
      <3>1. \A b \in Addr, i \in Pos, m \in Text : Queues(b, i, m)' => Queues(b, i, m)
        BY <2>5 DEF Queues
      <3>2. QED
        BY <1>2, <2>4, <3>1, NothingMoves
    <2>6. CASE a \in Addr /\ inq' = Joined(inq, a, p)
      <3>1. PICK e : e = Len(inq[a]) + 1
        OBVIOUS
      <3>2. \A b \in Addr, i \in Pos, m \in Text : Queues(b, i, m)' =>
               Queues(b, i, m) \/ (Made(n, m) /\ b = a /\ i = e)
        <4>1. \A b \in Addr, i \in Pos, m \in Text : In(Joined(inq, a, p), b, i, m) =>
                 \/ In(inq, b, i, m)
                 \/ p # NoFile /\ p.text = m /\ b = a /\ i = Len(inq[a]) + 1
          BY <1>0, <2>2, <2>6, PlacesJoined
        <4>2. \A m : p # NoFile /\ p.text = m => Made(n, m)
          BY <2>1, <2>2 DEF Made, Making
        <4>3. QED
          BY <2>6, <3>1, <4>1, <4>2 DEF Queues
      <3>3. \A k \in Name, m \in Text : ~(Made(k, m)' /\ Made(n, m))
        BY <2>4, WhereSent
      <3>4. QED
        BY <1>2, <2>4, <3>2, <3>3 DEF Once
    <2>7. QED
      BY <2>2, <2>5, <2>6, Lists
  <1>6. CASE FinishUI(n)
    <2>1. /\ inq' = inq /\ out'[n] = Closing
          /\ \A k \in Name \ {n} : out'[k] = out[k]
      BY <1>6 DEF FinishUI, TypeOK
    <2>2. \A k \in Name, m \in Text : Made(k, m)' => Made(k, m)
      BY <2>1, OutKinds DEF Made, Making
    <2>3. \A b \in Addr, i \in Pos, m \in Text : Queues(b, i, m)' => Queues(b, i, m)
      BY <2>1 DEF Queues
    <2>4. QED
      BY <1>2, <2>2, <2>3, NothingMoves
  <1>7. CASE DestroyUI(n)
    <2>1. /\ out' = [out EXCEPT ![n] = Idle]
          /\ \/ inq' = inq
             \/ inq[Home[n]] # <<>> /\ inq' = Served(n)
             \/ Blanks(inq')
      BY <1>7, DestroyedUI
    <2>2. out'[n] = Idle /\ \A k \in Name \ {n} : out'[k] = out[k]
      BY <2>1 DEF TypeOK
    <2>3. \A k \in Name, m \in Text : Made(k, m)' => Made(k, m)
      BY <2>2, OutKinds DEF Made, Making
    <2>4. CASE inq' = inq \/ Blanks(inq')
      <3>1. \A b \in Addr, i \in Pos, m \in Text : Queues(b, i, m)' => Queues(b, i, m)
        BY <2>4, PlacesBlank DEF Queues
      <3>2. QED
        BY <1>2, <2>3, <3>1, NothingMoves
    <2>5. CASE inq[Home[n]] # <<>> /\ inq' = Served(n)
      BY <1>2, <2>3, <2>5, JustServed
    <2>6. QED
      BY <2>1, <2>4, <2>5
  <1>8. QED
    BY <1>3, <1>4, <1>5, <1>6, <1>7 DEF UIThread

\* What a listener finds in its queue it passes on or shows, but never both
\* (listen.cc:113-134).
LEMMA ListenerOnce ==
    ASSUME TypeOK, PacketInv, Once, NEW n \in Name,
           NewList(n) \/ Listener(n) \/ Stop(n) \/ Restart(n)
    PROVE  Once'
  <1>0. /\ inq \in [Addr -> Seq(Packet \cup {NoFile})] /\ Home[n] \in Addr
        /\ 1 \in Pos /\ n \in Name
    <2>1. inq \in [Addr -> Seq(Packet \cup {NoFile})] /\ Home[n] \in Addr
      BY Queued DEF TypeOK
    <2>2. 1 \in Pos
      BY DEF Pos
    <2>3. QED
      BY <2>1, <2>2
  <1>1. ASSUME \A k \in Name : out'[k] = out[k] \/ out'[k].at # "sending"
        PROVE  \A k \in Name, m \in Text : Made(k, m)' => Made(k, m)
    BY <1>1 DEF Made, Making
  <1>2. CASE NewList(n) \/ Restart(n) \/ FinishListener(n) \/ DestroyListener(n)
    <2>1. \A k \in Name : out'[k] = out[k] \/ out'[k].at # "sending"
      <3>1. CASE DestroyListener(n)
        BY <3>1, DestroyedListener
      <3>2. CASE ~DestroyListener(n)
        BY <1>2, <3>2 DEF NewList, Restart, FinishListener
      <3>3. QED
        BY <3>1, <3>2
    <2>2. chat' = chat /\ (inq' = inq \/ Blanks(inq'))
      BY <1>2, DestroyedListener DEF NewList, Restart, FinishListener
    <2>3. /\ \A b \in Addr, i \in Pos, m \in Text : Queues(b, i, m)' => Queues(b, i, m)
          /\ \A k \in Name, i \in Pos, m \in Text : Shown(k, i, m)' => Shown(k, i, m)
      BY <2>2, PlacesBlank DEF Queues, Shown
    <2>4. QED
      BY <1>1, <2>1, <2>3, NothingMoves
  <1>3. CASE Stop(n)
    <2>1. \A k \in Name : out'[k] = out[k] \/ out'[k].at # "sending"
      BY <1>3, Stopped, OutKinds
    <2>2. PICK g : Blanks(g) /\ inq' = [g EXCEPT ![Home[n]] = <<>>]
      BY <1>3, Stopped
    <2>3. /\ \A b \in Addr : inq'[b] = g[b] \/ inq'[b] = <<>>
          /\ \A k \in Name : chat'[k] = chat[k] \/ chat'[k] = <<>>
      BY <1>3, <2>2 DEF Stop, TypeOK, Blanks
    <2>4. /\ \A b \in Addr, i \in Pos, m \in Text : Queues(b, i, m)' => In(g, b, i, m)
          /\ \A k \in Name, i \in Pos, m \in Text : Shown(k, i, m)' => Shown(k, i, m)
      BY <2>3, NothingQueued DEF Queues, In, Shown
    <2>5. \A b \in Addr, i \in Pos, m \in Text : Queues(b, i, m)' => Queues(b, i, m)
      BY <2>2, <2>4, PlacesBlank DEF Queues
    <2>6. QED
      BY <1>1, <2>1, <2>4, <2>5, NothingMoves
  <1>4. CASE ReceiveNothing(n) \/ Discard(n)
    <2>1. inq[Home[n]] # <<>> /\ inq' = Served(n) /\ out' = out /\ chat' = chat
      BY <1>4 DEF ReceiveNothing, Discard, Received, Arrived, Serves
    <2>2. \A k \in Name, i \in Pos, m \in Text : Shown(k, i, m)' => Shown(k, i, m)
      BY <2>1 DEF Shown
    <2>3. QED
      BY <1>1, <2>1, <2>2, JustServed
  <1>5. CASE Forward(n)
    <2>1. PICK p \in Packet, r \in Packet :
             /\ p = Head(inq[Home[n]]) /\ p # NoFile /\ r.text = p.text
             /\ inq[Home[n]] # <<>> /\ out' = out /\ chat' = chat
             /\ \/ inq' = Served(n)
                \/ \E a \in Addr : inq' = Joined(Served(n), a, r)
      <3>1. PICK p \in Packet :
              /\ p = Head(inq[Home[n]]) /\ Peel(p) \in Packet /\ Peel(p).text = p.text
              /\ inq[Home[n]] # <<>> /\ out' = out /\ chat' = chat
              /\ \/ inq' = Served(n)
                 \/ \E a \in Addr : inq' = [Served(n) EXCEPT ![a] = Append(@, Peel(p))]
        BY <1>5, Forwarded
      <3>2. p # NoFile
        BY OnionAssumption
      <3>3. QED
        BY <3>1, <3>2 DEF Joined
    <2>2. \A k \in Name, i \in Pos, m \in Text : Shown(k, i, m)' => Shown(k, i, m)
      BY <2>1 DEF Shown
    <2>3. CASE inq' = Served(n)
      BY <1>1, <2>1, <2>2, <2>3, JustServed
    <2>4. CASE \E a \in Addr : inq' = Joined(Served(n), a, r)
      <3>1. PICK a \in Addr : inq' = Joined(Served(n), a, r)
        BY <2>4
      <3>2. PICK f \in [Addr -> Seq(Packet \cup {NoFile})] : f = Served(n)
        BY <2>1, QueueTypes
      <3>3. PICK e \in Pos : e = Len(f[a]) + 1
        <4>1. Len(f[a]) \in Nat
          BY LenProperties
        <4>2. QED
          BY <4>1 DEF Pos
      <3>4. \A b \in Addr, i \in Pos, m \in Text : Queues(b, i, m)' =>
               In(f, b, i, m) \/ (r.text = m /\ b = a /\ i = e)
        <4>1. \A b \in Addr, i \in Pos, m \in Text : In(Joined(f, a, r), b, i, m) =>
                 \/ In(f, b, i, m)
                 \/ r # NoFile /\ r.text = m /\ b = a /\ i = Len(f[a]) + 1
          BY PlacesJoined
        <4>2. QED
          BY <3>1, <3>2, <3>3, <4>1 DEF Queues
      <3>5. \A b \in Addr, i \in Pos, m \in Text : In(f, b, i, m) =>
               IF b = Home[n] THEN Queues(b, i + 1, m) ELSE Queues(b, i, m)
        BY <2>1, <3>2, PlacesServed DEF Queues
      <3>6. Queues(Home[n], 1, p.text)
        <4>1. inq[Home[n]] \in Seq(Packet \cup {NoFile})
          BY <1>0
        <4>2. Head(inq[Home[n]]) = inq[Home[n]][1] /\ 1 \in DOMAIN inq[Home[n]]
          BY <2>1, <4>1, QueueSets
        <4>3. QED
          BY <2>1, <4>2 DEF Queues, In
      <3>7. PICK h \in Addr, yes \in BOOLEAN : h = Home[n] /\ yes
        BY <1>0
      <3>8. /\ \A b \in Addr, i \in Pos, m \in Text : Queues(b, i, m)' =>
                  \/ b = h /\ Queues(b, i + 1, m)
                  \/ b # h /\ Queues(b, i, m)
                  \/ yes /\ Queues(h, 1, m) /\ b = a /\ i = e
            /\ \A k \in Name, i \in Pos, m \in Text : Shown(k, i, m)' =>
                  \/ Shown(k, i, m)
                  \/ ~yes /\ Queues(h, 1, m) /\ k = n /\ i = e
        BY <2>1, <2>2, <3>4, <3>5, <3>6, <3>7
      <3>9. \A k \in Name, m \in Text : Made(k, m)' => Made(k, m)
        BY <1>1, <2>1
      <3>10. QED
        BY <3>8, <3>9, ServedMoves
    <2>5. QED
      BY <2>1, <2>3, <2>4
  <1>6. CASE Show(n)
    <2>1. PICK p : p = Head(inq[Home[n]])
      OBVIOUS
    <2>2. /\ inq[Home[n]] # <<>> /\ inq' = Served(n) /\ out' = out /\ p \in Packet
          /\ chat' = chat \/ chat' = [chat EXCEPT ![n] = Append(@, p.text)]
      BY <1>6, <2>1, Served1 DEF Show, Received
    <2>3. CASE chat' = chat
      <3>1. \A k \in Name, i \in Pos, m \in Text : Shown(k, i, m)' => Shown(k, i, m)
        BY <2>3 DEF Shown
      <3>2. QED
        BY <1>1, <2>2, <3>1, JustServed
    <2>4. CASE chat' = [chat EXCEPT ![n] = Append(@, p.text)]
      <3>1. PICK c \in Pos : c = Len(chat[n]) + 1
        <4>1. Len(chat[n]) \in Nat
          BY LenProperties DEF TypeOK
        <4>2. QED
          BY <4>1 DEF Pos
      <3>2. \A k \in Name, i \in Pos, m \in Text : Shown(k, i, m)' =>
               Shown(k, i, m) \/ (p.text = m /\ k = n /\ i = c)
        <4> SUFFICES ASSUME NEW k \in Name, NEW i \in Pos, NEW m \in Text, Shown(k, i, m)'
                     PROVE  Shown(k, i, m) \/ (p.text = m /\ k = n /\ i = c)
          OBVIOUS
        <4>1. CASE k # n
          BY <2>4, <4>1 DEF Shown
        <4>2. CASE k = n
          <5> DEFINE s == chat[n]
                     e == p.text
          <5>1. s \in Seq(Text) /\ e \in Text /\ chat'[k] = Append(s, e)
            BY <2>2, <2>4, <4>2 DEF TypeOK, Packet
          <5> HIDE DEF s, e
          <5>2. /\ Len(s) \in Nat /\ DOMAIN s = 1 .. Len(s)
                /\ DOMAIN Append(s, e) = 1 .. Len(s) + 1
                /\ \A j \in 1 .. Len(s) : Append(s, e)[j] = s[j]
                /\ Append(s, e)[Len(s) + 1] = e
            BY <5>1, QueueSets
          <5>3. i \in 1 .. Len(s) + 1 /\ Append(s, e)[i] = m
            BY <5>1, <5>2 DEF Shown
          <5>4. i = Len(s) + 1 \/ i \in 1 .. Len(s)
            BY <5>2, <5>3
          <5>5. QED
            BY <3>1, <4>2, <5>2, <5>3, <5>4 DEF Shown, s, e
        <4>3. QED
          BY <4>1, <4>2
      <3>3. \A b \in Addr, i \in Pos, m \in Text : Queues(b, i, m)' =>
               IF b = Home[n] THEN Queues(b, i + 1, m) ELSE Queues(b, i, m)
        BY <2>2, PlacesServed DEF Queues
      <3>4. Queues(Home[n], 1, p.text)
        <4>1. inq[Home[n]] \in Seq(Packet \cup {NoFile}) /\ p # NoFile
          BY <1>0, <2>2, OnionAssumption
        <4>2. Head(inq[Home[n]]) = inq[Home[n]][1] /\ 1 \in DOMAIN inq[Home[n]]
          BY <2>2, <4>1, QueueSets
        <4>3. QED
          BY <2>1, <4>1, <4>2 DEF Queues, In
      <3>5. PICK h \in Addr, yes \in BOOLEAN : h = Home[n] /\ ~yes
        BY <1>0
      <3>6. /\ \A b \in Addr, i \in Pos, m \in Text : Queues(b, i, m)' =>
                  \/ b = h /\ Queues(b, i + 1, m)
                  \/ b # h /\ Queues(b, i, m)
                  \/ yes /\ Queues(h, 1, m) /\ b = h /\ i = 1
            /\ \A k \in Name, i \in Pos, m \in Text : Shown(k, i, m)' =>
                  \/ Shown(k, i, m)
                  \/ ~yes /\ Queues(h, 1, m) /\ k = n /\ i = c
        BY <3>2, <3>3, <3>4, <3>5
      <3>7. \A k \in Name, m \in Text : Made(k, m)' => Made(k, m)
        BY <1>1, <2>2
      <3>8. QED
        BY <1>0, <3>6, <3>7, ServedMoves
    <2>5. QED
      BY <2>2, <2>3, <2>4
  <1>7. QED
    BY <1>2, <1>3, <1>4, <1>5, <1>6 DEF Listener

\* A set with no two different elements has at most one.
LEMMA AtMostOneOf ==
    ASSUME NEW S, \A x, y \in S : x = y
    PROVE  Cardinality(S) \in Nat /\ Cardinality(S) <= 1 /\ (S = {} => Cardinality(S) = 0)
  <1>1. CASE S = {}
    BY <1>1, FS_EmptySet
  <1>2. CASE S # {}
    <2>1. PICK x : S = {x}
      BY <1>2
    <2>2. Cardinality(S) = 1
      BY <2>1, FS_Singleton
    <2>3. QED
      BY <1>2, <2>2
  <1>3. QED
    BY <1>1, <1>2

\* A message is never in two places, and is shown at most once, although the
\* recipient forwards it to itself (messanger.cc:107-121, listen.cc:113-134).
THEOREM NeverTwice == Spec => []AtMostOnce
  <1>1. Init => Once
    <2> SUFFICES ASSUME Init, NEW m \in Text
                 PROVE  /\ \A a \in Addr, i \in Pos : ~Queues(a, i, m)
                        /\ \A k \in Name, i \in Pos : ~Shown(k, i, m)
      BY DEF Once
    <2>1. QED
      BY NothingQueued DEF Init, Queues, In, Shown
  <1>2. TypeOK /\ PacketInv /\ OnlyTheRecipient /\ Once /\ [Next]_vars => Once'
    <2> SUFFICES ASSUME TypeOK, PacketInv, OnlyTheRecipient, Once, [Next]_vars
                 PROVE  Once'
      OBVIOUS
    <2>1. CASE UNCHANGED vars
      <3>1. /\ \A n \in Name, m \in Text : Made(n, m)' => Made(n, m)
            /\ \A a \in Addr, i \in Pos, m \in Text : Queues(a, i, m)' => Queues(a, i, m)
            /\ \A k \in Name, i \in Pos, m \in Text : Shown(k, i, m)' => Shown(k, i, m)
        BY <2>1 DEF vars, Made, Making, Queues, In, Shown
      <3>2. QED
        BY <3>1, NothingMoves
    <2>2. QED
      BY <2>1, UIOnce, ListenerOnce DEF Next
  <1>3. TypeOK /\ PacketInv /\ OnlyTheRecipient /\ Once => AtMostOnce
    <2> SUFFICES ASSUME TypeOK, PacketInv, OnlyTheRecipient, Once, NEW m \in Script
                 PROVE  LET Is(p) == p # NoFile /\ p.text = m
                        IN Cardinality({n \in Making : Is(out[n].file)})
                           + Cardinality({x \in Addr \X (1 .. Cardinality(Script) + 1) :
                                 x[2] \in DOMAIN inq[x[1]] /\ Is(inq[x[1]][x[2]])})
                           + Cardinality({i \in DOMAIN chat[m.to] : chat[m.to][i] = m}) <= 1
      BY DEF AtMostOnce
    <2> DEFINE U == {n \in Making : out[n].file # NoFile /\ out[n].file.text = m}
               Q == {x \in Addr \X (1 .. Cardinality(Script) + 1) :
                       x[2] \in DOMAIN inq[x[1]] /\ inq[x[1]][x[2]] # NoFile
                       /\ inq[x[1]][x[2]].text = m}
               C == {i \in DOMAIN chat[m.to] : chat[m.to][i] = m}
    <2>1. m \in Text /\ m.to \in Name
      BY OnionAssumption DEF Text
    <2>2. \A n \in U : n \in Name /\ Made(n, m)
      BY DEF Made, Making
    <2>3. \A x \in Q : x[1] \in Addr /\ x[2] \in Pos /\ Queues(x[1], x[2], m)
                       /\ x = <<x[1], x[2]>>
      <3> SUFFICES ASSUME NEW x \in Q
                   PROVE  x[1] \in Addr /\ x[2] \in Pos /\ Queues(x[1], x[2], m)
                          /\ x = <<x[1], x[2]>>
        OBVIOUS
      <3>1. x \in Addr \X (1 .. Cardinality(Script) + 1)
        OBVIOUS
      <3>2. x[1] \in Addr /\ x = <<x[1], x[2]>>
        BY <3>1
      <3>3. inq[x[1]] \in Seq(Packet \cup {NoFile}) /\ x[2] \in DOMAIN inq[x[1]]
        BY <3>2 DEF TypeOK
      <3>4. DOMAIN inq[x[1]] = 1 .. Len(inq[x[1]])
        BY <3>3, LenProperties
      <3>5. x[2] \in Pos
        BY <3>3, <3>4 DEF Pos
      <3>6. QED
        BY <3>2, <3>5 DEF Queues, In
    <2>4. \A i \in C : i \in Pos /\ Shown(m.to, i, m)
      <3>1. chat[m.to] \in Seq(Text)
        BY <2>1 DEF TypeOK
      <3>2. DOMAIN chat[m.to] = 1 .. Len(chat[m.to])
        BY <3>1, LenProperties
      <3>3. QED
        BY <3>2 DEF Pos, Shown
    <2> HIDE DEF U, Q, C
    <2>5. \A n, k \in U : n = k
      BY <2>2, WhereSent
    <2>6. \A x, y \in Q : x = y
      <3> SUFFICES ASSUME NEW x \in Q, NEW y \in Q
                   PROVE  x = y
        OBVIOUS
      <3>1. x[1] = y[1] /\ x[2] = y[2]
        BY <2>1, <2>3 DEF Once
      <3>2. QED
        BY <2>3, <3>1
    <2>7. \A i, j \in C : i = j
      BY <2>1, <2>4 DEF Once
    <2>8. /\ U # {} => Q = {} /\ C = {}
          /\ Q # {} => C = {}
      BY <2>1, <2>2, <2>3, <2>4 DEF Once
    <2>9. /\ Cardinality(U) \in Nat /\ Cardinality(U) <= 1 /\ (U = {} => Cardinality(U) = 0)
          /\ Cardinality(Q) \in Nat /\ Cardinality(Q) <= 1 /\ (Q = {} => Cardinality(Q) = 0)
          /\ Cardinality(C) \in Nat /\ Cardinality(C) <= 1 /\ (C = {} => Cardinality(C) = 0)
      BY <2>5, <2>6, <2>7, AtMostOneOf
    <2>10. Cardinality(U) + Cardinality(Q) + Cardinality(C) <= 1
      BY <2>8, <2>9
    <2>11. QED
      BY <2>10 DEF U, Q, C
  <1>4. QED
    BY <1>1, <1>2, <1>3, PacketInvariant, OnlyForTheRecipient, PTL DEF Spec

=============================================================================

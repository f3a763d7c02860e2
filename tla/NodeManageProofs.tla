-------------------------- MODULE NodeManageProofs --------------------------
(***************************************************************************)
(* Facts about the methods of NodeManage that hold for lists of any length *)
(* over any set of nodes: of any list, that the first match is found and   *)
(* deleted; of a list where no two nodes share an id, that the methods     *)
(* keep it so, and then the first match is the only one.                   *)
(***************************************************************************)
EXTENDS NodeManage, SequenceTheorems, WellFoundedInduction, TLAPS

\* In a list without two nodes of one id, find_idx is the index of the node
\* with this id, and 0 exactly when there is none (node_manage.cc:30-39).
LEMMA FindIdx ==
    ASSUME NEW S, NEW list \in Seq(S), UniqueIds(list), NEW g
    PROVE  /\ find_idx(list, g) = 0
              <=> \A i \in 1 .. Len(list) : list[i].github_id # g
           /\ find_idx(list, g) # 0
              => /\ find_idx(list, g) \in 1 .. Len(list)
                 /\ list[find_idx(list, g)].github_id = g
  <1> DEFINE I == {i \in 1 .. Len(list) : list[i].github_id = g}
  <1>1. find_idx(list, g) = IF I # {} THEN Min(I) ELSE 0
    BY DEF find_idx, SelectInSeq
  <1>2. CASE I = {}
    BY <1>1, <1>2
  <1>3. CASE I # {}
    <2>1. PICK i \in I : TRUE
      BY <1>3
    <2>2. I = {i}
      BY <2>1 DEF UniqueIds
    <2>3. Min(I) = i
      BY <2>1, <2>2 DEF Min
    <2>4. find_idx(list, g) = i /\ i \in 1 .. Len(list) /\ list[i].github_id = g
      BY <1>1, <1>3, <2>1, <2>3
    <2>5. i # 0
      BY <2>4
    <2>6. QED
      BY <2>4, <2>5
  <1>4. QED
    BY <1>2, <1>3

\* add_user keeps the nodes there are, adds at most the new one, adds it
\* unless the id is taken, and keeps the ids unique (node_manage.cc:17-28).
LEMMA AddUser ==
    ASSUME NEW S, NEW list \in Seq(S), UniqueIds(list), NEW g, NEW ip,
           Node(g, ip) \in S
    PROVE  /\ add_user(list, g, ip) \in Seq(S)
           /\ UniqueIds(add_user(list, g, ip))
           /\ Entries(add_user(list, g, ip)) =
                IF \E e \in Entries(list) : e.github_id = g
                THEN Entries(list) ELSE Entries(list) \cup {Node(g, ip)}
  <1>1. CASE find_idx(list, g) = 0
    <2>1. \A i \in 1 .. Len(list) : list[i].github_id # g
      BY <1>1, FindIdx
    <2> DEFINE new == Append(list, Node(g, ip))
    <2>2. add_user(list, g, ip) = new
      BY <1>1 DEF add_user
    <2>3. /\ new \in Seq(S)
          /\ Len(new) = Len(list) + 1
          /\ \A i \in 1 .. Len(list) : new[i] = list[i]
          /\ new[Len(list) + 1] = Node(g, ip)
      BY AppendProperties
    <2>4. DOMAIN list = 1 .. Len(list) /\ DOMAIN new = 1 .. Len(list) + 1
          /\ Len(list) \in Nat
      BY <2>3, LenProperties
    <2> HIDE DEF new
    <2>5. UniqueIds(new)
      BY <2>1, <2>3, <2>4 DEF UniqueIds, Node
    <2>6. Entries(new) = Entries(list) \cup {Node(g, ip)}
      BY <2>3, <2>4 DEF Entries, ToSet
    <2>7. ~\E e \in Entries(list) : e.github_id = g
      BY <2>1, <2>4 DEF Entries, ToSet
    <2>8. QED
      BY <2>2, <2>3, <2>5, <2>6, <2>7
  <1>2. CASE find_idx(list, g) # 0
    <2>1. \E e \in Entries(list) : e.github_id = g
      BY <1>2, FindIdx DEF Entries, ToSet
    <2>2. QED
      BY <1>2, <2>1 DEF add_user
  <1>3. QED
    BY <1>1, <1>2

\* RemoveAt(s, k) is s without its k-th element, in the same order.
LEMMA RemoveAtProperties ==
    ASSUME NEW S, NEW s \in Seq(S), NEW k \in 1 .. Len(s)
    PROVE  /\ RemoveAt(s, k) \in Seq(S)
           /\ Len(RemoveAt(s, k)) = Len(s) - 1
           /\ \A i \in 1 .. Len(s) - 1 :
                 RemoveAt(s, k)[i] = IF i < k THEN s[i] ELSE s[i + 1]
  <1>1. Len(s) \in Nat /\ \A i \in 1 .. Len(s) : s[i] \in S
    BY LenProperties, ElementOfSeq
  <1> DEFINE t == SubSeq(s, 1, k - 1)
             u == SubSeq(s, k + 1, Len(s))
  <1>2. /\ t \in Seq(S)
        /\ Len(t) = k - 1
        /\ \A i \in 1 .. k - 1 : t[i] = s[i]
    <2>1. \A i \in 1 .. k - 1 : s[i] \in S
      BY <1>1
    <2>2. /\ t \in Seq(S)
          /\ Len(t) = IF 1 <= k - 1 THEN k - 1 - 1 + 1 ELSE 0
          /\ \A i \in 1 .. k - 1 - 1 + 1 : t[i] = s[1 + i - 1]
      BY <1>1, <2>1, SubSeqProperties
    <2>3. QED
      BY <1>1, <2>2
  <1>3. /\ u \in Seq(S)
        /\ Len(u) = Len(s) - k
        /\ \A i \in 1 .. Len(s) - k : u[i] = s[i + k]
    <2>1. \A i \in k + 1 .. Len(s) : s[i] \in S
      BY <1>1
    <2>2. /\ u \in Seq(S)
          /\ Len(u) = IF k + 1 <= Len(s) THEN Len(s) - (k + 1) + 1 ELSE 0
          /\ \A i \in 1 .. Len(s) - (k + 1) + 1 : u[i] = s[(k + 1) + i - 1]
      <3>1. k + 1 \in Int /\ Len(s) \in Int
        BY <1>1
      <3>2. QED
        BY ONLY <2>1, <3>1, SubSeqProperties
    <2>3. \A i \in 1 .. Len(s) - k : (k + 1) + i - 1 = i + k
      BY <1>1
    <2>4. QED
      BY <1>1, <2>2, <2>3
  <1>4. RemoveAt(s, k) = t \o u
    BY DEF RemoveAt
  <1> HIDE DEF t, u
  <1>5. /\ t \o u \in Seq(S)
        /\ Len(t \o u) = Len(t) + Len(u)
        /\ \A i \in 1 .. Len(t) + Len(u) :
              (t \o u)[i] = IF i <= Len(t) THEN t[i] ELSE u[i - Len(t)]
    BY <1>2, <1>3, ConcatProperties
  <1>6. QED
    BY <1>1, <1>2, <1>3, <1>4, <1>5

\* A set of places that is not empty has a first.
LEMMA LeastPlace ==
    ASSUME NEW I \in SUBSET Nat, I # {}
    PROVE  Min(I) \in I /\ \A i \in I : Min(I) <= i
  <1> DEFINE R == {ss \in Nat \X Nat : ss[1] < ss[2]}
  <1>1. IsWellFoundedOn(R, Nat)
    BY NatLessThanWellFounded DEF OpToRel
  <1>2. PICK x \in I : \A y \in I : ~(<<y, x>> \in R)
    <2> HIDE DEF R
    <2>1. QED
      BY <1>1, WFMin
  <1>3. ASSUME NEW y \in I
        PROVE  x <= y
    <2>1. x \in Nat /\ y \in Nat
      OBVIOUS
    <2>2. y < x => <<y, x>> \in R
      BY <2>1
    <2>3. QED
      BY <1>2, <2>1, <2>2
  <1>4. QED
    BY <1>3 DEF Min

\* Of any list, even one with several nodes of an id, find_idx returns the first
\* (node_manage.cc:30-39).
THEOREM FirstMatch ==
    ASSUME NEW S, NEW list \in Seq(S), NEW g
    PROVE  /\ find_idx(list, g) = 0
              => \A i \in 1 .. Len(list) : list[i].github_id # g
           /\ find_idx(list, g) # 0
              => /\ find_idx(list, g) \in 1 .. Len(list)
                 /\ list[find_idx(list, g)].github_id = g
                 /\ \A i \in 1 .. find_idx(list, g) - 1 : list[i].github_id # g
  <1> DEFINE I == {i \in 1 .. Len(list) : list[i].github_id = g}
  <1>1. find_idx(list, g) = IF I # {} THEN Min(I) ELSE 0
    BY DEF find_idx, SelectInSeq
  <1>2. CASE I = {}
    BY <1>1, <1>2
  <1>3. CASE I # {}
    <2>1. Len(list) \in Nat /\ I \in SUBSET Nat
      BY LenProperties
    <2>2. PICK k : k = Min(I)
      OBVIOUS
    <2>3. k \in I /\ \A i \in I : k <= i
      BY <1>3, <2>1, <2>2, LeastPlace
    <2>4. find_idx(list, g) = k
      BY <1>1, <1>3, <2>2
    <2>5. k \in 1 .. Len(list) /\ list[k].github_id = g /\ k # 0
      BY <2>1, <2>3
    <2>6. ASSUME NEW i \in 1 .. k - 1
          PROVE  list[i].github_id # g
      <3>1. i \in 1 .. Len(list) /\ ~(k <= i)
        BY <2>1, <2>5
      <3>2. i \notin I
        BY <2>3, <3>1
      <3>3. QED
        BY <3>1, <3>2
    <2>7. QED
      BY <2>4, <2>5, <2>6
  <1>4. QED
    BY <1>2, <1>3

\* Of any list delete_user removes the first node of that id, whatever its address,
\* and leaves the others, later ones of the same id included, in their order
\* (node_manage.cc:41-52).
THEOREM DeletesFirst ==
    ASSUME NEW S, NEW list \in Seq(S), NEW g
    PROVE  \/ /\ \A i \in 1 .. Len(list) : list[i].github_id # g
              /\ delete_user(list, g) = list
           \/ \E k \in 1 .. Len(list) :
                 /\ list[k].github_id = g
                 /\ \A i \in 1 .. k - 1 : list[i].github_id # g
                 /\ Len(delete_user(list, g)) = Len(list) - 1
                 /\ \A i \in 1 .. Len(list) - 1 :
                       delete_user(list, g)[i] = IF i < k THEN list[i] ELSE list[i + 1]
  <1>1. CASE find_idx(list, g) = 0
    BY <1>1, FirstMatch DEF delete_user
  <1>2. CASE find_idx(list, g) # 0
    <2>1. PICK k \in 1 .. Len(list) :
             /\ k = find_idx(list, g) /\ list[k].github_id = g
             /\ \A i \in 1 .. k - 1 : list[i].github_id # g
      BY <1>2, FirstMatch
    <2>2. PICK rest : rest = RemoveAt(list, k)
      OBVIOUS
    <2>3. delete_user(list, g) = rest
      BY <1>2, <2>1, <2>2 DEF delete_user
    <2>4. /\ Len(rest) = Len(list) - 1
          /\ \A i \in 1 .. Len(list) - 1 :
                rest[i] = IF i < k THEN list[i] ELSE list[i + 1]
      BY <2>2, RemoveAtProperties
    <2>5. QED
      BY <2>1, <2>3, <2>4
  <1>3. QED
    BY <1>1, <1>2

\* delete_user removes the node of that id and nothing else, and keeps the
\* ids unique (node_manage.cc:41-52).
LEMMA DeleteUser ==
    ASSUME NEW S, NEW list \in Seq(S), UniqueIds(list), NEW g
    PROVE  /\ delete_user(list, g) \in Seq(S)
           /\ UniqueIds(delete_user(list, g))
           /\ Entries(delete_user(list, g)) =
                {e \in Entries(list) : e.github_id # g}
  <1> DEFINE n == Len(list)
             k == find_idx(list, g)
             rest == delete_user(list, g)
  <1>1. n \in Nat /\ DOMAIN list = 1 .. n /\ \A i \in 1 .. n : list[i] \in S
    BY LenProperties, ElementOfSeq
  <1>2. CASE k = 0
    <2>1. rest = list
      BY <1>2 DEF delete_user
    <2>2. \A i \in 1 .. n : list[i].github_id # g
      BY <1>2, FindIdx
    <2>3. QED
      BY <1>1, <2>1, <2>2 DEF Entries, ToSet
  <1>3. CASE k # 0
    <2>1. k \in 1 .. n /\ list[k].github_id = g
      BY <1>3, FindIdx
    <2>2. rest = RemoveAt(list, k)
      BY <1>3 DEF delete_user
    <2> HIDE DEF k, rest
    <2>3. /\ rest \in Seq(S)
          /\ Len(rest) = n - 1
          /\ DOMAIN rest = 1 .. n - 1
          /\ \A i \in 1 .. n - 1 :
                rest[i] = IF i < k THEN list[i] ELSE list[i + 1]
      BY <2>1, <2>2, RemoveAtProperties, LenProperties
    <2> DEFINE from(i) == IF i < k THEN i ELSE i + 1
    <2>4. \A i \in 1 .. n - 1 : /\ from(i) \in 1 .. n
                               /\ from(i) # k
                               /\ rest[i] = list[from(i)]
      BY <1>1, <2>1, <2>3
    <2>5. \A i, j \in 1 .. n - 1 : from(i) = from(j) => i = j
      BY <1>1, <2>1
    <2> HIDE DEF from
    <2>6. \A i, j \in 1 .. n : list[i].github_id = list[j].github_id => i = j
      BY <1>1 DEF UniqueIds
    <2> HIDE DEF n
    <2>7. UniqueIds(rest)
      BY <2>3, <2>4, <2>5, <2>6 DEF UniqueIds
    <2>8. ASSUME NEW e \in Entries(rest)
          PROVE  e \in Entries(list) /\ e.github_id # g
      <3>1. PICK i \in 1 .. n - 1 : e = rest[i]
        BY <2>3, <2>8 DEF Entries, ToSet
      <3>2. QED
        BY <1>1, <2>1, <2>4, <2>6, <3>1 DEF Entries, ToSet
    <2>9. ASSUME NEW e \in Entries(list), e.github_id # g
          PROVE  e \in Entries(rest)
      <3>1. PICK i \in 1 .. n : list[i] = e /\ i # k
        BY <1>1, <2>1, <2>9 DEF Entries, ToSet
      <3>2. CASE i < k
        BY <1>1, <2>1, <2>3, <3>1, <3>2 DEF Entries, ToSet
      <3>3. CASE i > k
        <4>1. i - 1 \in 1 .. n - 1 /\ rest[i - 1] = list[i]
          BY <1>1, <2>1, <2>3, <3>1, <3>3
        <4>2. QED
          BY <2>3, <3>1, <4>1 DEF Entries, ToSet
      <3>4. QED
        BY <1>1, <2>1, <3>1, <3>2, <3>3
    <2>10. QED
      BY <2>3, <2>7, <2>8, <2>9 DEF rest
  <1>4. QED
    BY <1>2, <1>3
=============================================================================

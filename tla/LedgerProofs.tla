---------------------------- MODULE LedgerProofs ----------------------------
(***************************************************************************)
(* What post() adds to a journal, and what sets of entries and payments    *)
(* add up to, for any journal.                                             *)
(***************************************************************************)
EXTENDS Ledger, Sums

Entry(type, source, amount) ==
    [type |-> type, source |-> source, amount |-> amount, copy |-> 1]

\* post() adds one entry, the first of its source, or nothing.
LEMMA PostIs ==
  ASSUME NEW j, NEW type, NEW source, NEW amount
  PROVE  Post(j, type, source, amount) =
           IF Posted(j, type, source) THEN j ELSE j \cup {Entry(type, source, amount)}
  <1>1. CASE ~Posted(j, type, source)
    <2>1. EntriesOf(j, type, source) = {}
      BY <1>1 DEF Posted
    <2>2. Cardinality(EntriesOf(j, type, source)) + 1 = 1
      BY <2>1, FS_EmptySet
    <2>3. AddEntry(j, type, source, amount) = j \cup {Entry(type, source, amount)}
      BY <2>2 DEF AddEntry, Entry
    <2>4. QED
      BY <1>1, <2>3 DEF Post
  <1>2. QED
    BY <1>1 DEF Post

\* After post(), the ledger holds what it held and that source.
LEMMA PostedAfter ==
  ASSUME NEW j, NEW type, NEW source, NEW amount, NEW t, NEW s
  PROVE  Posted(Post(j, type, source, amount), t, s)
           <=> Posted(j, t, s) \/ (t = type /\ s = source)
  <1>1. CASE Posted(j, type, source)
    BY <1>1, PostIs
  <1>2. CASE ~Posted(j, type, source)
    <2>1. Post(j, type, source, amount) = j \cup {Entry(type, source, amount)}
      BY <1>2, PostIs
    <2>2. EntriesOf(j \cup {Entry(type, source, amount)}, t, s) =
            EntriesOf(j, t, s) \cup
            (IF t = type /\ s = source THEN {Entry(type, source, amount)} ELSE {})
      BY DEF EntriesOf, Entry
    <2>3. QED
      BY <2>1, <2>2 DEF Posted
  <1>3. QED
    BY <1>1, <1>2

\* What a ledger holds, a larger one holds as well.
LEMMA PostedGrows ==
  ASSUME NEW j, NEW k, j \subseteq k, NEW t, NEW s, Posted(j, t, s)
  PROVE  Posted(k, t, s)
  BY DEF Posted, EntriesOf

\* What a ledger holds beyond a smaller one is among the entries added.
LEMMA PostedIsOldOrNew ==
  ASSUME NEW j, NEW k, NEW t, NEW s, Posted(k, t, s), ~Posted(j, t, s)
  PROVE  \E e \in k \ j : e.type = t /\ e.source = s
  BY DEF Posted, EntriesOf

-----------------------------------------------------------------------------
(* Amounts                                                                 *)

HasAmounts(S) == \A e \in S : e.amount \in Nat

LEMMA AmountIs ==
  ASSUME NEW S
  PROVE  AmountOf(S) = SumFunctionOnSet([e \in S |-> e.amount], S)
  BY DEF AmountOf, SumFunction

LEMMA AmountOfNone == AmountOf({}) = 0
  BY AmountIs, SumOfNothing

LEMMA AmountIsNat ==
  ASSUME NEW S, IsFiniteSet(S), HasAmounts(S)
  PROVE  AmountOf(S) \in Nat
  BY AmountIs, SumIsNat DEF HasAmounts

LEMMA AmountWith ==
  ASSUME NEW S, IsFiniteSet(S), NEW e, e \notin S, HasAmounts(S), e.amount \in Nat
  PROVE  AmountOf(S \cup {e}) = AmountOf(S) + e.amount
  <1> DEFINE T == S \cup {e}
             f == [x \in S |-> x.amount]
             g == [x \in T |-> x.amount]
  <1>1. Numeric(g, S) /\ g[e] = e.amount /\ g[e] \in Int /\ \A x \in S : f[x] = g[x]
    BY DEF Numeric, HasAmounts
  <1>2. AmountOf(T) = SumFunctionOnSet(g, T) /\ AmountOf(S) = SumFunctionOnSet(f, S)
    BY AmountIs
  <1> HIDE DEF f, g
  <1>3. SumFunctionOnSet(g, T) = g[e] + SumFunctionOnSet(g, S)
    BY <1>1, SumWith
  <1>4. SumFunctionOnSet(f, S) = SumFunctionOnSet(g, S)
    BY <1>1, SumAgrees
  <1>5. SumFunctionOnSet(g, S) \in Int
    BY <1>1, SumIsInt
  <1> HIDE DEF T
  <1>6. AmountOf(T) = AmountOf(S) + e.amount
    BY <1>1, <1>2, <1>3, <1>4, <1>5
  <1> QED
    BY <1>6 DEF T

LEMMA AmountOfOne ==
  ASSUME NEW e, e.amount \in Nat
  PROVE  AmountOf({e}) = e.amount
  <1>1. IsFiniteSet({}) /\ HasAmounts({}) /\ {} \cup {e} = {e}
    BY FS_EmptySet DEF HasAmounts
  <1>2. AmountOf({} \cup {e}) = AmountOf({}) + e.amount
    BY <1>1, AmountWith
  <1> QED
    BY <1>1, <1>2, AmountOfNone

LEMMA AmountOfBoth ==
  ASSUME NEW S, IsFiniteSet(S), NEW T, IsFiniteSet(T), S \cap T = {},
         HasAmounts(S), HasAmounts(T)
  PROVE  AmountOf(S \cup T) = AmountOf(S) + AmountOf(T)
  <1> DEFINE U == S \cup T
             f == [x \in S |-> x.amount]
             g == [x \in T |-> x.amount]
             h == [x \in U |-> x.amount]
  <1>1. /\ Numeric(h, U) /\ (\A x \in S : f[x] = h[x]) /\ (\A x \in T : g[x] = h[x])
        /\ S \subseteq U /\ U \ S = T
    BY DEF Numeric, HasAmounts
  <1>2. /\ AmountOf(U) = SumFunctionOnSet(h, U) /\ AmountOf(S) = SumFunctionOnSet(f, S)
        /\ AmountOf(T) = SumFunctionOnSet(g, T)
    BY AmountIs
  <1>3. IsFiniteSet(U)
    BY FS_Union
  <1> HIDE DEF U, f, g, h
  <1>4. SumFunctionOnSet(h, U) = SumFunctionOnSet(h, S) + SumFunctionOnSet(h, T)
    BY <1>1, <1>3, SumInParts
  <1>5. /\ SumFunctionOnSet(f, S) = SumFunctionOnSet(h, S)
        /\ SumFunctionOnSet(g, T) = SumFunctionOnSet(h, T)
    BY <1>1, SumAgrees
  <1> QED
    BY <1>2, <1>4, <1>5 DEF U

-----------------------------------------------------------------------------
(* Entries                                                                 *)

\* No source has two entries of one type, and entries have amounts.
OnePerSource(j) ==
    /\ HasAmounts(j)
    /\ \A e, f \in j : e.type = f.type /\ e.source = f.source => e = f

LEMMA PostOnePerSource ==
  ASSUME NEW j, OnePerSource(j), NEW type, NEW source, NEW amount \in Nat
  PROVE  OnePerSource(Post(j, type, source, amount))
  BY PostIs DEF OnePerSource, HasAmounts, Posted, EntriesOf, Entry

\* The entry of a document has its amount.
LEMMA AmountOfEntry ==
  ASSUME NEW j, OnePerSource(j), NEW type, NEW source, NEW amount \in Nat,
         \A e \in EntriesOf(j, type, source) : e.amount = amount
  PROVE  /\ IsFiniteSet(EntriesOf(j, type, source))
         /\ AmountOf(EntriesOf(j, type, source)) =
              IF Posted(j, type, source) THEN amount ELSE 0
  <1>1. CASE ~Posted(j, type, source)
    BY <1>1, AmountOfNone, FS_EmptySet DEF Posted
  <1>2. CASE Posted(j, type, source)
    <2>1. PICK e : e \in EntriesOf(j, type, source)
      BY <1>2 DEF Posted
    <2>2. EntriesOf(j, type, source) = {e}
      BY <2>1 DEF EntriesOf, OnePerSource
    <2>3. AmountOf({e}) = amount /\ IsFiniteSet({e})
      BY <2>1, AmountOfOne, FS_Singleton
    <2> QED
      BY <1>2, <2>2, <2>3
  <1> QED
    BY <1>1, <1>2

\* The entries of one type about rows that are numbered, as payments are.
EntriesFor(j, type, rows) == {e \in j : e.type = type /\ \E p \in rows : e.source = p.id}

LEMMA AmountOfEntries ==
  ASSUME NEW j, OnePerSource(j), NEW type, NEW rows, IsFiniteSet(rows), HasAmounts(rows),
         \A p, q \in rows : p.id = q.id => p = q,
         \A p \in rows : Posted(j, type, p.id),
         \A p \in rows : \A e \in EntriesOf(j, type, p.id) : e.amount = p.amount
  PROVE  /\ IsFiniteSet(EntriesFor(j, type, rows))
         /\ AmountOf(EntriesFor(j, type, rows)) = AmountOf(rows)
  <1> DEFINE E == EntriesFor(j, type, rows)
             h == [p \in rows |-> CHOOSE e \in EntriesOf(j, type, p.id) : TRUE]
             f == [p \in rows |-> p.amount]
             g == [e \in E |-> e.amount]
  <1>1. \A p \in rows : h[p] \in EntriesOf(j, type, p.id)
    BY DEF Posted
  <1> HIDE DEF h
  <1>2. \A p \in rows : h[p] \in j /\ h[p].type = type /\ h[p].source = p.id
    BY <1>1 DEF EntriesOf
  <1>3. Named(h, rows) = E
    <2>1. \A p \in rows : h[p] \in E
      BY <1>2 DEF EntriesFor
    <2>2. ASSUME NEW e \in E PROVE \E p \in rows : e = h[p]
      <3>1. PICK p \in rows : e.source = p.id
        BY DEF EntriesFor
      <3>2. e \in j /\ e.type = type
        BY DEF EntriesFor
      <3> QED
        BY <1>2, <3>1, <3>2 DEF OnePerSource
    <2> HIDE DEF E
    <2> QED
      BY <2>1, <2>2 DEF Named
  <1>4. \A p, q \in rows : h[p] = h[q] => p = q
    BY <1>2
  <1>5. \A p \in rows : g[h[p]] = f[p]
    <2>1. \A p \in rows : h[p] \in E /\ h[p].amount = p.amount
      BY <1>1, <1>3 DEF Named
    <2> HIDE DEF E
    <2> QED
      BY <2>1
  <1>6. /\ Numeric(f, rows) /\ AmountOf(E) = SumFunctionOnSet(g, E)
        /\ AmountOf(rows) = SumFunctionOnSet(f, rows)
    BY AmountIs DEF Numeric, HasAmounts
  <1> HIDE DEF f, g, E
  <1>7. /\ IsFiniteSet(Named(h, rows))
        /\ SumFunctionOnSet(g, Named(h, rows)) = SumFunctionOnSet(f, rows)
    BY <1>4, <1>5, <1>6, SumRenamed
  <1> QED
    BY <1>3, <1>6, <1>7 DEF E

LEMMA AmountOfNoEntries ==
  ASSUME NEW j, NEW type, NEW rows, \A p \in rows : ~Posted(j, type, p.id)
  PROVE  /\ IsFiniteSet(EntriesFor(j, type, rows))
         /\ AmountOf(EntriesFor(j, type, rows)) = 0
  <1>1. EntriesFor(j, type, rows) = {}
    BY DEF EntriesFor, Posted, EntriesOf
  <1> QED
    BY <1>1, AmountOfNone, FS_EmptySet
-----------------------------------------------------------------------------
(* Reversals                                                               *)

\* One entry for every row that has none yet.
PostAll(j, type, rows) == j \cup UNION {Post(j, type, p.id, p.amount) : p \in rows}

LEMMA PostAllIs ==
  ASSUME NEW j, NEW type, NEW rows
  PROVE  /\ j \subseteq PostAll(j, type, rows)
         /\ \A e \in PostAll(j, type, rows) :
              \/ e \in j
              \/ \E p \in rows : e = Entry(type, p.id, p.amount) /\ ~Posted(j, type, p.id)
         /\ \A p \in rows : Posted(PostAll(j, type, rows), type, p.id)
  <1> DEFINE k == PostAll(j, type, rows)
  <1>1. \A p \in rows : Post(j, type, p.id, p.amount) \subseteq k
    BY DEF PostAll
  <1>2. \A e \in k : e \in j \/ \E p \in rows : e \in Post(j, type, p.id, p.amount)
    BY DEF PostAll
  <1>3. j \subseteq k
    BY DEF PostAll
  <1> HIDE DEF k
  <1>4. \A p \in rows : Posted(k, type, p.id)
    BY <1>1, PostedAfter, PostedGrows
  <1>5. \A e \in k : \/ e \in j
                    \/ \E p \in rows : e = Entry(type, p.id, p.amount) /\ ~Posted(j, type, p.id)
    BY <1>2, PostIs
  <1> QED
    BY <1>3, <1>4, <1>5 DEF k

LEMMA PostAllOnePerSource ==
  ASSUME NEW j, OnePerSource(j), NEW type, NEW rows, HasAmounts(rows),
         \A p, q \in rows : p.id = q.id => p = q
  PROVE  OnePerSource(PostAll(j, type, rows))
  <1> DEFINE k == PostAll(j, type, rows)
  <1>1. \A e \in k : \/ e \in j
                    \/ \E p \in rows : e = Entry(type, p.id, p.amount) /\ ~Posted(j, type, p.id)
    BY PostAllIs
  <1> HIDE DEF k
  <1>2. HasAmounts(k)
    BY <1>1 DEF OnePerSource, HasAmounts, Entry
  <1>3. ASSUME NEW e \in k, NEW f \in k, e.type = f.type, e.source = f.source
        PROVE  e = f
    <2>1. ASSUME NEW p \in rows, e = Entry(type, p.id, p.amount), ~Posted(j, type, p.id)
          PROVE  f \notin j
      BY <1>3, <2>1 DEF Posted, EntriesOf, Entry
    <2>2. ASSUME NEW p \in rows, f = Entry(type, p.id, p.amount), ~Posted(j, type, p.id)
          PROVE  e \notin j
      BY <1>3, <2>2 DEF Posted, EntriesOf, Entry
    <2>3. CASE e \in j
      BY <1>1, <1>3, <2>2, <2>3 DEF OnePerSource
    <2>4. CASE e \notin j
      <3>1. PICK p \in rows : e = Entry(type, p.id, p.amount) /\ ~Posted(j, type, p.id)
        BY <1>1, <2>4
      <3>2. PICK q \in rows : f = Entry(type, q.id, q.amount)
        BY <1>1, <2>1, <3>1
      <3>3. p.id = q.id
        BY <1>3, <3>1, <3>2 DEF Entry
      <3> QED
        BY <3>1, <3>2, <3>3
    <2> QED
      BY <2>3, <2>4
  <1>4. OnePerSource(k)
    BY <1>2, <1>3 DEF OnePerSource
  <1> QED
    BY <1>4 DEF k
=============================================================================

--------------------------- MODULE DexTablesProofs ---------------------------
(***************************************************************************)
(* Theorems of DexTables, for any number of items, committees and blocks.  *)
(*                                                                         *)
(* Everything an item goes through is fixed by three heights: it enters    *)
(* the next batch, is locked, and is settled.  The node's batches, the     *)
(* rows that are true of them and the order of the rows all follow from    *)
(* these by arithmetic.                                                    *)
(***************************************************************************)
EXTENDS DexTables, SetsOfNumbers

-----------------------------------------------------------------------------
(* The inductive invariant *)

TermsOf == UNION {[S -> Terms] : S \in SUBSET Items}

Batches == [next : TermsOf, locked : TermsOf, lockedAt : [Committees -> Nat],
            events : UNION {[S -> Results] : S \in SUBSET Items}]

\* What the block of height h says of an item that enters at e, is locked at l
\* and settled at c.
Fits(b, i, h, e, l, c, T) ==
    /\ i \in DOMAIN b.next <=> (e <= h /\ h < l)
    /\ i \in DOMAIN b.locked <=> (l <= h /\ h < c)
    /\ i \in DOMAIN b.events <=> h = c
    /\ i \in DOMAIN b.next => b.next[i] = T
    /\ i \in DOMAIN b.locked => (b.locked[i] = T /\ b.lockedAt[CommitteeOf[i]] = l)

\* Heights the node has not reached yet stand for "some day, or never".
Life(i, e, l, c, T) ==
    /\ 1 <= e /\ e < l /\ l < c
    /\ \A h \in 1 .. Len(node) : Fits(node[h], i, h, e, l, c, T)

ItemsLive == \A i \in Items : \E e, l, c \in Nat, T \in Terms \union {None} : Life(i, e, l, c, T)

\* A row tells what the block of its height, or the one before it, says of it.
IsPending(r) ==
    LET b == node[r.height] IN
    /\ r.key \in DOMAIN b.next
    /\ r = Row(r.key, r.height, Columns("pending", b.next[r.key], None), 0)

IsLocked(r) ==
    LET b == node[r.height] IN
    /\ r.key \in DOMAIN b.locked
    /\ r = Row(r.key, r.height, Columns("locked", b.locked[r.key], None),
               LockedHeight(KindOf[r.key], b, r.key))

IsComplete(r) ==
    LET b == node[r.height]
        a == node[r.height - 1]
    IN  /\ r.height > 1
        /\ r.key \in DOMAIN a.locked \intersect DOMAIN b.events
        /\ r.key \in Readable
        /\ "change" \in views[r.height]
        /\ r = Row(r.key, r.height, Columns("complete", a.locked[r.key], b.events[r.key]),
                   LockedHeight(KindOf[r.key], a, r.key))

RowsAreTrue ==
    \A k \in Kinds : \A r \in tables[k] :
        /\ r.key \in Items /\ KindOf[r.key] = k
        /\ r.height \in 1 .. Len(node) /\ views[r.height] # {}
        /\ IsPending(r) \/ IsLocked(r) \/ IsComplete(r)

\* What a stored block is the first to say of an item has a row.
Before(h) == IF h > 1 THEN node[h - 1] ELSE NoBatches

News(i, h) ==
    \/ i \in DOMAIN node[h].next \ DOMAIN Before(h).next
    \/ i \in DOMAIN node[h].locked \ DOMAIN Before(h).locked
    \/ i \in DOMAIN node[h].events /\ i \in Readable /\ "change" \in views[h]

NewsHaveRows ==
    \A h \in 1 .. Len(node), i \in Items :
        views[h] # {} /\ News(i, h) => \E r \in tables[KindOf[i]] : r.key = i /\ r.height = h

Typed ==
    /\ node \in Seq(Batches)
    /\ Len(node) <= MaxHeight
    /\ views \in [1 .. MaxHeight -> SUBSET Views]
    /\ \A h \in 1 .. MaxHeight : views[h] # {} => h <= Len(node)
    /\ DOMAIN tables = Kinds

IInv == Typed /\ ItemsLive /\ RowsAreTrue /\ NewsHaveRows

-----------------------------------------------------------------------------
(* The node *)

(* The tip is the latest block, or nothing.                                *)
LEMMA TipFits ==
    ASSUME Typed, NEW i \in Items, NEW e \in Nat, NEW l \in Nat, NEW c \in Nat, NEW T,
           Life(i, e, l, c, T)
    PROVE  Fits(Tip, i, Len(node), e, l, c, T)
<1>0. Len(node) \in Nat
    BY DEF Typed
<1>1. CASE node = <<>>
    <2>1. Tip = NoBatches /\ Len(node) = 0
        BY <1>1 DEF Tip
    <2>2. DOMAIN NoBatches.next = {} /\ DOMAIN NoBatches.locked = {} /\ DOMAIN NoBatches.events = {}
        BY DEF NoBatches, NoItems
    <2> QED
        BY <2>1, <2>2 DEF Fits, Life
<1>2. CASE node # <<>>
    <2>1. Len(node) \in 1 .. Len(node)
        BY <1>0, <1>2 DEF Typed
    <2> QED
        BY <1>2, <2>1 DEF Tip, Life
<1> QED
    BY <1>1, <1>2

(* An item is in a batch of some block exactly if it has entered.          *)
LEMMA EnteredItems ==
    ASSUME Typed, NEW i \in Items, NEW e \in Nat, NEW l \in Nat, NEW c \in Nat, NEW T,
           Life(i, e, l, c, T)
    PROVE  i \in Entered <=> e <= Len(node)
<1>0. Len(node) \in Nat
    BY DEF Typed
<1>1. ASSUME i \in Entered PROVE e <= Len(node)
    <2>1. PICK h \in 1 .. Len(node) : i \in DOMAIN node[h].next \union DOMAIN node[h].locked
        BY <1>1 DEF Entered
    <2> QED
        BY <1>0, <2>1 DEF Life, Fits
<1>2. ASSUME e <= Len(node) PROVE i \in Entered
    <2>1. e \in 1 .. Len(node)
        BY <1>0, <1>2 DEF Life
    <2>2. i \in DOMAIN node[e].next
        BY <2>1 DEF Life, Fits
    <2> QED
        BY <2>1, <2>2 DEF Entered
<1> QED
    BY <1>1, <1>2

\* The block that NodeAdvances appends.
NewBlock(rotating, joining, results) ==
    LET of == {i \in Items : CommitteeOf[i] \in rotating}
    IN  [next     |-> Merge(Only(Tip.next, Items \ of), joining),
         locked   |-> Merge(Only(Tip.locked, Items \ of), Only(Tip.next, of)),
         lockedAt |-> [c \in Committees |->
                         IF c \in rotating THEN Len(node) + 1 ELSE Tip.lockedAt[c]],
         events   |-> results]

\* Its parameters, as Next chooses them.
Advance(rotating, S, joining, results) ==
    /\ S \subseteq Items \ Entered
    /\ joining \in [S -> Terms]
    /\ results \in [{i \in DOMAIN Tip.locked : CommitteeOf[i] \in rotating} -> Results]
    /\ NodeAdvances(rotating, joining, results)

(* What the new block says of an item, from what the tip says.             *)
LEMMA NewBlockSays ==
    ASSUME NEW i \in Items, NEW rotating, NEW S, NEW joining \in [S -> Terms],
           NEW results \in [{j \in DOMAIN Tip.locked : CommitteeOf[j] \in rotating} -> Results],
           i \in S => i \notin DOMAIN Tip.next
    PROVE  LET b == NewBlock(rotating, joining, results)
               turns == CommitteeOf[i] \in rotating
           IN  /\ i \in DOMAIN b.next <=> ((i \in DOMAIN Tip.next /\ ~turns) \/ i \in S)
               /\ i \in DOMAIN b.next => b.next[i] = IF i \in S THEN joining[i] ELSE Tip.next[i]
               /\ i \in DOMAIN b.locked <=>
                    ((i \in DOMAIN Tip.locked /\ ~turns) \/ (i \in DOMAIN Tip.next /\ turns))
               /\ i \in DOMAIN b.locked =>
                    b.locked[i] = IF i \in DOMAIN Tip.next /\ turns
                                  THEN Tip.next[i] ELSE Tip.locked[i]
               /\ b.lockedAt[CommitteeOf[i]] =
                    IF turns THEN Len(node) + 1 ELSE Tip.lockedAt[CommitteeOf[i]]
               /\ i \in DOMAIN b.events <=> (i \in DOMAIN Tip.locked /\ turns)
<1> DEFINE b == NewBlock(rotating, joining, results)
           of == {j \in Items : CommitteeOf[j] \in rotating}
           left == Only(Tip.next, Items \ of)
           kept == Only(Tip.locked, Items \ of)
           moved == Only(Tip.next, of)
<1>1. /\ b.next = Merge(left, joining)
      /\ b.locked = Merge(kept, moved)
      /\ b.lockedAt = [k \in Committees |->
                         IF k \in rotating THEN Len(node) + 1 ELSE Tip.lockedAt[k]]
      /\ b.events = results
    BY DEF NewBlock
<1>2. /\ i \in DOMAIN left <=> i \in DOMAIN Tip.next /\ CommitteeOf[i] \notin rotating
      /\ i \in DOMAIN left => left[i] = Tip.next[i]
      /\ i \in DOMAIN kept <=> i \in DOMAIN Tip.locked /\ CommitteeOf[i] \notin rotating
      /\ i \in DOMAIN kept => kept[i] = Tip.locked[i]
      /\ i \in DOMAIN moved <=> i \in DOMAIN Tip.next /\ CommitteeOf[i] \in rotating
      /\ i \in DOMAIN moved => moved[i] = Tip.next[i]
    BY DEF Only
<1> HIDE DEF b, left, kept, moved
<1>3. /\ i \in DOMAIN b.next <=> i \in DOMAIN left \/ i \in S
      /\ i \in DOMAIN b.next => b.next[i] = IF i \in S THEN joining[i] ELSE left[i]
    BY <1>1 DEF Merge
<1>4. /\ i \in DOMAIN b.locked <=> i \in DOMAIN kept \/ i \in DOMAIN moved
      /\ i \in DOMAIN b.locked =>
           b.locked[i] = IF i \in DOMAIN moved THEN moved[i] ELSE kept[i]
    BY <1>1 DEF Merge
<1>5. CommitteeOf[i] \in Committees
    BY ConstantsAssumption
<1>6. b.lockedAt[CommitteeOf[i]] =
        IF CommitteeOf[i] \in rotating THEN Len(node) + 1 ELSE Tip.lockedAt[CommitteeOf[i]]
    BY <1>1, <1>5
<1>7. i \in DOMAIN b.events <=> i \in DOMAIN Tip.locked /\ CommitteeOf[i] \in rotating
    BY <1>1
<1> QED
    BY <1>2, <1>3, <1>4, <1>6, <1>7 DEF b

(* The heights of an item's life, as far as they are known, stay.          *)
LEMMA LifeGoesOn ==
    ASSUME Typed, NEW i \in Items, NEW e \in Nat, NEW l \in Nat, NEW c \in Nat, NEW T,
           Life(i, e, l, c, T), T \in Terms \union {None},
           NEW rotating, NEW S, NEW joining, NEW results,
           Advance(rotating, S, joining, results)
    PROVE  \E e1, l1, c1 \in Nat, T1 \in Terms \union {None} : Life(i, e1, l1, c1, T1)'
<1> DEFINE n == Len(node)
           b == NewBlock(rotating, joining, results)
           turns == CommitteeOf[i] \in rotating
<1>1. n \in Nat /\ n + 1 \in Nat /\ n + 2 \in Nat /\ n + 3 \in Nat /\ n + 4 \in Nat
    BY DEF Typed
<1>2. 1 <= e /\ e < l /\ l < c /\ \A h \in 1 .. n : Fits(node[h], i, h, e, l, c, T)
    BY DEF Life
<1>3. /\ i \in DOMAIN Tip.next <=> (e <= n /\ n < l)
      /\ i \in DOMAIN Tip.locked <=> (l <= n /\ n < c)
      /\ i \in DOMAIN Tip.next => Tip.next[i] = T
      /\ i \in DOMAIN Tip.locked => (Tip.locked[i] = T /\ Tip.lockedAt[CommitteeOf[i]] = l)
    BY TipFits DEF Fits
<1>4. i \in S => n < e
    BY <1>1, EnteredItems DEF Advance
<1>5. /\ i \in DOMAIN b.next <=> ((i \in DOMAIN Tip.next /\ ~turns) \/ i \in S)
      /\ i \in DOMAIN b.next => b.next[i] = IF i \in S THEN joining[i] ELSE Tip.next[i]
      /\ i \in DOMAIN b.locked <=>
           ((i \in DOMAIN Tip.locked /\ ~turns) \/ (i \in DOMAIN Tip.next /\ turns))
      /\ i \in DOMAIN b.locked =>
           b.locked[i] = IF i \in DOMAIN Tip.next /\ turns THEN Tip.next[i] ELSE Tip.locked[i]
      /\ b.lockedAt[CommitteeOf[i]] = IF turns THEN n + 1 ELSE Tip.lockedAt[CommitteeOf[i]]
      /\ i \in DOMAIN b.events <=> (i \in DOMAIN Tip.locked /\ turns)
    <2>1. i \in S => i \notin DOMAIN Tip.next
        BY <1>1, <1>3, <1>4
    <2> QED
        BY <2>1, NewBlockSays DEF Advance
<1>6. /\ Len(node') = n + 1
      /\ \A h \in 1 .. n : node'[h] = node[h]
      /\ node'[n + 1] = b
    BY DEF Advance, NodeAdvances, NewBlock, Typed
<1>7. i \in S => joining[i] \in Terms
    BY DEF Advance
<1> HIDE DEF b, turns, n
<1>8. ASSUME NEW e1 \in Nat, NEW l1 \in Nat, NEW c1 \in Nat, NEW T1 \in Terms \union {None},
             1 <= e1, e1 < l1, l1 < c1,
             \A h \in 1 .. n : Fits(node[h], i, h, e1, l1, c1, T1),
             Fits(b, i, n + 1, e1, l1, c1, T1)
      PROVE  \E e2, l2, c2 \in Nat, T2 \in Terms \union {None} : Life(i, e2, l2, c2, T2)'
    <2>1. ASSUME NEW h \in 1 .. n + 1
          PROVE  Fits(node'[h], i, h, e1, l1, c1, T1)
        <3>1. CASE h = n + 1
            BY <3>1, <1>6, <1>8
        <3>2. CASE h # n + 1
            <4>1. h \in 1 .. n
                BY <3>2, <1>1
            <4> QED
                BY <4>1, <1>6, <1>8
        <3> QED
            BY <3>1, <3>2
    <2>2. Life(i, e1, l1, c1, T1)'
        BY <1>6, <1>8, <2>1 DEF Life
    <2> QED
        BY <2>2
<1>9. CASE n < e /\ i \in S
    <2>1. \A h \in 1 .. n : Fits(node[h], i, h, n + 1, n + 2, n + 3, joining[i])
        BY <1>1, <1>2, <1>9 DEF Fits
    <2>2. Fits(b, i, n + 1, n + 1, n + 2, n + 3, joining[i])
        BY <1>1, <1>2, <1>3, <1>5, <1>9 DEF Fits
    <2> QED
        BY <1>1, <1>7, <1>8, <1>9, <2>1, <2>2
<1>10. CASE n < e /\ i \notin S
    <2>1. \A h \in 1 .. n : Fits(node[h], i, h, n + 2, n + 3, n + 4, T)
        BY <1>1, <1>2, <1>10 DEF Fits
    <2>2. Fits(b, i, n + 1, n + 2, n + 3, n + 4, T)
        BY <1>1, <1>2, <1>3, <1>5, <1>10 DEF Fits
    <2> QED
        BY <1>1, <1>8, <2>1, <2>2
<1>11. CASE e <= n /\ n < l /\ turns
    <2>1. \A h \in 1 .. n : Fits(node[h], i, h, e, n + 1, n + 2, T)
        BY <1>1, <1>2, <1>11 DEF Fits
    <2>2. Fits(b, i, n + 1, e, n + 1, n + 2, T)
        BY <1>1, <1>2, <1>3, <1>4, <1>5, <1>11 DEF Fits
    <2> QED
        BY <1>1, <1>2, <1>8, <1>11, <2>1, <2>2
<1>12. CASE e <= n /\ n < l /\ ~turns
    <2>1. \A h \in 1 .. n : Fits(node[h], i, h, e, n + 2, n + 3, T)
        BY <1>1, <1>2, <1>12 DEF Fits
    <2>2. Fits(b, i, n + 1, e, n + 2, n + 3, T)
        BY <1>1, <1>2, <1>3, <1>4, <1>5, <1>12 DEF Fits
    <2> QED
        BY <1>1, <1>2, <1>8, <1>12, <2>1, <2>2
<1>13. CASE l <= n /\ n < c /\ turns
    <2>1. \A h \in 1 .. n : Fits(node[h], i, h, e, l, n + 1, T)
        BY <1>1, <1>2, <1>13 DEF Fits
    <2>2. Fits(b, i, n + 1, e, l, n + 1, T)
        BY <1>1, <1>2, <1>3, <1>4, <1>5, <1>13 DEF Fits
    <2> QED
        BY <1>1, <1>2, <1>8, <1>13, <2>1, <2>2
<1>14. CASE l <= n /\ n < c /\ ~turns
    <2>1. \A h \in 1 .. n : Fits(node[h], i, h, e, l, n + 2, T)
        BY <1>1, <1>2, <1>14 DEF Fits
    <2>2. Fits(b, i, n + 1, e, l, n + 2, T)
        BY <1>1, <1>2, <1>3, <1>4, <1>5, <1>14 DEF Fits
    <2> QED
        BY <1>1, <1>2, <1>8, <1>14, <2>1, <2>2
<1>15. CASE c <= n
    <2>1. Fits(b, i, n + 1, e, l, c, T)
        BY <1>1, <1>2, <1>3, <1>4, <1>5, <1>15 DEF Fits
    <2> QED
        BY <1>2, <1>8, <2>1
<1> QED
    BY <1>1, <1>2, <1>9, <1>10, <1>11, <1>12, <1>13, <1>14, <1>15

(* The batches keep their types.                                           *)
LEMMA NewBlockTyped ==
    ASSUME Typed, NEW rotating, NEW S, NEW joining, NEW results,
           Advance(rotating, S, joining, results)
    PROVE  NewBlock(rotating, joining, results) \in Batches
<1> DEFINE b == NewBlock(rotating, joining, results)
           of == {j \in Items : CommitteeOf[j] \in rotating}
<1>1. ASSUME NEW f \in TermsOf, NEW P PROVE Only(f, P) \in TermsOf
    <2>1. PICK D \in SUBSET Items : f \in [D -> Terms]
        BY DEF TermsOf
    <2>2. Only(f, P) \in [D \intersect P -> Terms] /\ D \intersect P \in SUBSET Items
        BY <2>1 DEF Only
    <2> QED
        BY <2>2 DEF TermsOf
<1>2. ASSUME NEW f \in TermsOf, NEW g \in TermsOf PROVE Merge(f, g) \in TermsOf
    <2>1. PICK D \in SUBSET Items : f \in [D -> Terms]
        BY DEF TermsOf
    <2>2. PICK E \in SUBSET Items : g \in [E -> Terms]
        BY DEF TermsOf
    <2>3. Merge(f, g) \in [D \union E -> Terms] /\ D \union E \in SUBSET Items
        BY <2>1, <2>2 DEF Merge
    <2> QED
        BY <2>3 DEF TermsOf
<1>3. Tip.next \in TermsOf /\ Tip.locked \in TermsOf /\ Tip.lockedAt \in [Committees -> Nat]
    <2>1. CASE node = <<>>
        <3>1. NoItems \in [{} -> Terms]
            BY DEF NoItems
        <3>2. NoItems \in TermsOf
            BY <3>1 DEF TermsOf
        <3> QED
            BY <2>1, <3>2 DEF Tip, NoBatches
    <2>2. CASE node # <<>>
        <3>1. node[Len(node)] \in Batches
            BY <2>2 DEF Typed
        <3> QED
            BY <2>2, <3>1 DEF Tip, Batches
    <2> QED
        BY <2>1, <2>2
<1>4. joining \in TermsOf
    BY DEF Advance, TermsOf
<1>5. results \in UNION {[D -> Results] : D \in SUBSET Items}
    <2>1. PICK D \in SUBSET Items : Tip.locked \in [D -> Terms]
        BY <1>3 DEF TermsOf
    <2>2. {i \in DOMAIN Tip.locked : CommitteeOf[i] \in rotating} \in SUBSET Items
        BY <2>1
    <2> QED
        BY <2>2 DEF Advance
<1>6. b.next \in TermsOf /\ b.locked \in TermsOf
    BY <1>1, <1>2, <1>3, <1>4 DEF NewBlock
<1>7. [k \in Committees |-> IF k \in rotating THEN Len(node) + 1 ELSE Tip.lockedAt[k]]
        \in [Committees -> Nat]
    BY <1>3 DEF Typed
<1> QED
    BY <1>5, <1>6, <1>7 DEF NewBlock, Batches

(* A block of the node leaves the rows as true as they were.               *)
LEMMA AdvanceKeeps ==
    ASSUME IInv, NEW rotating, NEW S, NEW joining, NEW results,
           Advance(rotating, S, joining, results)
    PROVE  IInv'
<1> DEFINE b == NewBlock(rotating, joining, results)
<1>1. /\ node' = Append(node, b) /\ Len(node) < MaxHeight
      /\ UNCHANGED <<views, tables>>
    BY DEF Advance, NodeAdvances, NewBlock
<1>2. b \in Batches
    BY NewBlockTyped DEF IInv
<1> HIDE DEF b
<1>3. /\ Len(node) \in Nat /\ Len(node') = Len(node) + 1 /\ node' \in Seq(Batches)
      /\ \A h \in 1 .. Len(node) : node'[h] = node[h]
    BY <1>1, <1>2 DEF IInv, Typed
<1>4. Typed'
    BY <1>1, <1>3, ConstantsAssumption, SMTT(30) DEF IInv, Typed
<1>5. ItemsLive'
    <2> SUFFICES ASSUME NEW i \in Items
                 PROVE  \E e, l, c \in Nat, T \in Terms \union {None} : Life(i, e, l, c, T)'
        BY DEF ItemsLive
    <2>1. PICK e \in Nat, l \in Nat, c \in Nat, T \in Terms \union {None} : Life(i, e, l, c, T)
        BY DEF IInv, ItemsLive
    <2> QED
        BY <2>1, LifeGoesOn DEF IInv
<1>6. RowsAreTrue'
    <2> SUFFICES ASSUME NEW k \in Kinds, NEW r \in tables[k]
                 PROVE  /\ r.key \in Items /\ KindOf[r.key] = k
                        /\ r.height \in 1 .. Len(node') /\ views[r.height] # {}
                        /\ IsPending(r)' \/ IsLocked(r)' \/ IsComplete(r)'
        BY <1>1 DEF RowsAreTrue
    <2>1. /\ r.key \in Items /\ KindOf[r.key] = k
          /\ r.height \in 1 .. Len(node) /\ views[r.height] # {}
          /\ IsPending(r) \/ IsLocked(r) \/ IsComplete(r)
        BY DEF IInv, RowsAreTrue
    <2>2. node'[r.height] = node[r.height]
        BY <1>3, <2>1
    <2>3. r.height > 1 => node'[r.height - 1] = node[r.height - 1]
        BY <1>3, <2>1
    <2>4. IsPending(r) => IsPending(r)'
        BY <2>2 DEF IsPending
    <2>5. IsLocked(r) => IsLocked(r)'
        BY <2>2 DEF IsLocked
    <2>6. IsComplete(r) => IsComplete(r)'
        BY <1>1, <2>2, <2>3 DEF IsComplete
    <2> QED
        BY <1>3, <2>1, <2>4, <2>5, <2>6
<1>7. NewsHaveRows'
    <2> SUFFICES ASSUME NEW h \in 1 .. Len(node'), NEW i \in Items, views[h] # {}, News(i, h)'
                 PROVE  \E r \in tables[KindOf[i]] : r.key = i /\ r.height = h
        BY <1>1 DEF NewsHaveRows
    <2>1. h \in 1 .. MaxHeight
        BY <1>1, <1>3, ConstantsAssumption
    <2>2. h \in 1 .. Len(node)
        BY <1>3, <2>1 DEF IInv, Typed
    <2>3. node'[h] = node[h] /\ Before(h)' = Before(h)
        BY <1>3, <2>2 DEF Before
    <2>4. News(i, h)
        BY <1>1, <2>3 DEF News
    <2> QED
        BY <2>2, <2>4 DEF IInv, NewsHaveRows
<1> QED
    BY <1>4, <1>5, <1>6, <1>7 DEF IInv

-----------------------------------------------------------------------------
(* Writing a block *)

(* After an upsert a table has only old and new rows, and still one        *)
(* wherever it had one or was given one.                                   *)
LEMMA UpsertSays ==
    ASSUME NEW table, NEW new
    PROVE  /\ Upsert(table, new) \subseteq table \union new
           /\ \A r \in table \union new :
                \E q \in Upsert(table, new) : q.key = r.key /\ q.height = r.height
BY DEF Upsert

(* The same of the three upserts of a conversion.                          *)
LEMMA UpsertPartsSays ==
    ASSUME NEW table, NEW A, NEW B, NEW C
    PROVE  LET all == table \union A \union B \union C
               after == UpsertParts(table, <<A, B, C>>)
           IN  /\ after \subseteq all
               /\ \A r \in all : \E q \in after : q.key = r.key /\ q.height = r.height
<1> DEFINE one == Upsert(table, A)
           two == Upsert(one, B)
           three == Upsert(two, C)
<1>1. UpsertParts(table, <<A, B, C>>) = three
    BY DEF UpsertParts
<1>2. /\ one \subseteq table \union A
      /\ \A r \in table \union A : \E q \in one : q.key = r.key /\ q.height = r.height
    BY UpsertSays
<1>3. /\ two \subseteq one \union B
      /\ \A r \in one \union B : \E q \in two : q.key = r.key /\ q.height = r.height
    BY UpsertSays
<1>4. /\ three \subseteq two \union C
      /\ \A r \in two \union C : \E q \in three : q.key = r.key /\ q.height = r.height
    BY UpsertSays
<1> HIDE DEF one, two, three
<1>5. ASSUME NEW r \in table \union A \union B \union C
      PROVE  \E q \in three : q.key = r.key /\ q.height = r.height
    BY <1>2, <1>3, <1>4
<1> QED
    BY <1>1, <1>2, <1>3, <1>4, <1>5

(* Each table gets the completed, the locked and the pending items of its  *)
(* kind, in this order.                                                    *)
LEMMA Parts ==
    ASSUME NEW k \in Kinds, NEW cur, NEW prev, NEW h
    PROVE  convertToBlockData(cur, prev, h)[k] =
             <<Completed(k, cur, prev, h), Locked(k, cur, prev, h), Pending(k, cur, prev, h)>>
BY DEF Kinds, convertToBlockData, ConvertDexOrders, ConvertDexDeposits, ConvertDexWithdrawals

(* What of a batch is of one kind.                                         *)
LEMMA OfKind ==
    ASSUME NEW k, NEW f, NEW i
    PROVE  /\ i \in DOMAIN Of(k, f) <=> (i \in DOMAIN f /\ i \in Items /\ KindOf[i] = k)
           /\ i \in DOMAIN Of(k, f) => Of(k, f)[i] = f[i]
BY DEF Of, Only

(* Parsing drops events and changes none.                                  *)
LEMMA EventsParsed ==
    ASSUME NEW events, NEW i
    PROVE  /\ i \in DOMAIN parseDexEventsFromSlice(events)
                <=> (i \in DOMAIN events /\ i \in Readable)
           /\ i \in DOMAIN parseDexEventsFromSlice(events)
                => parseDexEventsFromSlice(events)[i] = events[i]
BY DEF parseDexEventsFromSlice, Only

(* A block compared with its predecessor, or with nothing.                 *)
LEMMA PreviousSays ==
    ASSUME NEW h \in Nat, NEW view \in Views
    PROVE  \/ view = "change" /\ Previous(h, view) = Before(h)
           \/ Previous(h, view) = NoBatches
BY DEF Previous, Before, Views

(* The rows a block is written with are true of it.                        *)
LEMMA NewRowsAreTrue ==
    ASSUME IInv, NEW h \in 1 .. MaxHeight, NEW view \in Views, WriteBlock(h, view),
           NEW k \in Kinds,
           NEW r \in Completed(k, node[h], Previous(h, view), h)
                       \union Locked(k, node[h], Previous(h, view), h)
                       \union Pending(k, node[h], Previous(h, view), h)
    PROVE  /\ r.key \in Items /\ KindOf[r.key] = k
           /\ r.height = h
           /\ IsPending(r)' \/ IsLocked(r)' \/ IsComplete(r)'
<1> DEFINE cur == node[h]
           prev == Previous(h, view)
<1>1. node' = node
    BY DEF WriteBlock
<1>2. CASE r \in Pending(k, cur, prev, h)
    <2>1. PICK i \in NewOrChanged(Of(k, cur.next), Of(k, prev.next)) :
            r = Row(i, h, Columns("pending", cur.next[i], None), 0)
        BY <1>2 DEF Pending
    <2>2. i \in Items /\ KindOf[i] = k /\ i \in DOMAIN cur.next
        BY <2>1, OfKind DEF NewOrChanged
    <2>3. r.key = i /\ r.height = h
        BY <2>1 DEF Row
    <2> QED
        BY <1>1, <2>1, <2>2, <2>3 DEF IsPending
<1>3. CASE r \in Locked(k, cur, prev, h)
    <2>1. PICK i \in NewOrChanged(Of(k, cur.locked), Of(k, prev.locked)) :
            r = Row(i, h, Columns("locked", cur.locked[i], None), LockedHeight(k, cur, i))
        BY <1>3 DEF Locked
    <2>2. i \in Items /\ KindOf[i] = k /\ i \in DOMAIN cur.locked
        BY <2>1, OfKind DEF NewOrChanged
    <2>3. r.key = i /\ r.height = h
        BY <2>1 DEF Row
    <2> QED
        BY <1>1, <2>1, <2>2, <2>3 DEF IsLocked
<1>4. CASE r \in Completed(k, cur, prev, h)
    <2>1. PICK i \in DOMAIN Of(k, prev.locked) \intersect DOMAIN cur.events :
            /\ i \in Readable
            /\ r = Row(i, h, Columns("complete", prev.locked[i], cur.events[i]),
                       LockedHeight(k, prev, i))
        BY <1>4, EventsParsed DEF Completed
    <2>2. i \in Items /\ KindOf[i] = k /\ i \in DOMAIN prev.locked
        BY <2>1, OfKind
    <2>3. r.key = i /\ r.height = h
        BY <2>1 DEF Row
    <2>4. prev # NoBatches
        BY <2>2 DEF NoBatches, NoItems
    <2>5. view = "change" /\ h > 1 /\ prev = node[h - 1]
        BY <2>4 DEF Previous
    <2>6. "change" \in views'[h]
        BY <2>5 DEF WriteBlock, IInv, Typed
    <2> HIDE DEF prev
    <2> QED
        BY <1>1, <2>1, <2>2, <2>3, <2>5, <2>6 DEF IsComplete
<1> QED
    BY <1>2, <1>3, <1>4

(* What a block is the first to say of an item is among the rows it is     *)
(* written with, unless an earlier write of it has said so.                *)
LEMMA NewsGetRows ==
    ASSUME IInv, NEW h \in 1 .. MaxHeight, NEW view \in Views, WriteBlock(h, view),
           NEW i \in Items, News(i, h)', ~(views[h] # {} /\ News(i, h))
    PROVE  LET k == KindOf[i] IN
           \E r \in Completed(k, node[h], Previous(h, view), h)
                      \union Locked(k, node[h], Previous(h, view), h)
                      \union Pending(k, node[h], Previous(h, view), h) :
               r.key = i /\ r.height = h
<1> DEFINE cur == node[h]
           prev == Previous(h, view)
           k == KindOf[i]
<1>1. node' = node /\ h \in 1 .. Len(node) /\ h \in Nat /\ Before(h)' = Before(h)
    BY DEF WriteBlock, Before, IInv, Typed
<1>2. views' = [views EXCEPT ![h] = @ \union {view}] /\ views'[h] = views[h] \union {view}
    BY DEF WriteBlock, IInv, Typed
<1>3. prev = Before(h) \/ (prev.next = NoItems /\ prev.locked = NoItems)
    BY <1>1, PreviousSays DEF NoBatches
<1>4. CASE i \in DOMAIN cur.next \ DOMAIN Before(h).next
    <2>1. i \in DOMAIN cur.next /\ i \notin DOMAIN prev.next
        BY <1>3, <1>4 DEF NoItems
    <2>2. i \in NewOrChanged(Of(k, cur.next), Of(k, prev.next))
        BY <2>1, OfKind DEF NewOrChanged
    <2> DEFINE r == Row(i, h, Columns("pending", cur.next[i], None), 0)
    <2>3. r \in Pending(k, cur, prev, h) /\ r.key = i /\ r.height = h
        BY <2>2 DEF Pending, Row
    <2> QED
        BY <2>3
<1>5. CASE i \in DOMAIN cur.locked \ DOMAIN Before(h).locked
    <2>1. i \in DOMAIN cur.locked /\ i \notin DOMAIN prev.locked
        BY <1>3, <1>5 DEF NoItems
    <2>2. i \in NewOrChanged(Of(k, cur.locked), Of(k, prev.locked))
        BY <2>1, OfKind DEF NewOrChanged
    <2> DEFINE r == Row(i, h, Columns("locked", cur.locked[i], None), LockedHeight(k, cur, i))
    <2>3. r \in Locked(k, cur, prev, h) /\ r.key = i /\ r.height = h
        BY <2>2 DEF Locked, Row
    <2> QED
        BY <2>3
<1>6. CASE i \in DOMAIN cur.events /\ i \in Readable /\ "change" \in views'[h]
    <2>1. view = "change"
        BY <1>2, <1>6 DEF News
    <2>2. PICK e \in Nat, l \in Nat, c \in Nat, T \in Terms \union {None} : Life(i, e, l, c, T)
        BY DEF IInv, ItemsLive
    <2>3. 1 <= e /\ e < l /\ l < c /\ h = c
        BY <1>1, <1>6, <2>2 DEF Life, Fits
    <2>4. h > 1 /\ h - 1 \in 1 .. Len(node) /\ l <= h - 1 /\ h - 1 < c
        BY <1>1, <2>3
    <2>5. i \in DOMAIN node[h - 1].locked
        BY <2>2, <2>4 DEF Life, Fits
    <2>6. prev = node[h - 1]
        BY <2>1, <2>4 DEF Previous
    <2>7. i \in DOMAIN Of(k, prev.locked) \intersect DOMAIN cur.events
        BY <1>6, <2>5, <2>6, OfKind
    <2> DEFINE events == parseDexEventsFromSlice(cur.events)
               r == Row(i, h, Columns("complete", prev.locked[i], events[i]),
                        LockedHeight(k, prev, i))
    <2>8. r \in Completed(k, cur, prev, h) /\ r.key = i /\ r.height = h
      <3>1. i \in DOMAIN Of(k, prev.locked) \intersect DOMAIN events
          BY <1>6, <2>7, EventsParsed
      <3> HIDE DEF events, prev
      <3> QED
          BY <3>1 DEF Completed, Row, events
    <2> QED
        BY <2>8
<1> QED
    BY <1>1, <1>4, <1>5, <1>6 DEF News

(* A write keeps the rows true, and gives the news of its block rows.      *)
LEMMA WriteKeeps ==
    ASSUME IInv, NEW h \in 1 .. MaxHeight, NEW view \in Views, WriteBlock(h, view)
    PROVE  IInv'
<1> DEFINE new(k) == Completed(k, node[h], Previous(h, view), h)
                       \union Locked(k, node[h], Previous(h, view), h)
                       \union Pending(k, node[h], Previous(h, view), h)
<1>1. /\ node' = node /\ h <= Len(node)
      /\ views' = [views EXCEPT ![h] = @ \union {view}]
      /\ views'[h] = views[h] \union {view}
      /\ \A g \in 1 .. MaxHeight : views[g] \subseteq views'[g] /\ (g # h => views'[g] = views[g])
    BY DEF WriteBlock, IInv, Typed
<1>2. DOMAIN tables' = Kinds
    BY DEF WriteBlock
<1>3. ASSUME NEW k \in Kinds
      PROVE  /\ tables'[k] \subseteq tables[k] \union new(k)
             /\ \A r \in tables[k] \union new(k) :
                  \E q \in tables'[k] : q.key = r.key /\ q.height = r.height
    <2>1. tables'[k] = UpsertParts(tables[k], convertToBlockData(node[h], Previous(h, view), h)[k])
        BY DEF WriteBlock
    <2>2. tables'[k] = UpsertParts(tables[k],
                         <<Completed(k, node[h], Previous(h, view), h),
                           Locked(k, node[h], Previous(h, view), h),
                           Pending(k, node[h], Previous(h, view), h)>>)
        BY <2>1, Parts
    <2> QED
        BY <2>2, UpsertPartsSays
<1>4. \A k \in Kinds : \A r \in new(k) : /\ r.key \in Items /\ KindOf[r.key] = k
                                         /\ r.height = h
                                         /\ IsPending(r)' \/ IsLocked(r)' \/ IsComplete(r)'
    BY NewRowsAreTrue
<1>5. ASSUME NEW i \in Items, News(i, h)', ~(views[h] # {} /\ News(i, h))
      PROVE  \E r \in new(KindOf[i]) : r.key = i /\ r.height = h
    BY <1>5, NewsGetRows
<1> HIDE DEF new
<1>6. Typed'
    BY <1>1, <1>2 DEF IInv, Typed
<1>7. ItemsLive'
    BY <1>1 DEF IInv, ItemsLive, Life
<1>8. RowsAreTrue'
    <2> SUFFICES ASSUME NEW k \in Kinds, NEW r \in tables'[k]
                 PROVE  /\ r.key \in Items /\ KindOf[r.key] = k
                        /\ r.height \in 1 .. Len(node) /\ views'[r.height] # {}
                        /\ IsPending(r)' \/ IsLocked(r)' \/ IsComplete(r)'
        BY <1>1 DEF RowsAreTrue
    <2>1. CASE r \in new(k)
        BY <1>1, <1>4, <2>1 DEF IInv, Typed
    <2>2. CASE r \in tables[k]
        <3>1. /\ r.key \in Items /\ KindOf[r.key] = k
              /\ r.height \in 1 .. Len(node) /\ views[r.height] # {}
              /\ IsPending(r) \/ IsLocked(r) \/ IsComplete(r)
            BY <2>2 DEF IInv, RowsAreTrue
        <3>2. r.height \in 1 .. MaxHeight
            BY <3>1, ConstantsAssumption DEF IInv, Typed
        <3>3. views[r.height] \subseteq views'[r.height]
            BY <1>1, <3>2
        <3>4. (IsPending(r) => IsPending(r)') /\ (IsLocked(r) => IsLocked(r)')
            BY <1>1 DEF IsPending, IsLocked
        <3>5. IsComplete(r) => IsComplete(r)'
            BY <1>1, <3>3 DEF IsComplete
        <3> QED
            BY <3>1, <3>3, <3>4, <3>5
    <2> QED
        BY <1>3, <2>1, <2>2
<1>9. NewsHaveRows'
    <2> SUFFICES ASSUME NEW g \in 1 .. Len(node), NEW i \in Items, views'[g] # {}, News(i, g)'
                 PROVE  \E r \in tables'[KindOf[i]] : r.key = i /\ r.height = g
        BY <1>1 DEF NewsHaveRows
    <2>1. KindOf[i] \in Kinds /\ g \in 1 .. MaxHeight
        BY ConstantsAssumption DEF IInv, Typed
    <2>2. \E r \in tables[KindOf[i]] \union new(KindOf[i]) : r.key = i /\ r.height = g
        <3>1. CASE views[g] # {} /\ News(i, g)
            BY <3>1 DEF IInv, NewsHaveRows
        <3>2. CASE ~(views[g] # {} /\ News(i, g))
            <4>1. g = h
                <5>1. g # h => views'[g] = views[g]
                    BY <1>1, <2>1
                <5>2. Before(g)' = Before(g)
                    BY <1>1 DEF Before
                <5> QED
                    BY <1>1, <3>2, <5>1, <5>2 DEF News
            <4> QED
                BY <1>5, <3>2, <4>1
        <3> QED
            BY <3>1, <3>2
    <2> QED
        BY <1>3, <2>1, <2>2
<1> QED
    BY <1>6, <1>7, <1>8, <1>9 DEF IInv

LEMMA InitIInv == Init => IInv
<1> SUFFICES ASSUME Init PROVE IInv
    OBVIOUS
<1>1. node = <<>> /\ Len(node) = 0 /\ node \in Seq(Batches)
    BY DEF Init
<1>2. Typed
  <2>1. views \in [1 .. MaxHeight -> SUBSET Views] /\ DOMAIN tables = Kinds
      BY DEF Init
  <2>2. \A h \in 1 .. MaxHeight : views[h] = {}
      BY DEF Init
  <2> QED
      BY <1>1, <2>1, <2>2, ConstantsAssumption DEF Typed
<1>3. ItemsLive
  <2>1. ASSUME NEW i \in Items PROVE Life(i, 1, 2, 3, None)
      BY <1>1 DEF Life
  <2> QED
      BY <2>1 DEF ItemsLive
<1>4. RowsAreTrue
    BY DEF Init, RowsAreTrue
<1>5. NewsHaveRows
    BY <1>1 DEF NewsHaveRows
<1> QED
    BY <1>2, <1>3, <1>4, <1>5 DEF IInv

LEMMA NextIInv == IInv /\ [Next]_vars => IInv'
<1> SUFFICES ASSUME IInv, [Next]_vars PROVE IInv'
    OBVIOUS
<1>1. CASE UNCHANGED vars
  <2>1. node' = node /\ views' = views /\ tables' = tables
      BY <1>1 DEF vars
  <2>2. Typed' /\ ItemsLive'
      BY <2>1 DEF IInv, Typed, ItemsLive, Life
  <2>3. RowsAreTrue'
      BY <2>1 DEF IInv, RowsAreTrue, IsPending, IsLocked, IsComplete
  <2>4. NewsHaveRows'
      BY <2>1 DEF IInv, NewsHaveRows, News, Before
  <2> QED
      BY <2>2, <2>3, <2>4 DEF IInv
<1>2. ASSUME NEW rotating, NEW S \in SUBSET (Items \ Entered), NEW joining \in [S -> Terms],
             NEW results \in [{i \in DOMAIN Tip.locked : CommitteeOf[i] \in rotating} -> Results],
             NodeAdvances(rotating, joining, results)
      PROVE  IInv'
    BY <1>2, AdvanceKeeps DEF Advance
<1>3. ASSUME NEW h \in 1 .. MaxHeight, NEW view \in Views, WriteBlock(h, view)
      PROVE  IInv'
    BY <1>3, WriteKeeps
<1> QED
    BY <1>1, <1>2, <1>3 DEF Next

-----------------------------------------------------------------------------
(* What the latest row says *)

(* The locked height as its kind of row has it.                            *)
Noted(i, l) == IF KindOf[i] = "orders" THEN l ELSE 0

(* The rows of an item, told by the heights of its life.                   *)
TellsLife(r, e, l, c, T) ==
    \/ /\ e <= r.height /\ r.height < l
       /\ r.val = Columns("pending", T, None) /\ r.extra = 0
    \/ /\ l <= r.height /\ r.height < c
       /\ r.val = Columns("locked", T, None) /\ r.extra = Noted(r.key, l)
    \/ /\ r.height = c /\ r.key \in Readable
       /\ \E v : r.val = Columns("complete", T, v)
       /\ r.val = Columns("complete", node[c - 1].locked[r.key], node[c].events[r.key])
       /\ r.extra = Noted(r.key, l)

(* Each row tells the item's life at its height, as it is the one of that  *)
(* height.                                                                 *)
LEMMA RowsTellLives ==
    ASSUME IInv, NEW i \in Items, NEW e \in Nat, NEW l \in Nat, NEW c \in Nat, NEW T,
           Life(i, e, l, c, T), NEW r \in Rows(i)
    PROVE  /\ r.key = i /\ r.height \in 1 .. Len(node) /\ r.height \in Nat
           /\ TellsLife(r, e, l, c, T)
<1>1. KindOf[i] \in Kinds /\ r \in tables[KindOf[i]] /\ r.key = i
    BY ConstantsAssumption DEF Rows
<1>2. /\ r.height \in 1 .. Len(node) /\ r.height \in Nat /\ Len(node) \in Nat
      /\ IsPending(r) \/ IsLocked(r) \/ IsComplete(r)
    BY <1>1 DEF IInv, RowsAreTrue, Typed
<1>3. CASE IsPending(r)
    BY <1>1, <1>2, <1>3 DEF IsPending, Life, Fits, TellsLife, Row
<1>4. CASE IsLocked(r)
    BY <1>1, <1>2, <1>4 DEF IsLocked, Life, Fits, TellsLife, Row, Noted, LockedHeight
<1>5. CASE IsComplete(r)
    <2>1. r.height > 1 /\ r.height - 1 \in 1 .. Len(node)
        BY <1>2, <1>5 DEF IsComplete
    <2>2. /\ i \in DOMAIN node[r.height - 1].locked /\ i \in DOMAIN node[r.height].events
          /\ i \in Readable
        BY <1>1, <1>5 DEF IsComplete
    <2>3. r.height = c
        BY <1>2, <2>2 DEF Life, Fits
    <2>4. node[r.height - 1].locked[i] = T /\ node[r.height - 1].lockedAt[CommitteeOf[i]] = l
        BY <2>1, <2>2 DEF Life, Fits
    <2>5. /\ r.val = Columns("complete", node[c - 1].locked[i], node[c].events[i])
          /\ r.extra = LockedHeight(KindOf[i], node[c - 1], i)
        BY <1>1, <1>5, <2>3 DEF IsComplete, Row
    <2>6. r.extra = Noted(i, l)
        BY <2>3, <2>4, <2>5 DEF LockedHeight, Noted
    <2> QED
        BY <1>1, <1>2, <2>2, <2>3, <2>4, <2>5, <2>6 DEF TellsLife
<1> QED
    BY <1>1, <1>2, <1>3, <1>4, <1>5

(* A stored block that an item enters at, or is locked at, has its row; so *)
(* has the one it is settled at, if that was compared with the one before  *)
(* and its event could be read.                                            *)
LEMMA LivesHaveRows ==
    ASSUME IInv, NEW i \in Items, NEW e \in Nat, NEW l \in Nat, NEW c \in Nat, NEW T,
           Life(i, e, l, c, T), NEW h \in 1 .. Len(node), views[h] # {},
           h \in {e, l} \/ (h = c /\ i \in Readable /\ "change" \in views[h])
    PROVE  \E r \in Rows(i) : r.height = h
<1>1. h \in Nat /\ 1 <= e /\ e < l /\ l < c /\ Len(node) \in Nat
    BY DEF Life, IInv, Typed
<1>2. h > 1 => h - 1 \in 1 .. Len(node)
    BY <1>1
<1>3. Fits(node[h], i, h, e, l, c, T)
    BY DEF Life
<1>4. h > 1 => Fits(node[h - 1], i, h - 1, e, l, c, T)
    BY <1>2 DEF Life
<1>5. ~(h > 1) => DOMAIN Before(h).next = {} /\ DOMAIN Before(h).locked = {}
    BY DEF Before, NoBatches, NoItems
<1>6. CASE h = e
    <2>1. i \in DOMAIN node[h].next
        BY <1>1, <1>3, <1>6 DEF Fits
    <2>2. h > 1 => i \notin DOMAIN node[h - 1].next
        BY <1>1, <1>4, <1>6 DEF Fits
    <2>3. News(i, h)
        BY <1>5, <2>1, <2>2 DEF News, Before
    <2> QED
        BY <2>3 DEF IInv, NewsHaveRows, Rows
<1>7. CASE h = l
    <2>1. i \in DOMAIN node[h].locked
        BY <1>1, <1>3, <1>7 DEF Fits
    <2>2. h > 1 => i \notin DOMAIN node[h - 1].locked
        BY <1>1, <1>4, <1>7 DEF Fits
    <2>3. News(i, h)
        BY <1>5, <2>1, <2>2 DEF News, Before
    <2> QED
        BY <2>3 DEF IInv, NewsHaveRows, Rows
<1>8. CASE h = c /\ i \in Readable /\ "change" \in views[h]
    <2>1. i \in DOMAIN node[h].events
        BY <1>3, <1>8 DEF Fits
    <2>2. News(i, h)
        BY <1>8, <2>1 DEF News
    <2> QED
        BY <2>2 DEF IInv, NewsHaveRows, Rows
<1> QED
    BY <1>6, <1>7, <1>8

(* If all rows of an item from some row on say the same, so does the       *)
(* latest.                                                                 *)
LEMMA LatestIs ==
    ASSUME NEW i, NEW h \in Nat, NEW V, NEW m \in Nat, m <= h,
           \A r \in Rows(i) : r.key = i /\ r.height \in Nat,
           \E r \in Rows(i) : r.height = m,
           \A r \in Rows(i) : m <= r.height /\ r.height <= h => r.val = V
    PROVE  LatestColumns(i, h) = {V}
<1> DEFINE known == Known(Rows(i), i, h)
           heights == {r.height : r \in known}
<1>1. PICK q \in Rows(i) : q.height = m
    OBVIOUS
<1>2. \A r : r \in known <=> r \in Rows(i) /\ r.key = i /\ r.height <= h
    BY DEF Known
<1>3. q \in known
    BY <1>1, <1>2
<1> HIDE DEF known
<1>4. heights \subseteq Int /\ heights # {} /\ h \in Int /\ \A x \in heights : x <= h
    BY <1>2, <1>3
<1> HIDE DEF heights
<1>5. PICK x \in heights : \A y \in heights : y <= x
    BY ONLY <1>4, GreatestElement
<1>6. PICK p \in known : p.height = x /\ \A r \in known : r.height <= x
    BY <1>5 DEF heights
<1>7. \A r : r \in Latest(Rows(i), i, h) <=> r \in known /\ \A y \in known : y.height <= r.height
    BY DEF Latest, known
<1>8. p \in Latest(Rows(i), i, h)
    BY <1>6, <1>7
<1>9. ASSUME NEW r \in Latest(Rows(i), i, h) PROVE r.val = V
    BY <1>1, <1>2, <1>3, <1>7
<1> QED
    BY <1>8, <1>9 DEF LatestColumns

(* The latest row of an item in a batch says in which one, on which terms. *)
LEMMA BatchShown ==
    ASSUME IInv, NEW i \in Items, NEW e \in Nat, NEW l \in Nat, NEW c \in Nat, NEW T,
           Life(i, e, l, c, T), NEW h \in Covered, e <= h, h < c
    PROVE  LatestColumns(i, h) = Truth(i, h)
<1>1. /\ 1 <= e /\ e < l /\ l < c /\ Len(node) \in Nat
      /\ h \in 1 .. Len(node) /\ h \in Nat /\ \A g \in 1 .. h : views[g] # {}
    BY DEF Life, IInv, Typed, Covered
<1>2. \A r \in Rows(i) : r.key = i /\ r.height \in Nat /\ TellsLife(r, e, l, c, T)
    BY RowsTellLives
<1>3. Fits(node[h], i, h, e, l, c, T)
    BY <1>1 DEF Life
<1>4. CASE h < l
    <2> DEFINE V == Columns("pending", T, None)
    <2>1. e \in 1 .. Len(node) /\ views[e] # {}
        BY <1>1
    <2>2. \E r \in Rows(i) : r.height = e
        BY <2>1, LivesHaveRows
    <2>3. \A r \in Rows(i) : e <= r.height /\ r.height <= h => r.val = V
        BY <1>1, <1>2, <1>4 DEF TellsLife
    <2>4. LatestColumns(i, h) = {V}
        <3> HIDE DEF V
        <3> QED
            BY <1>1, <1>2, <2>2, <2>3, LatestIs
    <2>5. Truth(i, h) = {V}
        BY <1>3, <1>4 DEF Fits, Truth
    <2> QED
        BY <2>4, <2>5
<1>5. CASE l <= h
    <2> DEFINE V == Columns("locked", T, None)
    <2>1. l \in 1 .. Len(node) /\ views[l] # {}
        BY <1>1, <1>5
    <2>2. \E r \in Rows(i) : r.height = l
        BY <2>1, LivesHaveRows
    <2>3. \A r \in Rows(i) : l <= r.height /\ r.height <= h => r.val = V
        BY <1>1, <1>2, <1>5 DEF TellsLife
    <2>4. LatestColumns(i, h) = {V}
        <3> HIDE DEF V
        <3> QED
            BY <1>1, <1>2, <1>5, <2>2, <2>3, LatestIs
    <2>5. Truth(i, h) = {V}
        BY <1>1, <1>3, <1>5 DEF Fits, Truth
    <2> QED
        BY <2>4, <2>5
<1> QED
    BY <1>1, <1>4, <1>5

LEMMA BatchesShown == IInv => BatchesAreShown
<1> SUFFICES ASSUME IInv, NEW h \in Covered,
                    NEW i \in DOMAIN node[h].next \union DOMAIN node[h].locked
             PROVE  LatestColumns(i, h) = Truth(i, h)
    BY DEF BatchesAreShown
<1>1. h \in 1 .. Len(node) /\ node[h] \in Batches
    BY DEF Covered, IInv, Typed
<1>2. i \in Items
    BY <1>1 DEF Batches, TermsOf
<1>3. PICK e \in Nat, l \in Nat, c \in Nat, T \in Terms \union {None} : Life(i, e, l, c, T)
    BY <1>2 DEF IInv, ItemsLive
<1>4. e <= h /\ h < c
    BY <1>1, <1>3 DEF Life, Fits, IInv, Typed
<1> QED
    BY <1>2, <1>3, <1>4, BatchShown

LEMMA LifecycleShown == IInv => LifecycleIsShown
<1> SUFFICES ASSUME IInv, NEW h \in Compared, NEW i \in Items
             PROVE  LatestColumns(i, h) = Truth(i, h)
    BY DEF LifecycleIsShown
<1>1. PICK e \in Nat, l \in Nat, c \in Nat, T \in Terms \union {None} : Life(i, e, l, c, T)
    BY DEF IInv, ItemsLive
<1>2. /\ 1 <= e /\ e < l /\ l < c /\ Len(node) \in Nat
      /\ h \in 1 .. Len(node) /\ h \in Nat /\ \A g \in 1 .. h : "change" \in views[g]
    BY <1>1 DEF Life, IInv, Typed, Compared
<1>3. \A r \in Rows(i) : r.key = i /\ r.height \in Nat /\ TellsLife(r, e, l, c, T)
    BY <1>1, RowsTellLives
<1>4. Fits(node[h], i, h, e, l, c, T)
    BY <1>1, <1>2 DEF Life
<1>5. \A g \in 1 .. h : i \in DOMAIN node[g].events <=> g = c
    BY <1>1, <1>2 DEF Life, Fits
<1>6. CASE h < e
    <2>1. \A r \in Rows(i) : ~(r.height <= h)
        BY <1>2, <1>3, <1>6 DEF TellsLife
    <2>2. LatestColumns(i, h) = {}
        BY <2>1 DEF LatestColumns, Latest, Known
    <2>3. SettledAt(i, h) = {}
        BY <1>2, <1>5, <1>6 DEF SettledAt
    <2> QED
        BY <1>2, <1>4, <1>6, <2>2, <2>3 DEF Truth, Fits
<1>7. CASE e <= h /\ h < c
    <2>1. h \in Covered
        BY <1>2 DEF Covered
    <2> QED
        BY <1>1, <1>7, <2>1, BatchShown
<1>8. CASE c <= h /\ i \in Readable
    <2> DEFINE V == Columns("complete", node[c - 1].locked[i], node[c].events[i])
    <2>1. c \in 1 .. Len(node) /\ c \in 1 .. h /\ "change" \in views[c]
        BY <1>2, <1>8
    <2>2. \E r \in Rows(i) : r.height = c
        BY <1>1, <1>8, <2>1, LivesHaveRows
    <2>3. \A r \in Rows(i) : c <= r.height /\ r.height <= h => r.val = V
        BY <1>2, <1>3 DEF TellsLife
    <2>4. LatestColumns(i, h) = {V}
        <3> HIDE DEF V
        <3> QED
            BY <1>2, <1>3, <1>8, <2>2, <2>3, LatestIs
    <2>5. SettledAt(i, h) = {c}
        BY <1>5, <2>1 DEF SettledAt
    <2>6. Truth(i, h) = {V}
        BY <1>2, <1>4, <1>8, <2>5 DEF Truth, Fits
    <2> QED
        BY <2>4, <2>6
<1>9. CASE c <= h /\ i \notin Readable
    <2> DEFINE V == Columns("locked", T, None)
    <2>1. /\ l \in 1 .. Len(node) /\ l <= h /\ views[l] # {}
          /\ c \in 1 .. h /\ c - 1 \in 1 .. Len(node)
        BY <1>2, <1>9
    <2>2. \E r \in Rows(i) : r.height = l
        BY <1>1, <2>1, LivesHaveRows
    <2>3. \A r \in Rows(i) : l <= r.height /\ r.height <= h => r.val = V
        BY <1>2, <1>3, <1>9 DEF TellsLife
    <2>4. LatestColumns(i, h) = {V}
        <3> HIDE DEF V
        <3> QED
            BY <1>2, <1>3, <2>1, <2>2, <2>3, LatestIs
    <2>5. SettledAt(i, h) = {c}
        BY <1>5, <2>1 DEF SettledAt
    <2>6. node[c - 1].locked[i] = T
        BY <1>1, <1>2, <2>1 DEF Life, Fits
    <2>7. Truth(i, h) = {V}
        BY <1>2, <1>4, <1>9, <2>5, <2>6 DEF Truth, Fits
    <2> QED
        BY <2>4, <2>7
<1> QED
    BY <1>2, <1>6, <1>7, <1>8, <1>9

LEMMA LifecycleMoves == IInv => LifecycleMovesOn
<1> SUFFICES ASSUME IInv, NEW i \in Items, NEW r \in Rows(i), NEW q \in Rows(i)
             PROVE  /\ r.height < q.height =>
                          /\ Rank[r.val.state] <= Rank[q.val.state]
                          /\ r.val.state # "complete"
                    /\ r.extra > 0 /\ views[r.extra] # {} =>
                          \E p \in Rows(i) : /\ p.height = r.extra /\ p.extra = r.extra
                                             /\ p.val = Columns("locked", r.val.terms, None)
    BY DEF LifecycleMovesOn
<1>1. PICK e \in Nat, l \in Nat, c \in Nat, T \in Terms \union {None} : Life(i, e, l, c, T)
    BY DEF IInv, ItemsLive
<1>2. 1 <= e /\ e < l /\ l < c /\ Len(node) \in Nat
    BY <1>1 DEF Life, IInv, Typed
<1>3. \A p \in Rows(i) : /\ p.key = i /\ p.height \in 1 .. Len(node) /\ p.height \in Nat
                         /\ TellsLife(p, e, l, c, T)
    BY <1>1, RowsTellLives
<1>4. ASSUME NEW p \in Rows(i)
      PROVE  \/ p.height < l /\ p.val.state = "pending" /\ p.extra = 0
             \/ /\ l <= p.height /\ p.height < c /\ p.val.state = "locked"
                /\ p.extra = Noted(i, l) /\ p.val.terms = T
             \/ /\ p.height = c /\ p.val.state = "complete"
                /\ p.extra = Noted(i, l) /\ p.val.terms = T
  <2>1. \A s, t, v : Columns(s, t, v).state = s /\ Columns(s, t, v).terms = t
      BY DEF Columns
  <2>2. p.key = i /\ TellsLife(p, e, l, c, T)
      BY <1>3
  <2> QED
      BY <2>1, <2>2 DEF TellsLife
<1>5. Rank["pending"] = 1 /\ Rank["locked"] = 2 /\ Rank["complete"] = 3
    BY DEF Rank
<1>6. ASSUME r.height < q.height
      PROVE  Rank[r.val.state] <= Rank[q.val.state] /\ r.val.state # "complete"
    <2>1. /\ r.height \in Nat /\ q.height \in Nat
          /\ \/ r.height < l /\ r.val.state = "pending"
             \/ l <= r.height /\ r.height < c /\ r.val.state = "locked"
             \/ r.height = c /\ r.val.state = "complete"
          /\ \/ q.height < l /\ q.val.state = "pending"
             \/ l <= q.height /\ q.height < c /\ q.val.state = "locked"
             \/ q.height = c /\ q.val.state = "complete"
        BY <1>3, <1>4
    <2> QED
        BY <1>2, <1>5, <1>6, <2>1
<1>7. ASSUME r.extra > 0, views[r.extra] # {}
      PROVE  \E p \in Rows(i) : /\ p.height = r.extra /\ p.extra = r.extra
                                /\ p.val = Columns("locked", r.val.terms, None)
    <2>1. r.extra = l /\ Noted(i, l) = l /\ l <= r.height /\ r.val.terms = T
        BY <1>2, <1>4, <1>7 DEF Noted
    <2>2. l \in 1 .. Len(node)
        BY <1>2, <1>3, <2>1
    <2>3. PICK p \in Rows(i) : p.height = l
        BY <1>1, <1>7, <2>1, <2>2, LivesHaveRows
    <2>4. p.extra = l /\ p.val = Columns("locked", T, None)
        BY <1>2, <1>3, <2>1, <2>3 DEF TellsLife
    <2> QED
        BY <2>1, <2>3, <2>4
<1> QED
    BY <1>6, <1>7

LEMMA TypesHold == IInv => TypeOK
<1> SUFFICES ASSUME IInv PROVE TypeOK
    OBVIOUS
<1>1. ASSUME NEW k \in Kinds, NEW r \in tables[k], NEW q \in tables[k]
      PROVE  /\ r.key \in Items /\ KindOf[r.key] = k
             /\ r.height \in 1 .. Len(node) /\ views[r.height] # {}
             /\ r.val.state \in DOMAIN Rank
             /\ r.key = q.key /\ r.height = q.height => r = q
    <2>1. /\ r.key \in Items /\ KindOf[r.key] = k
          /\ r.height \in 1 .. Len(node) /\ views[r.height] # {}
          /\ IsPending(r) \/ IsLocked(r) \/ IsComplete(r)
          /\ q.key \in Items /\ KindOf[q.key] = k
          /\ IsPending(q) \/ IsLocked(q) \/ IsComplete(q)
        BY DEF IInv, RowsAreTrue
    <2>2. PICK e \in Nat, l \in Nat, c \in Nat, T \in Terms \union {None} : Life(r.key, e, l, c, T)
        BY <2>1 DEF IInv, ItemsLive
    <2>3. 1 <= e /\ e < l /\ l < c
        BY <2>2 DEF Life
    <2>4. r \in Rows(r.key) /\ (q.key = r.key => q \in Rows(r.key))
        BY <2>1 DEF Rows
    <2>5. r.height \in Nat /\ TellsLife(r, e, l, c, T)
        BY <2>1, <2>2, <2>4, RowsTellLives
    <2>6. q.key = r.key => TellsLife(q, e, l, c, T)
        BY <2>1, <2>2, <2>4, RowsTellLives
    <2>7. r.val.state \in DOMAIN Rank
        BY <2>5 DEF TellsLife, Columns, Rank
    <2>8. ASSUME r.key = q.key, r.height = q.height PROVE r = q
        <3>1. r.val = q.val /\ r.extra = q.extra
            BY <2>3, <2>5, <2>6, <2>8 DEF TellsLife
        <3>2. r = Row(r.key, r.height, r.val, r.extra) /\ q = Row(q.key, q.height, q.val, q.extra)
            BY <2>1 DEF IsPending, IsLocked, IsComplete, Row
        <3> QED
            BY <2>8, <3>1, <3>2
    <2> QED
        BY <2>1, <2>7, <2>8
<1> QED
    BY <1>1 DEF TypeOK, IInv, Typed

-----------------------------------------------------------------------------
(* The theorems *)

(* The inductive invariant: each item has a life of three heights, the     *)
(* rows are true of it, and what a stored block is the first to say of it  *)
(* has a row.                                                              *)
THEOREM Invariant == Spec => []IInv
BY InitIInv, NextIInv, PTL DEF Spec

(* writeBlockData: the rows of a table are of its kind, one for each item  *)
(* and height.                                                             *)
THEOREM TypeCorrect == Spec => []TypeOK
BY Invariant, TypesHold, PTL

(* ConvertDexOrders and its siblings: what is in a batch has a latest row  *)
(* that says in which one and on which terms, once every block up to there *)
(* is stored, in whatever order and way.                                   *)
THEOREM BatchesStayShown == Spec => []BatchesAreShown
BY Invariant, BatchesShown, PTL

(* Where every block was compared with its predecessor the latest row of   *)
(* an item says what became of it, after it is settled too.                *)
THEOREM LifecycleStaysShown == Spec => []LifecycleIsShown
BY Invariant, LifecycleShown, PTL

(* From row to row an item moves on only, and the locked height a row has  *)
(* is the one of the row that says locked.                                 *)
THEOREM LifecycleOnlyMovesOn == Spec => []LifecycleMovesOn
BY Invariant, LifecycleMoves, PTL
=============================================================================

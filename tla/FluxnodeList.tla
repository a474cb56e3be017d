---------------------------- MODULE FluxnodeList ----------------------------
(***************************************************************************)
(* The payment list of a tier (class FluxnodeList): a list of             *)
(* FluxnodeListData, sorted so that the next node to pay is at its front,  *)
(* and the set of the outpoints it holds.  A node that expires stays in    *)
(* both until GetNextPayment finds it at the front.                        *)
(***************************************************************************)
EXTENDS FluxnodeTrackers, FiniteSets, SequencesExt

CONSTANTS
    Tiers,
    TierOf,         \* the tier of a collateral, fixed by its amount
    P2SHNodes       \* the collaterals with the P2SH public key, paid to the script of the coin

ASSUME TierAssumption ==
    /\ TierOf \in [Outpoints -> Tiers]
    /\ P2SHNodes \subseteq Outpoints

EmptyList == [listConfirmedFluxnodes |-> << >>, setConfirmedTxInList |-> {}]

ListData(o, data) ==
    [out |-> o, nConfirmedBlockHeight |-> data.nConfirmedBlockHeight,
     nLastPaidHeight |-> data.nLastPaidHeight]

ComparatorHeight(a) ==
    IF a.nLastPaidHeight > 0 THEN a.nLastPaidHeight ELSE a.nConfirmedBlockHeight

\* FluxnodeListData::operator<
ListLess(a, b) ==
    LET aH == ComparatorHeight(a)
        bH == ComparatorHeight(b)
        aPaid == a.nLastPaidHeight # 0
        bPaid == b.nLastPaidHeight # 0
    IN  \/ aH < bH
        \/ aH = bH /\ aPaid = bPaid /\ a.out < b.out
        \/ aH = bH /\ ~aPaid /\ bPaid

SortList(L) ==
    [L EXCEPT !.listConfirmedFluxnodes = SortSeq(@, ListLess)]

InList(L, o) == o \in L.setConfirmedTxInList

CheckListSet(lists, o) == \E t \in Tiers : InList(lists[t], o)

-----------------------------------------------------------------------------
(***************************************************************************)
(* GetNextPayment: entries at the front that are not confirmed any more    *)
(* are dropped, at most as many as the set has members; the first          *)
(* confirmed one is the payee and stays where it is.  The address of a     *)
(* P2SH node is read from its coin: when the coin is spent the call fails, *)
(* the node stays at the front and the tier has no payee.                  *)
(***************************************************************************)
Stale(L, g) ==
    {k \in 0..Len(L.listConfirmedFluxnodes) :
        /\ k <= Cardinality(L.setConfirmedTxInList)
        /\ \A i \in 1..k : L.listConfirmedFluxnodes[i].out \notin Confirmed(g)}

PopExpired(L, g) ==
    LET n == Max(Stale(L, g))
        list == L.listConfirmedFluxnodes
    IN  [listConfirmedFluxnodes |-> SubSeq(list, n + 1, Len(list)),
         setConfirmedTxInList   |-> L.setConfirmedTxInList \ {list[i].out : i \in 1..n}]

\* The payee of the tier, as a set with at most one element.
NextPayment(L, g, coinsSpent) ==
    LET list == PopExpired(L, g).listConfirmedFluxnodes
    IN  ({list[1].out : i \in {1} \cap DOMAIN list} \cap Confirmed(g))
            \ (P2SHNodes \cap coinsSpent)

-----------------------------------------------------------------------------
(***************************************************************************)
(* FluxnodeCache::Flush on the list of tier t, in the order of its loops.  *)
(***************************************************************************)
InTier(t, S) == {o \in S : TierOf[o] = t}

\* Mutant: the paid node goes to the back with the height of its payment before.
MutPayFront(L, t, g, l) ==
    LET list == L.listConfirmedFluxnodes
        pays == {o \in InTier(t, l.mapPaidNodes) :
                   /\ FlushExpire(g, l, o) # NullData
                   /\ InList(L, o)
                   /\ Head(list).out = o}
    IN  IF pays = {} THEN L
        ELSE LET o == CHOOSE p \in pays : TRUE
             IN  [L EXCEPT !.listConfirmedFluxnodes =
                              Append(Tail(list), ListData(o, FlushExpire(g, l, o)))]

\* mapPaidNodes: the paid node goes from the front to the back.
PayFront(L, t, g, l) ==
    LET list == L.listConfirmedFluxnodes
        pays == {o \in InTier(t, l.mapPaidNodes) :
                   /\ FlushExpire(g, l, o) # NullData
                   /\ InList(L, o)
                   /\ Head(list).out = o}
    IN  IF pays = {} THEN L
        ELSE LET o == CHOOSE p \in pays : TRUE
             IN  [L EXCEPT !.listConfirmedFluxnodes =
                              Append(Tail(list), ListData(o, FlushPaid(g, l, o)))]

\* mapUndoPaidNodes: the node goes back to the front, with its old height.  The
\* loop runs from the back and stops when it reaches begin(), which it does not
\* look at.
UndoPay(L, o, nLastPaid) ==
    LET list  == L.listConfirmedFluxnodes
        found == {i \in 2..Len(list) : list[i].out = o}
    IN  IF ~InList(L, o) \/ found = {} THEN L
        ELSE [L EXCEPT !.listConfirmedFluxnodes =
                <<[list[Max(found)] EXCEPT !.nLastPaidHeight = nLastPaid]>>
                    \o RemoveAt(list, Max(found))]

UndoPaid(L, t, g, l) ==
    LET undone == {o \in InTier(t, DOMAIN l.mapUndoPaidNodes) : FlushPaid(g, l, o) # NullData}
    IN  FoldLeft(LAMBDA acc, o : UndoPay(acc, o, l.mapUndoPaidNodes[o]), L,
                 SetToSortSeq(undone, <))

\* Mutant: nothing is taken out of the list.
MutEraseFromList(L, remove) == L

EraseFromList(L, remove) ==
    [listConfirmedFluxnodes |->
        SelectSeq(L.listConfirmedFluxnodes, LAMBDA e : e.out \notin remove),
     setConfirmedTxInList   |->
        L.setConfirmedTxInList \ {e.out : e \in {x \in ToSet(L.listConfirmedFluxnodes) : x.out \in remove}}]

\* Mutant: the set of the list does not learn of the new nodes.
MutInsertIntoList(L, add, data) ==
    [L EXCEPT !.listConfirmedFluxnodes =
        Reverse([i \in 1..Cardinality(add) |->
                    ListData(SetToSortSeq(add, <)[i], data[SetToSortSeq(add, <)[i]])]) \o @]

\* InsertIntoList, for every node of vecNodesToAdd; data is what Flush copies.
InsertIntoList(L, add, data) ==
    [listConfirmedFluxnodes |->
        Reverse([i \in 1..Cardinality(add) |->
                    ListData(SetToSortSeq(add, <)[i], data[SetToSortSeq(add, <)[i]])])
            \o L.listConfirmedFluxnodes,
     setConfirmedTxInList   |-> L.setConfirmedTxInList \cup add]

FlushList(L, t, g, l) ==
    LET confirmed == {o \in InTier(t, DOMAIN l.mapAddToConfirm) : MovesToConfirm(g, l, o)}
        undone    == {o \in InTier(t, l.setUndoAddToConfirm) : MovesToStart(g, l, o)}
        restored  == {o \in InTier(t, Outpoints) :
                        Has(l.setUndoExpireConfirm, o) /\ ~InList(L, o)}
        remove    == undone \cup {o \in confirmed : InList(L, o)}
        add       == restored \cup confirmed
        data      == [o \in add |-> IF o \in confirmed THEN FlushConfirm(g, l, o)
                                    ELSE l.setUndoExpireConfirm[o]]
        paid      == UndoPaid(PayFront(L, t, g, l), t, g, l)
        updated   == InsertIntoList(EraseFromList(paid, remove), add, data)
    IN  IF remove # {} \/ add # {} \/ InTier(t, l.mapPaidNodes) # {}
        THEN SortList(updated)
        ELSE updated
=============================================================================

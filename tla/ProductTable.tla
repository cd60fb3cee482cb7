---------------------------- MODULE ProductTable ----------------------------
(***************************************************************************)
(* What the list of products on a page promises to whoever uses it: it     *)
(* grows at its end by products that exist, and is replaced now and then   *)
(* by the first page of products, as read at some earlier moment.          *)
(*                                                                         *)
(* A product's id is drawn when it is created, so ids order the products;  *)
(* a transaction with an earlier id may commit later. Dashboard.tla is     *)
(* shown to implement this specification, PageForms.tla to live with it.   *)
(***************************************************************************)
EXTENDS Integers, Sequences, FiniteSets

CONSTANTS
    Existing,       \* the products that exist from the start
    New,            \* the products that may be created
    PageSize        \* PRODUCTS_PAGE_SIZE

ASSUME ProductTableAssumption ==
    /\ Existing \subseteq Nat /\ New \subseteq Nat /\ Existing \cap New = {}
    /\ IsFiniteSet(Existing) /\ IsFiniteSet(New)
    /\ PageSize \in Nat \ {0}

VARIABLES
    catalogue,      \* the products that are committed
    shown           \* the products in the list, in their order

tableVars == <<catalogue, shown>>

Products == Existing \cup New

IsShown(p) == \E i \in DOMAIN shown : shown[i] = p

\* The i-th product of S in the order of creation.
Nth(S, i) == CHOOSE p \in S : Cardinality({q \in S : q < p}) = i - 1

FirstPage(S) ==
    [i \in 1..(IF Cardinality(S) < PageSize THEN Cardinality(S) ELSE PageSize) |-> Nth(S, i)]

TableInit ==
    /\ catalogue = Existing
    /\ shown = FirstPage(Existing)

Create(p) ==
    /\ p \in New \ catalogue
    /\ catalogue' = catalogue \cup {p}
    /\ UNCHANGED shown

\* A product that exists is added at the end, unless the list has it already.
ShowNew(p) ==
    /\ p \in catalogue
    /\ ~IsShown(p)
    /\ shown' = Append(shown, p)
    /\ UNCHANGED catalogue

\* The list is loaded again, from what was committed when it was read.
Reload ==
    /\ \E S \in SUBSET catalogue : Existing \subseteq S /\ shown' = FirstPage(S)
    /\ UNCHANGED catalogue

TableNext == (\E p \in New : Create(p) \/ ShowNew(p)) \/ Reload

TableSpec == TableInit /\ [][TableNext]_tableVars
=============================================================================

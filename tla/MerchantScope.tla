--------------------------- MODULE MerchantScope ---------------------------
(***************************************************************************)
(* Which stores an actor may see and act for: those of its own merchant    *)
(* and of the active merchants under it.  MerchantScopeService answers     *)
(* that in two ways.  authorizedMerchantIds walks down, a level per query, *)
(* for the listings; authorizeStore walks up from a store, a merchant per  *)
(* query, before an invoice is issued or changed.  The API does nothing to *)
(* keep the hierarchy still while it walks: each query of a READ COMMITTED *)
(* transaction sees what is committed by then.                             *)
(*                                                                         *)
(* A request to issue an invoice is followed to the row it inserts.  A     *)
(* command of Tenants adds a merchant without parent, which is above or    *)
(* below no other: no walk under way sees any of it, and the two are not   *)
(* interleaved.                                                            *)
(***************************************************************************)
EXTENDS Tenants, InvoiceMath

CONSTANT Depth    \* of either walk: 16

ASSUME DepthAssumption == Depth \in Nat \ {0}

VARIABLES
    walk,     \* authorizeStore in progress, or None
    issued    \* the row of the invoice just issued, or None

scopeVars == <<walk, issued>>

Walk ==
    [actor : Merchants, store : Stores,
     at : Merchants \cup {None},           \* currentMerchantId
     visited : SUBSET Merchants,
     depth : 0 .. Depth,
     allowed : BOOLEAN,                    \* history: was the store in scope at the start?
     overtaken : 0 .. 2]                   \* history: changes by hand since, up to 2

ASSUME NoWalkAssumption == None \notin Walk

ScopeTypeOK ==
    /\ TenantTypeOK
    /\ walk \in Walk \cup {None}
    /\ issued # None => issued.lines \in Seq(Nat)

ScopeInit == walk = None /\ issued = None

-----------------------------------------------------------------------------
\* Seeded fault: inactive merchants are not left out.
ChildrenOrClosed(frontier) ==
    {m \in Merchants : merchants[m] # None /\ merchants[m].parent \in frontier}

Children(frontier) ==
    {m \in Merchants : /\ merchants[m] # None
                       /\ merchants[m].parent \in frontier
                       /\ merchants[m].active}

\* The loop of authorizedMerchantIds: what is authorized after d queries, and
\* whose children the next one asks for.
authorizedMerchantIds(actor) ==
    LET level[d \in 0 .. Depth] ==
            IF d = 0 THEN [authorized |-> {actor}, frontier |-> {actor}]
            ELSE LET found == Children(level[d - 1].frontier) \ level[d - 1].authorized
                 IN  [authorized |-> level[d - 1].authorized \cup found, frontier |-> found]
    IN  level[Depth].authorized

listStores(actor) ==
    {s \in Stores : /\ stores[s] # None
                    /\ stores[s].active
                    /\ stores[s].merchant \in authorizedMerchantIds(actor)}

-----------------------------------------------------------------------------
(* authorizeStore                                                          *)

\* The merchant n steps above m, if there is one.
Above(m, n) ==
    LET up[k \in 0 .. n] ==
            IF k = 0 THEN m
            ELSE IF up[k - 1] = None THEN None
                 ELSE IF merchants[up[k - 1]] = None THEN None ELSE merchants[up[k - 1]].parent
    IN  up[n]

\* What both walks look for: from m up to the actor it is at most n steps, all
\* of them from active merchants.
Under(actor, m, n) ==
    \E k \in 0 .. n : /\ Above(m, k) = actor
                      /\ \A j \in 0 .. k - 1 : merchants[Above(m, j)].active

\* A store is in the scope of authorizeStore when the loop can reach the actor.
InScope(actor, s) ==
    /\ stores[s] # None /\ stores[s].active
    /\ Under(actor, stores[s].merchant, Depth - 1)

\* The store is read; without an active one the answer is 404.  An actor's
\* token names a merchant; that it exists is nowhere checked.
StartWalk(actor, s) ==
    /\ release = "current"
    /\ walk = None /\ \A c \in Terminals : command[c] = AtRest
    /\ stores[s] # None /\ stores[s].active
    /\ walk' = [actor |-> actor, store |-> s, at |-> stores[s].merchant,
                visited |-> {}, depth |-> 0, allowed |-> InScope(actor, s),
                overtaken |-> 0]
    /\ issued' = None

\* Seeded fault: the walk goes on from an inactive merchant.
ParentOfAny(m) == IF merchants[m] = None THEN None ELSE merchants[m].parent

\* merchant?.parentMerchantId ?? null, of an active merchant.
ActiveParent(m) ==
    IF merchants[m] # None /\ merchants[m].active THEN merchants[m].parent ELSE None

\* Seeded fault: the loop ends in a cycle only.
Circling == walk.at = None \/ walk.at \in walk.visited

Exhausted == walk.at = None \/ walk.depth = Depth \/ walk.at \in walk.visited

\* Seeded fault: one more merchant is compared.
ArrivedLate == walk.at = walk.actor

Arrived == walk.at = walk.actor /\ walk.depth < Depth

Climb ==
    /\ walk # None /\ ~Exhausted /\ ~Arrived
    /\ walk' = [walk EXCEPT !.at = ActiveParent(walk.at),
                            !.visited = @ \cup {walk.at},
                            !.depth = @ + 1]
    /\ UNCHANGED issued

\* 403.
Forbid ==
    /\ walk # None /\ Exhausted /\ ~Arrived
    /\ walk' = None
    /\ UNCHANGED issued

\* InvoiceService.create goes on with the store: it calculates, and inserts
\* what fits.
Issue(b) ==
    /\ walk # None /\ Arrived
    /\ walk' = None
    /\ issued' = IF Calculable(b) /\ FitsColumns(Calculated(b))
                 THEN Calculated(b) ELSE None

\* An UPDATE by hand that overtakes the walk.
Overtake ==
    /\ walk' = IF walk = None THEN None
               ELSE [walk EXCEPT !.overtaken = IF @ = 2 THEN 2 ELSE @ + 1]
    /\ issued' = None

ScopeNext ==
    \/ \E actor \in Merchants, s \in Stores : StartWalk(actor, s)
    \/ Climb
    \/ Forbid
    \/ \E b \in Bodies : Issue(b)

-----------------------------------------------------------------------------
\* ACCEPTANCE.md: responses contain only the actor's hierarchy.  The walk down finds the actor's own
\* merchant and exactly those from which an unbroken line of active merchants
\* leads up to it, whatever the hierarchy has become: cycles, cut branches.
ListingIsSubtree ==
    \A actor \in Merchants :
        authorizedMerchantIds(actor) = {actor} \cup {m \in Merchants : Under(actor, m, Depth)}

\* The two walks agree: undisturbed, a store may be acted for when it is
\* listed, and not otherwise, but that the last level of the listing is out of
\* reach of the walk up.
WalksAgree ==
    [][walk # None /\ walk' = None /\ walk.overtaken = 0 =>
          /\ Arrived => walk.store \in listStores(walk.actor)
          /\ walk.store \in listStores(walk.actor) =>
                 Arrived \/ Above(stores[walk.store].merchant, Depth) = walk.actor]_walk

\* The walk up is no snapshot.  A merchant that is moved, cut off or brought
\* back meanwhile may be seen before or after; but with one such change at a
\* time the answer is the one of the start or the one of the end: nobody is
\* let in, or kept out, on account of a mixture.
AnswerHoldsAtSomeTime ==
    [][walk # None /\ walk' = None /\ walk.overtaken <= 1
          => Arrived \in {walk.allowed, InScope(walk.actor, walk.store)}]_walk

\* What is issued adds up, in its lines, its tax and its columns.
RowsAddUp == issued # None => AddsUp(issued) /\ FitsColumns(issued)
=============================================================================

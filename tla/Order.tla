--------------------------------- MODULE Order ----------------------------------
(***************************************************************************)
(* The order in which things are tried, as pages of the administration     *)
(* rewrite it (api/admin/mod.rs): the tiers of the entries, layer by       *)
(* layer, and the places of the search backends, one by one.  A page shows *)
(* the rows, the administrator drags them about, and meanwhile another one *)
(* adds, edits and deletes rows; rewrite_order() then takes the new order  *)
(* only if it is of exactly the rows that are there.                       *)
(***************************************************************************)
EXTENDS Integers, Sequences, FiniteSets, FiniteSetsExt, SequencesExt, Functions

CONSTANTS
  Admin,          \* who has a page open
  Owner,          \* the channels of entries; a backend has one and the same
  MaxRow,         \* the bound on the ids given
  MaxLayers,      \* the bound on the layers of a page
  FirstPlace      \* the tier of an entry that was never ordered: tier_default()

OrderAssumption == {MaxRow, MaxLayers, FirstPlace} \subseteq Nat \ {0}

Step == 10   \* TIER_STEP

VARIABLES
  places,   \* entries or search_backends: id -> [owner, place]
  lastRow,  \* sqlite_sequence
  page      \* an administrator's page: the rows it shows, and what came of it

vars == <<places, lastRow, page>>

Row == [owner: Owner, place: Nat]

TypeOK ==
  /\ lastRow \in 0..MaxRow
  /\ DOMAIN places \subseteq 1..lastRow /\ Range(places) \subseteq Row
  /\ \A a \in Admin :
       /\ page[a].at \in {"closed", "open", "done", "conflict"}
       /\ DOMAIN page[a].shown \subseteq 1..lastRow

Closed == [at |-> "closed", shown |-> <<>>, layers |-> <<>>]

Init ==
  /\ places = <<>> /\ lastRow = 0
  /\ page = [a \in Admin |-> Closed]

Owners(rows) == [id \in DOMAIN rows |-> rows[id].owner]

\* INTEGER PRIMARY KEY AUTOINCREMENT.
NextRow_OfTheRows == Max(DOMAIN places \cup {0}) + 1
NextRow == lastRow + 1

-------------------------------------------------------------------------------
\* create_entry(): at the tier of the form.  create_search_backend(): behind all.
AtTheEnd == Max({places[id].place : id \in DOMAIN places} \cup {0}) + Step

Add(o, place) ==
  /\ NextRow <= MaxRow
  /\ places' = [id \in DOMAIN places \cup {NextRow} |->
                  IF id = NextRow THEN [owner |-> o, place |-> place] ELSE places[id]]
  /\ lastRow' = NextRow
  /\ UNCHANGED page

\* update_entry(): the form holds the tier, too.
Edit(id, place) ==
  /\ places' = [places EXCEPT ![id].place = place]
  /\ UNCHANGED <<lastRow, page>>

\* delete_entry(), delete_search_backend(), and delete_channel() by its cascade.
Delete(ids) ==
  /\ ids # {}
  /\ places' = [id \in DOMAIN places \ ids |-> places[id]]
  /\ UNCHANGED <<lastRow, page>>

\* list_channels(), list_search_backends(): what a page shows.
Open(a) ==
  /\ page[a].at # "open"
  /\ page' = [page EXCEPT ![a] = [at |-> "open", shown |-> Owners(places), layers |-> <<>>]]
  /\ UNCHANGED <<places, lastRow>>

\* reorder_entries(), reorder_search_backends(): a row in two layers is refused
\* before anything is read; the rows of layer i get the place 10 * i...
Layers(ids) ==
  {ls \in UNION {[1..n -> SUBSET ids] : n \in 0..MaxLayers} :
     /\ UNION Range(ls) = ids
     /\ \A i, j \in DOMAIN ls : i # j => ls[i] \cap ls[j] = {}}

LayerOf(ls, id) == CHOOSE i \in DOMAIN ls : id \in ls[i]

\* ... in one transaction that compares the rows first.
Accepts_Shorter(ids) == ids \subseteq DOMAIN places
Accepts(ids) == ids = DOMAIN places

Reorder(a, ls) ==
  /\ page[a].at = "open"
  /\ IF Accepts(DOMAIN page[a].shown)
     THEN /\ places' = [id \in DOMAIN places |->
                          IF \E i \in DOMAIN ls : id \in ls[i]
                          THEN [places[id] EXCEPT !.place = Step * LayerOf(ls, id)]
                          ELSE places[id]]
          /\ page' = [page EXCEPT ![a].at = "done", ![a].layers = ls]
     ELSE /\ page' = [page EXCEPT ![a].at = "conflict"]
          /\ UNCHANGED places
  /\ UNCHANGED lastRow

Next ==
  \/ \E o \in Owner, place \in {FirstPlace, AtTheEnd} : Add(o, place)
  \/ \E id \in DOMAIN places : Edit(id, FirstPlace) \/ Delete({id})
  \/ \E o \in Owner : Delete({id \in DOMAIN places : places[id].owner = o})
  \/ \E a \in Admin : Open(a) \/ \E ls \in Layers(DOMAIN page[a].shown) : Reorder(a, ls)

Spec == Init /\ [][Next]_vars

-------------------------------------------------------------------------------
\* admin/mod.rs:1112: an order is taken only if it is of all the rows, and of the
\* very rows that the page showed, and nobody's row is left outside of it; and the
\* page is called out of date only if rows came or went.
OrderAsShown ==
  \A a \in Admin : page[a].at = "open" =>
    /\ page'[a].at = "done" =>
         /\ Owners(places) = page[a].shown
         /\ \A x, y \in DOMAIN places' :
              LET ls == page'[a].layers IN
              places'[x].place < places'[y].place <=> LayerOf(ls, x) < LayerOf(ls, y)
    /\ page'[a].at = "conflict" => DOMAIN places # DOMAIN page[a].shown

OrderIsOfTheRowsShown == [][OrderAsShown]_vars
===============================================================================

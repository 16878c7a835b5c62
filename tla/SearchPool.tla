-------------------------------- MODULE SearchPool ------------------------------
(***************************************************************************)
(* The search backends (websearch/backends.rs, run_search() and the        *)
(* administration of them): a request loads the list in the order of its   *)
(* places, and each of its searches asks one backend after another,        *)
(* passing those that were cooling when the list was loaded, until one     *)
(* answers.  What fails is cooled by a queued write.  The list is loaded   *)
(* before the one search of the fast path or else when the upstream has    *)
(* answered, and a list that was empty is then read once more.             *)
(***************************************************************************)
EXTENDS Integers, Sequences, FiniteSets, FiniteSetsExt, SequencesExt, Functions

CONSTANTS
  Searcher,     \* slots for requests that search
  ApiKey,       \* api_key of a backend
  MaxBackend,   \* the bound on the ids given
  MaxAlter,     \* the bound on the changes of the table by the administrator
  Wait,         \* how long a failure cools: retry-after, or backoff()
  MaxInstant,   \* the bound on the clock
  Pending,      \* the bound on the queued writes
  None

SearchPoolAssumption ==
  None \notin ApiKey /\ Wait \subseteq Nat /\ {MaxBackend, MaxAlter, MaxInstant, Pending} \subseteq Nat \ {0}

VARIABLES
  instant,    \* the clock
  backends,   \* search_backends: id -> [place, key, on, until, by]
  highest,    \* sqlite_sequence
  late,       \* Db::tx: Write::SearchCooldown, not yet committed
  searcher,   \* the requests: their list, and the search under way
  altered,    \* the changes so far
  replaced    \* history: backends whose key was replaced while a failure of the
              \* old one was under way

vars == <<instant, backends, highest, late, searcher, altered, replaced>>

\* `by` is the key whose failure cooled the backend.
Backend ==
  [place: Nat, key: ApiKey, on: BOOLEAN, until: Nat, by: ApiKey \cup {None}]
Slot == [id: 1..MaxBackend, key: ApiKey, until: Nat]
Away == [at |-> "away", early |-> FALSE, list |-> <<>>, shown |-> <<>>, began |-> 0,
         asked |-> 0, failed |-> {}, found |-> 0]

TypeOK ==
  /\ instant \in 0..MaxInstant /\ highest \in 0..MaxBackend
  /\ DOMAIN backends \subseteq 1..highest /\ Range(backends) \subseteq Backend
  /\ Len(late) <= Pending
  /\ \A i \in DOMAIN late : late[i].id \in 1..highest /\ late[i].key \in ApiKey
  /\ \A r \in Searcher :
       /\ searcher[r].at \in {"away", "ready", "asking", "found", "nothing"}
       /\ searcher[r].early \in BOOLEAN
       /\ searcher[r].list \in Seq(Slot)
       /\ searcher[r].asked \in 0..Len(searcher[r].list)
       /\ searcher[r].failed \subseteq {searcher[r].list[i].id : i \in DOMAIN searcher[r].list}
  /\ altered \in 0..MaxAlter /\ replaced \subseteq 1..highest

Init ==
  /\ instant = 0 /\ backends = <<>> /\ highest = 0
  /\ late = <<>> /\ searcher = [r \in Searcher |-> Away]
  /\ altered = 0 /\ replaced = {}

ofTable == <<backends, highest, altered, replaced>>

-------------------------------------------------------------------------------
\* load_backends(): what is enabled, by place and then by id.
Before_ById(x, y) == x < y
Before(x, y) ==
  \/ backends[x].place < backends[y].place
  \/ backends[x].place = backends[y].place /\ x < y

Listed ==
  LET ids == SetToSortSeq({x \in DOMAIN backends : backends[x].on}, Before) IN
  [i \in DOMAIN ids |->
     [id |-> ids[i], key |-> backends[ids[i]].key, until |-> backends[ids[i]].until]]

\* `shown` is for the properties: what was enabled, at its place.
Loaded(s) ==
  [s EXCEPT !.at = "ready", !.list = Listed,
            !.shown = [x \in {y \in DOMAIN backends : backends[y].on} |->
                         [place |-> backends[x].place, until |-> backends[x].until]]]

\* Before the search of the fast path (early), or when the upstream has answered.
Load(r, early) ==
  /\ searcher[r].at = "away"
  /\ searcher' = [searcher EXCEPT ![r] = Loaded([Away EXCEPT !.early = early])]
  /\ UNCHANGED <<instant, late, ofTable>>

\* The search of the fast path is over and the upstream has answered: the list stays
\* as it is, unless it is empty.
LoadAgain(r) ==
  /\ searcher[r].early /\ searcher[r].at \in {"found", "nothing"}
  /\ searcher' = [searcher EXCEPT ![r] =
       [(IF @.list = <<>> THEN Loaded(@) ELSE @) EXCEPT
          !.at = "ready", !.early = FALSE, !.began = 0, !.asked = 0, !.failed = {}, !.found = 0]]
  /\ UNCHANGED <<instant, late, ofTable>>

\* run_search(): the next one of the list that was not cooling by the instant at
\* which the search began.
Asks_Fresh(s, i, began) == backends[s.list[i].id].until <= began
Asks(s, i, began) == s.list[i].until <= began

Advanced(s, from, began) ==
  LET ahead == {i \in from..Len(s.list) : Asks(s, i, began)} IN
  IF ahead = {} THEN [s EXCEPT !.at = "nothing", !.began = began, !.asked = 0]
  ELSE [s EXCEPT !.at = "asking", !.began = began, !.asked = Min(ahead)]

\* A search of a request: the first, or one more in a later round.
Search(r) ==
  /\ searcher[r].at \in {"ready", "found", "nothing"}
  /\ searcher[r].early => searcher[r].at = "ready"
  /\ searcher' = [searcher EXCEPT ![r] =
                    Advanced([@ EXCEPT !.failed = {}, !.found = 0], 1, instant)]
  /\ UNCHANGED <<instant, late, ofTable>>

Asked(r) == searcher[r].list[searcher[r].asked]

\* An answer, if only an empty one, ends the search.
Answer(r) ==
  /\ searcher[r].at = "asking"
  /\ searcher' = [searcher EXCEPT ![r].at = "found", ![r].found = Asked(r).id]
  /\ UNCHANGED <<instant, late, ofTable>>

\* A failure that is not the backend's fault, or one that cools it; a write that
\* finds the queue full is dropped.
Fail(r, cools) ==
  /\ searcher[r].at = "asking"
  /\ searcher' = [searcher EXCEPT ![r] =
                    Advanced([@ EXCEPT !.failed = @ \cup {Asked(r).id}],
                             searcher[r].asked + 1, searcher[r].began)]
  /\ \/ cools = None /\ UNCHANGED late
     \/ /\ cools # None
        /\ late' = IF Len(late) < Pending
                   THEN Append(late, [id |-> Asked(r).id, until |-> instant + cools,
                                      key |-> Asked(r).key])
                   ELSE late
  /\ UNCHANGED <<instant, ofTable>>

\* The request is over.
Leave(r) ==
  /\ searcher[r].at \notin {"away", "asking"}
  /\ searcher' = [searcher EXCEPT ![r] = Away]
  /\ UNCHANGED <<instant, late, ofTable>>

\* The writer commits what is queued: the last write stands.
Commit ==
  /\ late # <<>>
  /\ late' = Tail(late)
  /\ backends' = IF Head(late).id \in DOMAIN backends
                 THEN [backends EXCEPT ![Head(late).id].until = Head(late).until,
                                       ![Head(late).id].by = Head(late).key]
                 ELSE backends
  /\ UNCHANGED <<instant, highest, searcher, altered, replaced>>

-------------------------------------------------------------------------------
\* create_search_backend(): behind all the others.
Create(key) ==
  /\ highest < MaxBackend
  /\ highest' = highest + 1
  /\ backends' = [x \in DOMAIN backends \cup {highest + 1} |->
                    IF x # highest + 1 THEN backends[x]
                    ELSE [place |-> Max({backends[y].place : y \in DOMAIN backends} \cup {0}) + 10,
                          key |-> key, on |-> TRUE, until |-> 0, by |-> None]]
  /\ UNCHANGED <<instant, late, searcher, replaced>>

\* update_search_backend(): without a key all but the key, and the cooldown stays...
Edit(x, on) ==
  /\ backends' = [backends EXCEPT ![x].on = on]
  /\ UNCHANGED <<instant, highest, late, searcher, replaced>>

\* ... with one the cooldown is cleared.
Renewed_StaysCold(row, key) == [row EXCEPT !.key = key]
Renewed(row, key) == [row EXCEPT !.key = key, !.until = 0, !.by = None]

UnderWay(x) ==
  \/ \E i \in DOMAIN late : late[i].id = x
  \/ \E r \in Searcher : searcher[r].at # "away" /\ \E i \in DOMAIN searcher[r].list :
       searcher[r].list[i].id = x

Renew(x, key) ==
  /\ backends' = [backends EXCEPT ![x] = Renewed(@, key)]
  /\ replaced' = IF UnderWay(x) THEN replaced \cup {x} ELSE replaced
  /\ UNCHANGED <<instant, highest, late, searcher>>

Delete(x) ==
  /\ backends' = [y \in DOMAIN backends \ {x} |-> backends[y]]
  /\ replaced' = replaced \ {x}
  /\ UNCHANGED <<instant, highest, late, searcher>>

\* reorder_search_backends(): see Order.
Reorder(ids) ==
  /\ Range(ids) = DOMAIN backends
  /\ backends' = [x \in DOMAIN backends |->
                    [backends[x] EXCEPT !.place = 10 * CHOOSE i \in DOMAIN ids : ids[i] = x]]
  /\ UNCHANGED <<instant, highest, late, searcher, replaced>>

Tick ==
  /\ instant < MaxInstant
  /\ instant' = instant + 1
  /\ UNCHANGED <<late, searcher, ofTable>>

Searches ==
  \E r \in Searcher :
    \/ \E early \in BOOLEAN : Load(r, early)
    \/ LoadAgain(r) \/ Search(r) \/ Answer(r) \/ Leave(r)
    \/ \E cools \in Wait \cup {None} : Fail(r, cools)

Edits ==
  /\ altered < MaxAlter /\ altered' = altered + 1
  /\ \/ \E key \in ApiKey : Create(key)
     \/ \E x \in DOMAIN backends :
          \/ Delete(x)
          \/ \E on \in BOOLEAN : Edit(x, on)
          \/ \E key \in ApiKey : Renew(x, key)
     \/ \E ids \in SetToAllKPermutations(DOMAIN backends) : Reorder(ids)

Next == Searches \/ Edits \/ Commit \/ Tick

Spec == Init /\ [][Next]_vars

-------------------------------------------------------------------------------
\* backends.rs:81: whoever changes the table meanwhile, a search is answered by the
\* first of the backends that was neither cooling nor failed to answer this search;
\* and it comes to nothing only if there is no such backend.  First is meant in the
\* order of the places when the request loaded the list: how old that may be by the
\* time of a later search is another matter, see NextSearchFollowsNewOrder.
InOrderOfPlaces ==
  \A r \in Searcher :
    LET s == searcher[r]
        first(x) == \A y \in DOMAIN s.shown \ {x} :
                      \/ s.shown[y].until > s.began \/ y \in s.failed
                      \/ s.shown[x].place < s.shown[y].place
                      \/ s.shown[x].place = s.shown[y].place /\ x < y
    IN /\ s.at = "found" => /\ s.shown[s.found].until <= s.began
                            /\ first(s.found)
       /\ s.at = "nothing" => \A y \in DOMAIN s.shown :
                                s.shown[y].until > s.began \/ y \in s.failed

\* admin/mod.rs:1803: a backend with a new key is cooled by failures of that key only,
\* unless one of the old key was under way.
NewKeyStartsWarm ==
  \A x \in DOMAIN backends \ replaced :
    backends[x].by # None => backends[x].by = backends[x].key

\* What the comments promise, and the code does not keep.
\*
\* admin/mod.rs:1746, README.md:83: every search reads the table, so that the next one
\* goes by the new order: those of a request that has its list do not.
NextSearchFollowsNewOrder ==
  LET ids(list) == [i \in DOMAIN list |-> list[i].id] IN
  [][\A r \in Searcher : Search(r) => ids(searcher[r].list) = ids(Listed)]_vars

\* backends.rs:6: a backend that was cooled is passed: not by the later searches of a
\* request, which go by the list as it was loaded.
CoolingIsPassed ==
  \A r \in Searcher :
    searcher[r].at = "asking" /\ Asked(r).id \in DOMAIN backends =>
      backends[Asked(r).id].until <= searcher[r].began
===============================================================================

---------------------------- MODULE MCRequest_proofs ----------------------------
(***************************************************************************)
(* Proofs about the repair of rejected requests, for every set of requests *)
(* in flight, entries, errors and patches: what the gateway learns of an   *)
(* error or of an entry has been earned by a request that it let through.  *)
(* And about the count of tokens, for every number of them and of          *)
(* segments: each is counted once, for the row and for the client.         *)
(***************************************************************************)
EXTENDS MCRequest, Sequences, WellFoundedInduction, TLAPS

LEMMA RectifyConstants ==
  /\ Forced \subseteq Entry /\ Refuses \subseteq Fingerprint
  /\ None \notin Entry /\ None \notin Patch
  /\ MaxRows \in Nat /\ MaxEdits \in Nat
BY RequestAssumption DEF R!RectifyAssumption

\* A step is one of the repair, or leaves what the repair goes by alone.
LEMMA RepairSteps ==
  ASSUME [RequestNext]_<<part, ofDialogue, ofRectify, ofMetering>>
  PROVE  R!RectifyNext \/ UNCHANGED R!rvars
BY DEF RequestNext, ofRectify, R!rvars

(***************************************************************************)
(* The inductive invariant.                                                *)
(***************************************************************************)
Attempt ==
  [at: R!Place, left: SUBSET Entry, noted: [Entry -> R!Form], cand: Entry \cup {None},
   error: Fingerprint \cup {None}, form: R!Form, tried: SUBSET (Early \cup Late),
   ruleTried: BOOLEAN, analyzed: SUBSET Fingerprint, pending: SUBSET R!Pending,
   applied: SUBSET (Fingerprint \X Patch), again: SUBSET Fingerprint]
Rule == [id: 1..MaxRows, patch: Patch, enabled: BOOLEAN, hits: 0..1]

RectifyTypes ==
  /\ entry \in [Entry -> [enabled: BOOLEAN, form: R!Form]]
  /\ rule \in [Fingerprint -> Rule \cup {None}]
  /\ rows \in 0..MaxRows /\ edits \in 0..MaxEdits
  /\ req \in [Request -> Attempt]
  /\ tested \subseteq Entry \X R!Form

\* What is pending is in the body, and its error has not come again.
Credited(q) ==
  \A p \in q.pending : <<p.print, p.patch>> \in q.applied /\ p.print \notin q.again

\* From the error on, nothing is pending for it until it is patched; and there is a
\* candidate from its choice to the end.
Placed(q) ==
  /\ q.at \in {"find", "analyse"} =>
       q.error \in Fingerprint /\ \A p \in q.pending : p.print # q.error
  /\ q.at \in {"try", "find", "analyse", "settle"} => q.cand \in Entry

\* A candidate that answered has answered under the form it was asked with.
AnswersAreTested ==
  \A r \in Request : req[r].at = "settle" => <<req[r].cand, req[r].form>> \in tested

LearningInv ==
  /\ RectifyTypes
  /\ \A r \in Request : Credited(req[r]) /\ Placed(req[r])
  /\ AnswersAreTested
  /\ R!NotedFormsWork

LEMMA AttemptFields ==
  ASSUME NEW q \in Attempt
  PROVE  q = [at |-> q.at, left |-> q.left, noted |-> q.noted, cand |-> q.cand,
              error |-> q.error, form |-> q.form, tried |-> q.tried,
              ruleTried |-> q.ruleTried, analyzed |-> q.analyzed, pending |-> q.pending,
              applied |-> q.applied, again |-> q.again]
BY DEF Attempt

LEMMA IdleIsAttempt ==
  /\ R!Idle \in Attempt /\ R!Idle.pending = {} /\ R!Idle.at = "idle"
  /\ R!Over \in Attempt /\ R!Over.pending = {} /\ R!Over.at = "done"
<1>1. R!Idle \in Attempt
  BY DEF R!Idle, Attempt, R!Place, R!Form
<1>2. R!Over \in Attempt /\ R!Over.pending = {} /\ R!Over.at = "done"
  BY Zenon DEF R!Over, R!Idle, Attempt, R!Place, R!Form
<1> QED BY <1>1, <1>2, Zenon DEF R!Idle

\* A candidate is begun.
LEMMA CandidateBegun ==
  ASSUME NEW q \in Attempt, NEW e \in Entry, NEW t, t = R!BeginCandidate(q, e)
  PROVE  t \in Attempt /\ t.at = "try" /\ t.cand = e /\ t.pending = {}
<1>0. q = [at |-> q.at, left |-> q.left, noted |-> q.noted, cand |-> q.cand,
           error |-> q.error, form |-> q.form, tried |-> q.tried,
           ruleTried |-> q.ruleTried, analyzed |-> q.analyzed, pending |-> q.pending,
           applied |-> q.applied, again |-> q.again]
  BY AttemptFields
<1>1. R!Marked(q, e) \in R!Form
  BY Zenon DEF R!Marked, R!Form, Attempt
<1>2. t = [at |-> "try", left |-> q.left \ {e}, noted |-> q.noted, cand |-> e,
           error |-> None, form |-> R!Marked(q, e), tried |-> {}, ruleTried |-> FALSE,
           analyzed |-> q.analyzed, pending |-> {}, applied |-> {}, again |-> {}]
  BY <1>0 DEF R!BeginCandidate
<1>3. q.left \ {e} \in SUBSET Entry /\ q.noted \in [Entry -> R!Form]
      /\ q.analyzed \in SUBSET Fingerprint
  BY DEF Attempt
<1> QED BY <1>1, <1>2, <1>3 DEF Attempt, R!Place

LEMMA AttemptLost ==
  ASSUME NEW q \in Attempt, NEW t, t = R!Lost(q)
  PROVE  t \in Attempt /\ t.at = "choose" /\ t.pending = {}
<1>0. q = [at |-> q.at, left |-> q.left, noted |-> q.noted, cand |-> q.cand,
           error |-> q.error, form |-> q.form, tried |-> q.tried,
           ruleTried |-> q.ruleTried, analyzed |-> q.analyzed, pending |-> q.pending,
           applied |-> q.applied, again |-> q.again]
  BY AttemptFields
<1>1. t = [at |-> "choose", left |-> q.left, noted |-> q.noted, cand |-> q.cand,
           error |-> q.error, form |-> q.form, tried |-> q.tried,
           ruleTried |-> q.ruleTried, analyzed |-> q.analyzed, pending |-> {},
           applied |-> q.applied, again |-> q.again]
  BY <1>0 DEF R!Lost
<1> QED BY <1>1 DEF Attempt, R!Place

\* The error is told: what was pending for it was of no use.
LEMMA ErrorTold ==
  ASSUME NEW q \in Attempt, Credited(q), NEW f \in Fingerprint, NEW t, t = R!Told(q, f)
  PROVE  /\ t \in Attempt /\ Credited(t)
         /\ t.at = q.at /\ t.cand = q.cand /\ t.form = q.form /\ t.error = f
         /\ \A p \in t.pending : p.print # f
<1>0. q = [at |-> q.at, left |-> q.left, noted |-> q.noted, cand |-> q.cand,
           error |-> q.error, form |-> q.form, tried |-> q.tried,
           ruleTried |-> q.ruleTried, analyzed |-> q.analyzed, pending |-> q.pending,
           applied |-> q.applied, again |-> q.again]
  BY AttemptFields
<1>1. PICK again : again = q.again \cup {x[1] : x \in {y \in q.applied : y[1] = f}}
  OBVIOUS
<1>2. PICK useful : useful = {p \in q.pending : p.print # f}
  OBVIOUS
<1>3. t = [at |-> q.at, left |-> q.left, noted |-> q.noted, cand |-> q.cand,
           error |-> f, form |-> q.form, tried |-> q.tried,
           ruleTried |-> q.ruleTried, analyzed |-> q.analyzed, pending |-> useful,
           applied |-> q.applied, again |-> again]
  BY <1>0, <1>1, <1>2 DEF R!Told, R!Useful
<1>4. q.again \subseteq Fingerprint /\ q.pending \subseteq R!Pending
  BY DEF Attempt
<1>5. \A z \in again : z \in q.again \/ z = f
  BY <1>1
<1>6. again \subseteq Fingerprint /\ useful \subseteq R!Pending
  BY <1>2, <1>4, <1>5
<1>7. t \in Attempt
  BY <1>3, <1>6 DEF Attempt
<1>8. Credited(t)
  <2>1. t.pending = useful /\ t.applied = q.applied /\ t.again = again
    BY <1>3
  <2>2. \A p \in useful : /\ <<p.print, p.patch>> \in q.applied
                          /\ p.print \notin q.again /\ p.print # f
    BY <1>2, Zenon DEF Credited
  <2>3. \A p \in useful : p.print \notin again
    BY <1>5, <2>2
  <2> QED BY Zenon, <2>1, <2>2, <2>3 DEF Credited
<1> QED BY <1>2, <1>3, <1>7, <1>8

\* A patch is in the body, and pending for the error that it is meant for.
LEMMA ErrorPatched ==
  ASSUME NEW q \in Attempt, Credited(q), q.error \in Fingerprint,
         \A x \in q.pending : x.print # q.error,
         NEW p \in Patch, NEW row \in 0..MaxRows, NEW t, t = R!Patched(q, p, row)
  PROVE  t \in Attempt /\ Credited(t) /\ t.cand = q.cand /\ t.at = q.at
<1>0. q = [at |-> q.at, left |-> q.left, noted |-> q.noted, cand |-> q.cand,
           error |-> q.error, form |-> q.form, tried |-> q.tried,
           ruleTried |-> q.ruleTried, analyzed |-> q.analyzed, pending |-> q.pending,
           applied |-> q.applied, again |-> q.again]
  BY AttemptFields
<1>1. PICK x \in R!Pending : x = [print |-> q.error, patch |-> p, row |-> row]
  BY DEF R!Pending
<1>2. PICK applied : applied = {y \in q.applied : y[1] # q.error} \cup {<<q.error, p>>}
  OBVIOUS
<1>3. t = [at |-> q.at, left |-> q.left, noted |-> q.noted, cand |-> q.cand,
           error |-> q.error, form |-> q.form, tried |-> q.tried,
           ruleTried |-> q.ruleTried, analyzed |-> q.analyzed,
           pending |-> q.pending \cup {x}, applied |-> applied,
           again |-> q.again \ {q.error}]
  BY <1>0, <1>1, <1>2 DEF R!Patched
<1>4. /\ q.pending \cup {x} \subseteq R!Pending /\ applied \subseteq Fingerprint \X Patch
      /\ q.again \ {q.error} \subseteq Fingerprint
  BY <1>2 DEF Attempt
<1>5. t \in Attempt
  BY <1>3, <1>4 DEF Attempt
<1>6. ASSUME NEW y \in t.pending
      PROVE  <<y.print, y.patch>> \in t.applied /\ y.print \notin t.again
  <2>1. y \in q.pending \/ y = x
    BY <1>3
  <2>2. t.applied = applied /\ t.again = q.again \ {q.error}
    BY <1>3
  <2>3. CASE y = x
    BY <1>1, <1>2, <2>2, <2>3
  <2>4. CASE y \in q.pending
    <3>1. /\ <<y.print, y.patch>> \in q.applied /\ y.print \notin q.again
          /\ y.print # q.error
      BY <2>4 DEF Credited
    <3> QED BY <1>2, <2>2, <3>1
  <2> QED BY <2>1, <2>3, <2>4
<1> QED BY <1>3, <1>5, <1>6 DEF Credited

\* What changes of an attempt neither what is pending nor what it is pending for.
LEMMA AttemptPlaced ==
  ASSUME NEW q \in Attempt, NEW x \in R!Place, NEW t, t = [q EXCEPT !.at = x]
  PROVE  /\ t \in Attempt /\ t.at = x /\ t.cand = q.cand /\ t.form = q.form
         /\ t.error = q.error /\ t.pending = q.pending /\ t.applied = q.applied
         /\ t.again = q.again /\ (Credited(q) => Credited(t))
<1>1. /\ t \in Attempt /\ t.at = x /\ t.cand = q.cand /\ t.form = q.form
      /\ t.error = q.error /\ t.pending = q.pending /\ t.applied = q.applied
      /\ t.again = q.again
  BY DEF Attempt
<1> QED BY <1>1 DEF Credited

LEMMA AttemptFormed ==
  ASSUME NEW q \in Attempt, NEW x \in R!Form, NEW t, t = [q EXCEPT !.form = x]
  PROVE  t \in Attempt /\ t.cand = q.cand /\ (Credited(q) => Credited(t))
<1>1. /\ t \in Attempt /\ t.cand = q.cand /\ t.pending = q.pending
      /\ t.applied = q.applied /\ t.again = q.again
  BY DEF Attempt
<1> QED BY <1>1 DEF Credited

LEMMA AttemptRepaired ==
  ASSUME NEW q \in Attempt, NEW b \in Early \cup Late, NEW t, t = R!Repair(q, b)
  PROVE  t \in Attempt /\ t.cand = q.cand /\ (Credited(q) => Credited(t))
<1>1. /\ t \in Attempt /\ t.cand = q.cand /\ t.pending = q.pending
      /\ t.applied = q.applied /\ t.again = q.again
  BY DEF Attempt, R!Repair
<1> QED BY <1>1 DEF Credited

LEMMA AttemptUsed ==
  ASSUME NEW q \in Attempt, NEW t, t = R!Used(q)
  PROVE  /\ t \in Attempt /\ t.at = q.at /\ t.cand = q.cand /\ t.error = q.error
         /\ t.pending = q.pending /\ (Credited(q) => Credited(t))
<1>1. /\ t \in Attempt /\ t.at = q.at /\ t.cand = q.cand /\ t.error = q.error
      /\ t.pending = q.pending /\ t.applied = q.applied /\ t.again = q.again
  BY DEF Attempt, R!Used
<1> QED BY <1>1 DEF Credited

LEMMA AttemptAnalysed ==
  ASSUME NEW q \in Attempt, q.error \in Fingerprint,
         NEW t, t = [q EXCEPT !.analyzed = @ \cup {q.error}]
  PROVE  /\ t \in Attempt /\ t.cand = q.cand /\ t.error = q.error
         /\ t.pending = q.pending /\ (Credited(q) => Credited(t))
<1>1. /\ t \in Attempt /\ t.cand = q.cand /\ t.error = q.error
      /\ t.pending = q.pending /\ t.applied = q.applied /\ t.again = q.again
  BY DEF Attempt
<1> QED BY <1>1 DEF Credited

\* One of the patches is settled.
LEMMA AttemptSettled ==
  ASSUME NEW q \in Attempt, Credited(q), NEW p, NEW t, t = [q EXCEPT !.pending = @ \ {p}]
  PROVE  /\ t \in Attempt /\ Credited(t)
         /\ t.at = q.at /\ t.cand = q.cand /\ t.form = q.form
<1>1. /\ t \in Attempt /\ t.at = q.at /\ t.cand = q.cand /\ t.form = q.form
      /\ t.pending = q.pending \ {p} /\ t.applied = q.applied /\ t.again = q.again
  BY DEF Attempt
<1> QED BY <1>1 DEF Credited

(***************************************************************************)
(* Each step keeps the invariant.                                          *)
(***************************************************************************)
LEMMA RequestMoves ==
  ASSUME LearningInv,
         NEW r \in Request, NEW t \in Attempt, Credited(t), Placed(t), R!Goes(r, t),
         t.at = "settle" => <<t.cand, t.form>> \in tested',
         tested \subseteq tested', tested' \subseteq Entry \X R!Form,
         entry' \in [Entry -> [enabled: BOOLEAN, form: R!Form]],
         rule' \in [Fingerprint -> Rule \cup {None}],
         rows' \in 0..MaxRows, edits' \in 0..MaxEdits, R!NotedFormsWork'
  PROVE  LearningInv'
<1>1. /\ req \in [Request -> Attempt]
      /\ \A x \in Request : Credited(req[x]) /\ Placed(req[x])
      /\ \A x \in Request : req[x].at = "settle" => <<req[x].cand, req[x].form>> \in tested
  BY DEF LearningInv, RectifyTypes, AnswersAreTested
<1>2. req' \in [Request -> Attempt] /\ \A x \in Request : req'[x] = IF x = r THEN t ELSE req[x]
  BY <1>1 DEF R!Goes
<1>3. \A x \in Request : Credited(req'[x]) /\ Placed(req'[x])
  BY <1>1, <1>2
<1>4. AnswersAreTested'
  BY <1>1, <1>2 DEF AnswersAreTested
<1>5. RectifyTypes'
  BY <1>2 DEF RectifyTypes
<1> QED BY <1>3, <1>4, <1>5 DEF LearningInv

\* A repair goes back to the candidate, or gives up an entry that takes no form.
LEMMA ChangeKeepsInv ==
  ASSUME LearningInv,
         NEW r \in Request, NEW q \in Attempt, Credited(q), q.cand \in Entry,
         R!Changed(r, q), UNCHANGED <<rule, rows, edits, tested>>
  PROVE  LearningInv'
<1>1. /\ entry \in [Entry -> [enabled: BOOLEAN, form: R!Form]]
      /\ rule \in [Fingerprint -> Rule \cup {None}]
      /\ rows \in 0..MaxRows /\ edits \in 0..MaxEdits /\ tested \subseteq Entry \X R!Form
      /\ R!NotedFormsWork
  BY DEF LearningInv, RectifyTypes
<1>2. CASE q.form = "unsupported"
  <2>1. PICK t : t = R!Lost(q)
    OBVIOUS
  <2>2. t \in Attempt /\ t.at = "choose" /\ t.pending = {}
    BY <2>1, AttemptLost
  <2>3. Credited(t) /\ Placed(t) /\ R!Goes(r, t)
    BY <1>2, <2>1, <2>2 DEF Credited, Placed, R!Changed
  <2>4. entry' = [entry EXCEPT ![q.cand] = [enabled |-> FALSE, form |-> "unsupported"]]
    BY <1>2 DEF R!Changed
  <2>5. entry' \in [Entry -> [enabled: BOOLEAN, form: R!Form]]
    BY <1>1, <2>4, Zenon DEF R!Form
  <2>6. R!NotedFormsWork'
    BY <1>1, <2>4 DEF R!NotedFormsWork
  <2> QED BY <1>1, <2>2, <2>3, <2>5, <2>6, RequestMoves
<1>3. CASE q.form # "unsupported"
  <2>1. PICK t : t = [q EXCEPT !.at = "try"]
    OBVIOUS
  <2>2. t \in Attempt /\ t.at = "try" /\ t.cand = q.cand /\ Credited(t)
    BY <2>1, AttemptPlaced DEF R!Place
  <2>3. Placed(t) /\ R!Goes(r, t)
    BY <1>3, <2>1, <2>2 DEF Placed, R!Changed
  <2>4. UNCHANGED entry
    BY <1>3 DEF R!Changed
  <2>5. R!NotedFormsWork'
    BY <1>1, <2>4 DEF R!NotedFormsWork
  <2> QED BY <1>1, <2>2, <2>3, <2>4, <2>5, RequestMoves
<1> QED BY <1>2, <1>3

\* What the invariant says of one request, and of the tables.
LEMMA InvOfRequest ==
  ASSUME LearningInv, NEW r \in Request
  PROVE  /\ req[r] \in Attempt /\ Credited(req[r]) /\ Placed(req[r])
         /\ req[r].at = "settle" => <<req[r].cand, req[r].form>> \in tested
         /\ entry \in [Entry -> [enabled: BOOLEAN, form: R!Form]]
         /\ rule \in [Fingerprint -> Rule \cup {None}]
         /\ rows \in 0..MaxRows /\ edits \in 0..MaxEdits /\ tested \subseteq Entry \X R!Form
         /\ R!NotedFormsWork
BY DEF LearningInv, RectifyTypes, AnswersAreTested

LEMMA NotedFormsKept ==
  ASSUME R!NotedFormsWork, UNCHANGED entry, tested \subseteq tested'
  PROVE  R!NotedFormsWork'
BY DEF R!NotedFormsWork

LEMMA StartKeepsInv ==
  ASSUME LearningInv, NEW r \in Request, R!Start(r)
  PROVE  LearningInv'
<1>1. PICK t : t = [R!Idle EXCEPT !.at = "choose",
                                  !.left = {e \in Entry : entry[e].enabled},
                                  !.noted = [e \in Entry |-> entry[e].form]]
  BY Zenon
<1>2. R!Goes(r, t) /\ UNCHANGED <<entry, rule, rows, edits, tested>>
  BY <1>1 DEF R!Start
<1>3. t = [at |-> "choose", left |-> {e \in Entry : entry[e].enabled},
           noted |-> [e \in Entry |-> entry[e].form], cand |-> None,
           error |-> None, form |-> "", tried |-> {}, ruleTried |-> FALSE,
           analyzed |-> {}, pending |-> {}, applied |-> {}, again |-> {}]
  BY <1>1, Zenon DEF R!Idle
<1>4. [e \in Entry |-> entry[e].form] \in [Entry -> R!Form]
  BY InvOfRequest
<1>5. t \in Attempt
  BY <1>3, <1>4, Zenon DEF Attempt, R!Place, R!Form
<1>6. Credited(t) /\ Placed(t) /\ t.at # "settle"
  BY <1>3, Zenon DEF Credited, Placed
<1> QED BY <1>2, <1>5, <1>6, InvOfRequest, NotedFormsKept, RequestMoves

LEMMA ChooseKeepsInv ==
  ASSUME LearningInv, NEW r \in Request, R!Choose(r)
  PROVE  LearningInv'
<1>1. UNCHANGED <<entry, rule, rows, edits, tested>>
  BY DEF R!Choose
<1>2. ASSUME NEW e \in req[r].left, R!Goes(r, R!BeginCandidate(req[r], e))
      PROVE  LearningInv'
  <2>1. PICK q \in Attempt : q = req[r]
    BY InvOfRequest
  <2>2. PICK t : t = R!BeginCandidate(q, e)
    OBVIOUS
  <2>3. e \in Entry
    BY <2>1 DEF Attempt
  <2>4. t \in Attempt /\ t.at = "try" /\ t.cand = e /\ t.pending = {}
    BY <2>2, <2>3, CandidateBegun
  <2>5. Credited(t) /\ Placed(t) /\ R!Goes(r, t)
    BY <1>2, <2>1, <2>2, <2>3, <2>4 DEF Credited, Placed
  <2> QED BY <1>1, <2>4, <2>5, InvOfRequest, NotedFormsKept, RequestMoves
<1>3. ASSUME R!Goes(r, R!Over)
      PROVE  LearningInv'
  <2>1. PICK t : t = R!Over
    OBVIOUS
  <2>2. t \in Attempt /\ t.at = "done" /\ t.pending = {} /\ R!Goes(r, t)
    BY <1>3, <2>1, IdleIsAttempt
  <2>3. Credited(t) /\ Placed(t)
    BY <2>2 DEF Credited, Placed
  <2> QED BY <1>1, <2>2, <2>3, InvOfRequest, NotedFormsKept, RequestMoves
<1> QED BY <1>2, <1>3 DEF R!Choose

\* The candidate is lost.
LEMMA LossKeepsInv ==
  ASSUME LearningInv, NEW r \in Request, NEW q \in Attempt, R!Goes(r, R!Lost(q)),
         UNCHANGED <<entry, rule, rows, edits, tested>>
  PROVE  LearningInv'
<1>1. PICK t : t = R!Lost(q)
  OBVIOUS
<1>2. t \in Attempt /\ t.at = "choose" /\ t.pending = {} /\ R!Goes(r, t)
  BY <1>1, AttemptLost
<1>3. Credited(t) /\ Placed(t)
  BY <1>2 DEF Credited, Placed
<1> QED BY <1>2, <1>3, InvOfRequest, NotedFormsKept, RequestMoves

LEMMA FailKeepsInv ==
  ASSUME LearningInv, NEW r \in Request, R!Fail(r)
  PROVE  LearningInv'
<1>1. PICK q \in Attempt : q = req[r]
  BY InvOfRequest
<1> QED BY <1>1, LossKeepsInv DEF R!Fail

LEMMA RejectKeepsInv ==
  ASSUME LearningInv, NEW r \in Request, R!Reject(r)
  PROVE  LearningInv'
<1>1. PICK f \in Fingerprint : R!Builtin(r, f)
  BY DEF R!Reject
<1>2. UNCHANGED <<rule, rows, edits, tested>>
  BY DEF R!Reject
<1>3. PICK q : q = R!Told(req[r], f)
  OBVIOUS
<1>4. /\ req[r] \in Attempt /\ Credited(req[r]) /\ req[r].cand \in Entry
  BY InvOfRequest DEF R!Reject, R!At, Placed
<1>5. /\ q \in Attempt /\ Credited(q) /\ q.cand \in Entry /\ q.error = f
      /\ \A p \in q.pending : p.print # f
  BY <1>3, <1>4, ErrorTold
<1>6. \/ \E b \in Early \ q.tried : R!Changed(r, R!Repair(q, b))
      \/ R!Changed(r, [q EXCEPT !.form = R!Downgraded(@)])
      \/ \E b \in Late \ q.tried : R!Changed(r, R!Repair(q, b))
      \/ /\ R!Goes(r, [q EXCEPT !.at = IF q.ruleTried THEN "analyse" ELSE "find"])
         /\ UNCHANGED entry
  BY <1>1, <1>3 DEF R!Builtin
<1>7. ASSUME NEW b \in Early \cup Late, R!Changed(r, R!Repair(q, b))
      PROVE  LearningInv'
  <2>1. PICK t : t = R!Repair(q, b)
    OBVIOUS
  <2>2. t \in Attempt /\ Credited(t) /\ t.cand \in Entry /\ R!Changed(r, t)
    BY <1>5, <1>7, <2>1, AttemptRepaired
  <2> QED BY <1>2, <2>2, ChangeKeepsInv
<1>8. ASSUME R!Changed(r, [q EXCEPT !.form = R!Downgraded(@)])
      PROVE  LearningInv'
  <2>1. PICK x : x = R!Downgraded(q.form)
    OBVIOUS
  <2>2. x \in R!Form
    BY <2>1 DEF R!Downgraded, R!Form
  <2>3. PICK t : t = [q EXCEPT !.form = x]
    OBVIOUS
  <2>4. t \in Attempt /\ Credited(t) /\ t.cand \in Entry
    BY <1>5, <2>2, <2>3, AttemptFormed
  <2>5. t = [q EXCEPT !.form = R!Downgraded(@)]
    BY <2>1, <2>3
  <2> QED BY <1>2, <1>8, <2>4, <2>5, ChangeKeepsInv
<1>9. ASSUME R!Goes(r, [q EXCEPT !.at = IF q.ruleTried THEN "analyse" ELSE "find"]),
             UNCHANGED entry
      PROVE  LearningInv'
  <2>1. PICK x : x = IF q.ruleTried THEN "analyse" ELSE "find"
    OBVIOUS
  <2>2. x \in R!Place /\ x # "settle"
    BY <2>1 DEF R!Place
  <2>3. PICK t : t = [q EXCEPT !.at = x]
    OBVIOUS
  <2>4. /\ t \in Attempt /\ Credited(t) /\ t.cand \in Entry /\ t.error = f
        /\ t.at = x /\ t.pending = q.pending
    BY <1>5, <2>2, <2>3, AttemptPlaced
  <2>5. Placed(t) /\ R!Goes(r, t)
    BY <1>5, <1>9, <2>1, <2>3, <2>4 DEF Placed
  <2> QED BY <1>2, <1>9, <2>2, <2>4, <2>5, InvOfRequest, NotedFormsKept, RequestMoves
<1> QED BY <1>6, <1>7, <1>8, <1>9

LEMMA FindRuleKeepsInv ==
  ASSUME LearningInv, NEW r \in Request, R!FindRule(r)
  PROVE  LearningInv'
<1>1. PICK q \in Attempt : q = req[r]
  BY InvOfRequest
<1>2. /\ Credited(q) /\ q.cand \in Entry /\ q.error \in Fingerprint
      /\ \A p \in q.pending : p.print # q.error
  BY <1>1, InvOfRequest DEF R!FindRule, R!At, Placed
<1>3. UNCHANGED <<rule, rows, edits, tested>>
  BY DEF R!FindRule
<1>4. PICK u : u = R!Used(q)
  OBVIOUS
<1>5. /\ u \in Attempt /\ Credited(u) /\ u.cand \in Entry /\ u.error = q.error
      /\ u.pending = q.pending
  BY <1>2, <1>4, AttemptUsed
<1>6. PICK found \in BOOLEAN : found <=> rule[q.error] # None /\ rule[q.error].enabled
  OBVIOUS
<1>7. \/ found /\ R!Changed(r, R!Patched(u, rule[q.error].patch, rule[q.error].id))
      \/ /\ R!Goes(r, [(IF found THEN u ELSE q) EXCEPT !.at = "analyse"])
         /\ UNCHANGED entry
  BY <1>1, <1>4, <1>6 DEF R!FindRule
<1>8. ASSUME found, R!Changed(r, R!Patched(u, rule[q.error].patch, rule[q.error].id))
      PROVE  LearningInv'
  <2>1. rule[q.error] \in Rule
    BY <1>2, <1>6, <1>8, InvOfRequest
  <2>2. PICK p \in Patch : p = rule[q.error].patch
    BY <2>1 DEF Rule
  <2>3. PICK row \in 0..MaxRows : row = rule[q.error].id
    BY <2>1, RectifyConstants DEF Rule
  <2>4. PICK t : t = R!Patched(u, p, row)
    OBVIOUS
  <2>5. t \in Attempt /\ Credited(t) /\ t.cand = u.cand
    BY <1>2, <1>5, <2>4, ErrorPatched
  <2> QED BY <1>3, <1>5, <1>8, <2>2, <2>3, <2>4, <2>5, ChangeKeepsInv
<1>9. ASSUME R!Goes(r, [(IF found THEN u ELSE q) EXCEPT !.at = "analyse"]), UNCHANGED entry
      PROVE  LearningInv'
  <2>1. PICK v : v = IF found THEN u ELSE q
    OBVIOUS
  <2>2. /\ v \in Attempt /\ Credited(v) /\ v.cand \in Entry /\ v.error = q.error
        /\ v.pending = q.pending
    BY <1>2, <1>5, <2>1
  <2>3. PICK t : t = [v EXCEPT !.at = "analyse"]
    OBVIOUS
  <2>4. /\ t \in Attempt /\ Credited(t) /\ t.cand = v.cand /\ t.error = v.error
        /\ t.at = "analyse" /\ t.pending = v.pending
    BY <2>2, <2>3, AttemptPlaced DEF R!Place
  <2>5. Placed(t) /\ R!Goes(r, t)
    BY <1>2, <1>9, <2>1, <2>2, <2>3, <2>4 DEF Placed
  <2> QED BY <1>3, <1>9, <2>4, <2>5, InvOfRequest, NotedFormsKept, RequestMoves
<1> QED BY <1>7, <1>8, <1>9

LEMMA AnalyseKeepsInv ==
  ASSUME LearningInv, NEW r \in Request, R!Analyse(r)
  PROVE  LearningInv'
<1>1. PICK q \in Attempt : q = req[r]
  BY InvOfRequest
<1>2. /\ Credited(q) /\ q.cand \in Entry /\ q.error \in Fingerprint
      /\ \A p \in q.pending : p.print # q.error
  BY <1>1, InvOfRequest DEF R!Analyse, R!At, Placed
<1>3. UNCHANGED <<rule, rows, edits, tested>>
  BY DEF R!Analyse
<1>4. PICK u : u = [q EXCEPT !.analyzed = @ \cup {q.error}]
  OBVIOUS
<1>5. /\ u \in Attempt /\ Credited(u) /\ u.cand \in Entry /\ u.error = q.error
      /\ u.pending = q.pending
  BY <1>2, <1>4, AttemptAnalysed
<1>6. \/ \E p \in Patch : R!Changed(r, R!Patched(u, p, 0))
      \/ R!Goes(r, R!Lost(u)) /\ UNCHANGED entry
  BY <1>1, <1>4 DEF R!Analyse
<1>7. ASSUME NEW p \in Patch, R!Changed(r, R!Patched(u, p, 0))
      PROVE  LearningInv'
  <2>1. PICK t : t = R!Patched(u, p, 0)
    OBVIOUS
  <2>2. 0 \in 0..MaxRows
    BY RectifyConstants
  <2>3. t \in Attempt /\ Credited(t) /\ t.cand = u.cand
    BY <1>2, <1>5, <2>1, <2>2, ErrorPatched
  <2> QED BY <1>3, <1>5, <1>7, <2>1, <2>3, ChangeKeepsInv
<1>8. ASSUME R!Goes(r, R!Lost(u)), UNCHANGED entry
      PROVE  LearningInv'
  BY <1>3, <1>5, <1>8, LossKeepsInv
<1> QED BY <1>6, <1>7, <1>8

LEMMA SucceedKeepsInv ==
  ASSUME LearningInv, NEW r \in Request, R!Succeed(r)
  PROVE  LearningInv'
<1>1. PICK q \in Attempt : q = req[r]
  BY InvOfRequest
<1>2. Credited(q) /\ q.cand \in Entry /\ q.form \in R!Form
  BY <1>1, InvOfRequest DEF R!Succeed, R!At, Placed, Attempt
<1>3. PICK t : t = [q EXCEPT !.at = "settle"]
  OBVIOUS
<1>4. /\ t \in Attempt /\ Credited(t) /\ t.cand = q.cand /\ t.form = q.form
      /\ t.at = "settle"
  BY <1>2, <1>3, AttemptPlaced DEF R!Place
<1>5. /\ R!Goes(r, t) /\ UNCHANGED <<entry, rule, rows, edits>>
      /\ tested' = tested \cup {<<q.cand, q.form>>}
  BY <1>1, <1>3 DEF R!Succeed
<1>6. Placed(t)
  BY <1>2, <1>4 DEF Placed
<1>7. <<t.cand, t.form>> \in Entry \X R!Form /\ tested \subseteq Entry \X R!Form
  BY <1>2, <1>4, InvOfRequest
<1>8. /\ tested \subseteq tested' /\ tested' \subseteq Entry \X R!Form
      /\ <<t.cand, t.form>> \in tested'
  BY <1>4, <1>5, <1>7
<1> QED BY <1>4, <1>5, <1>6, <1>8, InvOfRequest, NotedFormsKept, RequestMoves

\* What a settled patch does to the rule of its error, and only to that one.
LEMMA RuleOfPatch ==
  ASSUME LearningInv, NEW p \in R!Pending,
         IF p.row = 0 THEN R!Upsert(p) ELSE R!NoteHit(p)
  PROVE  /\ rule' \in [Fingerprint -> Rule \cup {None}] /\ rows' \in 0..MaxRows
         /\ \A f \in Fingerprint : rule'[f] # rule[f] =>
              /\ f = p.print
              /\ rule[f] # None => rule'[f].enabled = rule[f].enabled
              /\ \/ rule'[f].patch = p.patch
                 \/ rule[f] # None /\ rule'[f] = [rule[f] EXCEPT !.hits = 1]
<1>1. /\ rule \in [Fingerprint -> Rule \cup {None}] /\ rows \in 0..MaxRows
      /\ p.print \in Fingerprint /\ p.patch \in Patch /\ p.row \in 0..MaxRows
  BY DEF LearningInv, RectifyTypes, R!Pending
<1>2. ASSUME rule[p.print] # None, rule' = [rule EXCEPT ![p.print].patch = p.patch],
             UNCHANGED rows
      PROVE  LET o == rule[p.print] IN
             /\ o \in Rule /\ [o EXCEPT !.patch = p.patch] \in Rule
             /\ rule' = [rule EXCEPT ![p.print] = [o EXCEPT !.patch = p.patch]]
             /\ [o EXCEPT !.patch = p.patch].enabled = o.enabled
             /\ [o EXCEPT !.patch = p.patch].patch = p.patch
  BY <1>1, <1>2 DEF Rule
<1>3. ASSUME R!NoteHit(p), rule[p.print] # None, rule' # rule
      PROVE  \E n \in Rule : /\ n = [rule[p.print] EXCEPT !.hits = 1]
                             /\ rule' = [rule EXCEPT ![p.print] = n]
                             /\ n.enabled = rule[p.print].enabled
  <2>1. PICK o \in Rule : o = rule[p.print]
    BY <1>1, <1>3
  <2>2. PICK n : n = [o EXCEPT !.hits = 1]
    OBVIOUS
  <2>3. n \in Rule /\ n.enabled = o.enabled
    BY <2>2 DEF Rule
  <2>4. PICK m : m = IF o # None /\ o.id = p.row THEN n ELSE o
    OBVIOUS
  <2>5. rule' = [rule EXCEPT ![p.print] = m]
    BY <1>3, <2>1, <2>2, <2>4 DEF R!NoteHit
  <2>6. m # o
    BY <1>1, <1>3, <2>1, <2>5
  <2>7. m = n
    BY <2>4, <2>6
  <2> QED BY <2>1, <2>2, <2>3, <2>5, <2>7
<1>4. CASE p.row = 0
  <2>1. CASE rule[p.print] # None /\ rule' = [rule EXCEPT ![p.print].patch = p.patch]
             /\ UNCHANGED rows
    <3>1. PICK n \in Rule : /\ rule' = [rule EXCEPT ![p.print] = n]
                            /\ n.enabled = rule[p.print].enabled /\ n.patch = p.patch
      BY <1>2, <2>1
    <3> QED BY <1>1, <2>1, <3>1
  <2>2. CASE rule[p.print] = None /\ rows < MaxRows
             /\ rule' = [rule EXCEPT ![p.print] =
                   [id |-> rows + 1, patch |-> p.patch, enabled |-> TRUE, hits |-> 0]]
             /\ rows' = rows + 1
    <3>1. PICK n : n = [id |-> rows + 1, patch |-> p.patch, enabled |-> TRUE, hits |-> 0]
      OBVIOUS
    <3>2. rows + 1 \in 1..MaxRows /\ rows + 1 \in 0..MaxRows
      BY <1>1, <2>2, RectifyConstants
    <3>3. n \in Rule /\ n.patch = p.patch
      BY <1>1, <3>1, <3>2 DEF Rule
    <3>4. rule' = [rule EXCEPT ![p.print] = n]
      BY <2>2, <3>1
    <3> QED BY <1>1, <2>2, <3>2, <3>3, <3>4
  <2>3. CASE UNCHANGED <<rule, rows>>
    BY <1>1, <2>3
  <2> QED BY <1>4, <2>1, <2>2, <2>3 DEF R!Upsert
<1>5. CASE p.row # 0
  <2>0. UNCHANGED rows /\ R!NoteHit(p)
    BY <1>5 DEF R!NoteHit
  <2>1. CASE rule[p.print] = None
    <3>1. \A f \in Fingerprint : rule'[f] = rule[f]
      BY <1>1, <2>0, <2>1 DEF R!NoteHit
    <3>2. rule' \in [Fingerprint -> Rule \cup {None}]
      BY <1>1, <2>0, <2>1 DEF R!NoteHit
    <3> QED BY <1>1, <2>0, <3>1, <3>2
  <2>2. CASE rule[p.print] # None /\ rule' # rule
    <3>1. PICK n \in Rule : /\ n = [rule[p.print] EXCEPT !.hits = 1]
                            /\ rule' = [rule EXCEPT ![p.print] = n]
                            /\ n.enabled = rule[p.print].enabled
      BY <1>3, <2>0, <2>2
    <3> QED BY <1>1, <2>0, <2>2, <3>1
  <2>3. CASE rule' = rule
    BY <1>1, <2>0, <2>3
  <2> QED BY <2>1, <2>2, <2>3
<1> QED BY <1>4, <1>5

LEMMA SettleKeepsInv ==
  ASSUME LearningInv, NEW r \in Request, R!Settle(r)
  PROVE  LearningInv'
<1>1. PICK q \in Attempt : q = req[r]
  BY InvOfRequest
<1>2. PICK p \in q.pending :
        /\ q.at = "settle" /\ (IF p.row = 0 THEN R!Upsert(p) ELSE R!NoteHit(p))
        /\ R!Goes(r, [q EXCEPT !.pending = @ \ {p}]) /\ UNCHANGED <<entry, edits, tested>>
  BY <1>1 DEF R!Settle, R!At
<1>3. p \in R!Pending
  BY DEF Attempt
<1>4. PICK t : t = [q EXCEPT !.pending = @ \ {p}]
  OBVIOUS
<1>5. Credited(q) /\ q.cand \in Entry /\ <<q.cand, q.form>> \in tested
  BY <1>1, <1>2, InvOfRequest DEF Placed
<1>6. t \in Attempt /\ Credited(t) /\ t.at = "settle" /\ t.cand = q.cand /\ t.form = q.form
  BY <1>2, <1>4, <1>5, AttemptSettled
<1>7. Placed(t) /\ R!Goes(r, t)
  BY <1>2, <1>4, <1>5, <1>6 DEF Placed
<1>8. rule' \in [Fingerprint -> Rule \cup {None}] /\ rows' \in 0..MaxRows
  BY <1>2, <1>3, RuleOfPatch
<1>9. R!NotedFormsWork' /\ tested \subseteq tested' /\ tested' \subseteq Entry \X R!Form
  BY <1>2, InvOfRequest, NotedFormsKept
<1> QED BY <1>2, <1>5, <1>6, <1>7, <1>8, <1>9, InvOfRequest, RequestMoves

LEMMA AnswerKeepsInv ==
  ASSUME LearningInv, NEW r \in Request, R!Answer(r)
  PROVE  LearningInv'
<1>1. PICK q \in Attempt : q = req[r]
  BY InvOfRequest
<1>2. /\ UNCHANGED <<rule, rows, edits, tested>> /\ R!Goes(r, R!Over) /\ R!NoteForm(q)
      /\ q.at = "settle"
  BY <1>1 DEF R!Answer, R!At
<1>3. <<q.cand, q.form>> \in tested /\ q.cand \in Entry /\ q.form \in R!Form
  BY <1>1, <1>2, InvOfRequest DEF Placed, Attempt
<1>4. PICK t : t = R!Over
  OBVIOUS
<1>5. t \in Attempt /\ t.at = "done" /\ t.pending = {} /\ R!Goes(r, t)
  BY <1>2, <1>4, IdleIsAttempt
<1>6. Credited(t) /\ Placed(t)
  BY <1>5 DEF Credited, Placed
<1>7. CASE UNCHANGED entry
  BY <1>2, <1>5, <1>6, <1>7, InvOfRequest, NotedFormsKept, RequestMoves
<1>8. CASE entry' = [entry EXCEPT ![q.cand].form = q.form]
  <2>1. PICK n : n = [entry[q.cand] EXCEPT !.form = q.form]
    OBVIOUS
  <2>2. n \in [enabled: BOOLEAN, form: R!Form] /\ n.form = q.form
    BY <1>3, <2>1, InvOfRequest
  <2>3. entry' = [entry EXCEPT ![q.cand] = n]
    BY <1>8, <2>1
  <2>4. entry' \in [Entry -> [enabled: BOOLEAN, form: R!Form]]
    BY <2>2, <2>3, InvOfRequest
  <2>5. \A e \in Entry : e # q.cand => entry'[e] = entry[e]
    BY <2>3, InvOfRequest
  <2>6. entry'[q.cand].form = q.form
    BY <1>3, <2>2, <2>3, InvOfRequest
  <2>7. R!NotedFormsWork'
    BY <1>2, <1>3, <2>5, <2>6, InvOfRequest DEF R!NotedFormsWork
  <2> QED BY <1>2, <1>5, <1>6, <2>4, <2>7, InvOfRequest, RequestMoves
<1> QED BY <1>2, <1>7, <1>8, Zenon DEF R!NoteForm

\* What the operator does leaves the requests alone.
LEMMA TablesMove ==
  ASSUME LearningInv, UNCHANGED <<req, tested, rows>>,
         entry' \in [Entry -> [enabled: BOOLEAN, form: R!Form]],
         rule' \in [Fingerprint -> Rule \cup {None}],
         edits' \in 0..MaxEdits, \A e \in Entry : entry'[e].form = entry[e].form
  PROVE  LearningInv'
BY DEF LearningInv, RectifyTypes, AnswersAreTested, R!NotedFormsWork

LEMMA EditRuleKeepsInv ==
  ASSUME LearningInv, NEW f \in Fingerprint, R!EditRule(f)
  PROVE  LearningInv'
<1>1. /\ rule \in [Fingerprint -> Rule \cup {None}] /\ edits \in 0..MaxEdits
      /\ entry \in [Entry -> [enabled: BOOLEAN, form: R!Form]]
  BY DEF LearningInv, RectifyTypes
<1>2. /\ edits < MaxEdits /\ edits' = edits + 1 /\ UNCHANGED <<rows, req, tested, entry>>
      /\ rule[f] # None
  BY DEF R!EditRule, R!Edit
<1>3. edits' \in 0..MaxEdits
  BY <1>1, <1>2, RectifyConstants
<1>4. ASSUME NEW b \in BOOLEAN, rule' = [rule EXCEPT ![f].enabled = b]
      PROVE  rule' \in [Fingerprint -> Rule \cup {None}]
  BY <1>1, <1>2, <1>4 DEF Rule
<1>5. ASSUME NEW p \in Patch, rule' = [rule EXCEPT ![f].patch = p]
      PROVE  rule' \in [Fingerprint -> Rule \cup {None}]
  BY <1>1, <1>2, <1>5 DEF Rule
<1>6. ASSUME rule' = [rule EXCEPT ![f] = None]
      PROVE  rule' \in [Fingerprint -> Rule \cup {None}]
  BY <1>1, <1>6
<1>7. rule' \in [Fingerprint -> Rule \cup {None}]
  BY <1>4, <1>5, <1>6 DEF R!EditRule
<1> QED BY <1>1, <1>2, <1>3, <1>7, TablesMove

LEMMA EditEntryKeepsInv ==
  ASSUME LearningInv, NEW e \in Entry, R!EditEntry(e)
  PROVE  LearningInv'
<1>1. /\ rule \in [Fingerprint -> Rule \cup {None}] /\ edits \in 0..MaxEdits
      /\ entry \in [Entry -> [enabled: BOOLEAN, form: R!Form]]
  BY DEF LearningInv, RectifyTypes
<1>2. /\ edits < MaxEdits /\ edits' = edits + 1 /\ UNCHANGED <<rows, req, tested, rule>>
      /\ entry' = [entry EXCEPT ![e].enabled = ~@]
  BY DEF R!EditEntry, R!Edit
<1>3. edits' \in 0..MaxEdits
  BY <1>1, <1>2, RectifyConstants
<1>4. PICK n : n = [entry[e] EXCEPT !.enabled = ~@]
  OBVIOUS
<1>5. n \in [enabled: BOOLEAN, form: R!Form] /\ n.form = entry[e].form
  BY <1>1, <1>4
<1>6. entry' = [entry EXCEPT ![e] = n]
  BY <1>2, <1>4
<1>7. /\ entry' \in [Entry -> [enabled: BOOLEAN, form: R!Form]]
      /\ \A x \in Entry : entry'[x].form = entry[x].form
  BY <1>1, <1>5, <1>6
<1> QED BY <1>1, <1>2, <1>3, <1>7, TablesMove

LEMMA NextKeepsLearning ==
  ASSUME LearningInv, [RequestNext]_<<part, ofDialogue, ofRectify, ofMetering>>
  PROVE  LearningInv'
<1>1. CASE R!RectifyNext
  <2>1. ASSUME NEW r \in Request, R!Step(r)
        PROVE  LearningInv'
    BY <2>1, StartKeepsInv, ChooseKeepsInv, FailKeepsInv, RejectKeepsInv, FindRuleKeepsInv,
       AnalyseKeepsInv, SucceedKeepsInv, SettleKeepsInv, AnswerKeepsInv DEF R!Step
  <2> QED BY <1>1, <2>1, EditRuleKeepsInv, EditEntryKeepsInv DEF R!RectifyNext
<1>2. CASE UNCHANGED R!rvars
  <2>1. UNCHANGED <<entry, rule, rows, edits, req, tested>>
    BY <1>2 DEF R!rvars
  <2> QED BY <2>1 DEF LearningInv, RectifyTypes, AnswersAreTested, R!NotedFormsWork
<1> QED BY <1>1, <1>2, RepairSteps

LEMMA LearningBegins ==
  ASSUME RequestInit
  PROVE  LearningInv
<1>1. R!RectifyInit
  BY DEF RequestInit
<1>2. RectifyTypes
  <2>1. entry \in [Entry -> [enabled: BOOLEAN, form: R!Form]]
    BY <1>1, Zenon DEF R!RectifyInit, R!Form
  <2>2. rule \in [Fingerprint -> Rule \cup {None}]
    BY <1>1, Zenon DEF R!RectifyInit
  <2>3. rows \in 0..MaxRows /\ edits \in 0..MaxEdits
    <3>1. rows = 0 /\ edits = 0
      BY <1>1, Zenon DEF R!RectifyInit
    <3>2. 0 \in 0..MaxRows /\ 0 \in 0..MaxEdits
      BY RectifyConstants
    <3> QED BY <3>1, <3>2
  <2>4. req \in [Request -> Attempt] /\ tested \subseteq Entry \X R!Form
    BY <1>1, IdleIsAttempt, Zenon DEF R!RectifyInit
  <2> QED BY <2>1, <2>2, <2>3, <2>4 DEF RectifyTypes
<1>3. \A r \in Request : req[r].pending = {} /\ req[r].at = "idle"
  BY <1>1, IdleIsAttempt, Zenon DEF R!RectifyInit
<1>4. (\A r \in Request : Credited(req[r]) /\ Placed(req[r])) /\ AnswersAreTested
  BY <1>3 DEF Credited, Placed, AnswersAreTested
<1>5. R!NotedFormsWork
  BY <1>1, Zenon DEF R!RectifyInit, R!NotedFormsWork
<1> QED BY <1>2, <1>4, <1>5 DEF LearningInv

\* A rule is written by the settling of a patch that its request still credits, and
\* what the operator disabled stays disabled.
LEMMA RulesAreWrittenOnce ==
  ASSUME LearningInv, R!RectifyNext, NEW f \in Fingerprint, rule'[f] # rule[f], req' # req
  PROVE  /\ rule[f] # None => rule'[f].enabled = rule[f].enabled
         /\ \E r \in Request : \E a \in req[r].applied :
              /\ req[r].at = "settle" /\ a[1] = f /\ f \notin req[r].again
              /\ \/ rule'[f].patch = a[2]
                 \/ rule[f] # None /\ rule'[f] = [rule[f] EXCEPT !.hits = 1]
<1>1. PICK r \in Request : R!Settle(r)
  BY Zenon DEF R!RectifyNext, R!Step, R!Start, R!Choose, R!Fail, R!Reject, R!FindRule, R!Analyse,
         R!Succeed, R!Answer, R!EditRule, R!EditEntry, R!Edit
<1>2. PICK p \in req[r].pending :
        req[r].at = "settle" /\ (IF p.row = 0 THEN R!Upsert(p) ELSE R!NoteHit(p))
  BY <1>1 DEF R!Settle, R!At
<1>3. p \in R!Pending
  BY <1>2, InvOfRequest DEF Attempt
<1>4. /\ f = p.print
      /\ rule[f] # None => rule'[f].enabled = rule[f].enabled
      /\ \/ rule'[f].patch = p.patch
         \/ rule[f] # None /\ rule'[f] = [rule[f] EXCEPT !.hits = 1]
  BY <1>2, <1>3, RuleOfPatch
<1>5. <<p.print, p.patch>> \in req[r].applied /\ p.print \notin req[r].again
  BY InvOfRequest DEF Credited
<1>6. PICK a \in req[r].applied : a = <<p.print, p.patch>>
  BY <1>5
<1>7. a[1] = f /\ a[2] = p.patch
  BY <1>4, <1>6
<1> QED BY <1>2, <1>4, <1>5, <1>7

(***************************************************************************)
(* The tokens of an answer (Metering).                                     *)
(***************************************************************************)
LEMMA MeteringConstants ==
  MaxTokens \in Nat /\ MaxSegments \in Nat /\ None \notin [read: Nat, written: Nat]
BY RequestAssumption DEF M!MeteringAssumption

\* What an upstream says can be read.
Tells(protocol, c, by) ==
  /\ protocol = "chat" => by.style = "prompt"
  /\ protocol \in M!OpenAI => M!Says(c, by)
  /\ protocol = "gemini" => c.written = 0

LEMMA CountFields ==
  ASSUME NEW c \in M!Count
  PROVE  /\ c.input \in Nat /\ c.read \in Nat /\ c.written \in Nat /\ c.output \in Nat
         /\ c.read + c.written <= c.input
         /\ c = [input |-> c.input, read |-> c.read, written |-> c.written,
                 output |-> c.output]
BY MeteringConstants DEF M!Count, M!Tokens

LEMMA LessFrom ==
  ASSUME NEW a \in Nat, NEW b \in Nat, b <= a
  PROVE  M!Less(a, b) = a - b /\ M!Less(a, b) \in Nat
BY DEF M!Less

LEMMA FreshIs ==
  ASSUME NEW c \in M!Count
  PROVE  /\ M!Fresh(c) = [input |-> c.input - (c.read + c.written), read |-> c.read,
                         written |-> c.written, output |-> c.output]
         /\ c.input - (c.read + c.written) \in Nat
<1>1. /\ c.input \in Nat /\ c.read \in Nat /\ c.written \in Nat
      /\ c.read + c.written <= c.input
      /\ c = [input |-> c.input, read |-> c.read, written |-> c.written, output |-> c.output]
  BY CountFields
<1>2. PICK n : n = c.input - (c.read + c.written)
  OBVIOUS
<1>3. M!Less(c.input, c.read + c.written) = n /\ n \in Nat
  BY <1>1, <1>2, LessFrom
<1>4. [c EXCEPT !.input = n] = [input |-> n, read |-> c.read, written |-> c.written,
                                output |-> c.output]
  BY <1>1
<1> QED BY <1>2, <1>3, <1>4 DEF M!Fresh

LEMMA FreshIsUsage ==
  ASSUME NEW c \in M!Count
  PROVE  M!Fresh(c) \in M!Usage
BY FreshIs, CountFields DEF M!Usage

\* The counts of the caches are found, wherever they are.
LEMMA FoundIs ==
  ASSUME NEW c \in M!Count, NEW by \in M!Ways, M!Says(c, by),
         NEW styles, by.style \in styles, NEW o, o = M!Object(c, by)
  PROVE  /\ o.input = c.input /\ o.output = c.output
         /\ M!Found(o, "read", styles) = c.read /\ M!Found(o, "written", styles) = c.written
<1>1. PICK d : d = [read |-> c.read, written |-> c.written]
  OBVIOUS
<1>2. /\ o.style = by.style /\ o.input = c.input /\ o.output = c.output
      /\ o.direct = IF "direct" \in by.how THEN d ELSE None
      /\ o.nested = IF "nested" \in by.how THEN d ELSE None
  BY <1>1 DEF M!Object
<1>3. /\ d.read = c.read /\ d.written = c.written /\ d["read"] = c.read
      /\ d["written"] = c.written
  BY <1>1
<1>4. d # None
  BY <1>1, CountFields, MeteringConstants
<1>5. by.how \subseteq {"direct", "nested"} /\ c.read \in Nat /\ c.written \in Nat
  BY CountFields DEF M!Ways, M!How
<1>6. CASE "direct" \in by.how
  BY <1>2, <1>3, <1>4, <1>6 DEF M!Found
<1>7. CASE "direct" \notin by.how /\ "nested" \in by.how
  BY <1>2, <1>3, <1>4, <1>7 DEF M!Found, M!Nested
<1>8. CASE by.how = {}
  <2>1. c.read = 0 /\ c.written = 0
    BY <1>5, <1>8 DEF M!Says
  <2> QED BY <1>2, <1>8, <2>1 DEF M!Found, M!Nested
<1> QED BY <1>2, <1>5, <1>6, <1>7, <1>8

LEMMA ApartIs ==
  ASSUME NEW c \in M!Count, NEW o, o.input = c.input, o.output = c.output
  PROVE  M!Apart(o, c.read, c.written) = M!Fresh(c)
<1>1. /\ c.input \in Nat /\ c.read \in Nat /\ c.written \in Nat
      /\ c.read + c.written <= c.input
  BY CountFields
<1>2. M!Less(c.input, c.read) = c.input - c.read /\ c.input - c.read \in Nat
  BY <1>1, LessFrom
<1>3. M!Less(c.input - c.read, c.written) = c.input - (c.read + c.written)
  BY <1>1, <1>2 DEF M!Less
<1> QED BY <1>2, <1>3, FreshIs DEF M!Apart

\* Whatever the protocol, the converter takes the counts apart.
LEMMA ConvertedIsFresh ==
  ASSUME NEW protocol \in M!Protocol, NEW by \in M!Ways, NEW c \in M!Count,
         Tells(protocol, c, by)
  PROVE  /\ M!Converted(protocol, c, by) = M!Fresh(c)
         /\ M!OfDocument(protocol, c, by) = M!Fresh(c)
<1>1. PICK o : o = M!Object(c, by)
  OBVIOUS
<1>2. by.style \in M!Style
  BY DEF M!Ways
<1>3. CASE protocol = "anthropic"
  BY <1>3 DEF M!Converted, M!OfDocument
<1>4. CASE protocol = "chat"
  <2>1. M!Says(c, by) /\ by.style = "prompt"
    BY <1>4 DEF Tells, M!OpenAI
  <2>2. /\ o.input = c.input /\ o.output = c.output
        /\ M!Found(o, "read", {"prompt"}) = c.read /\ M!Found(o, "written", {"prompt"}) = c.written
    BY <1>1, <2>1, FoundIs
  <2>3. M!Found(o, "written", M!Style) = c.written
    BY <1>1, <1>2, <2>1, FoundIs
  <2>4. M!ChatUsage(o) = M!Fresh(c) /\ M!BodyUsage(o) = M!Fresh(c)
    BY <2>2, <2>3, ApartIs DEF M!ChatUsage, M!BodyUsage
  <2> QED BY <1>1, <1>4, <2>4 DEF M!Converted, M!OfDocument
<1>5. CASE protocol = "responses"
  <2>1. M!Says(c, by)
    BY <1>5 DEF Tells, M!OpenAI
  <2>2. /\ o.input = c.input /\ o.output = c.output
        /\ M!Found(o, "read", M!Style) = c.read /\ M!Found(o, "written", M!Style) = c.written
    BY <1>1, <1>2, <2>1, FoundIs
  <2>3. M!ResponsesUsage(o) = M!Fresh(c)
    BY <2>2, ApartIs DEF M!ResponsesUsage
  <2> QED BY <1>1, <1>5, <2>3 DEF M!Converted, M!OfDocument
<1>6. CASE protocol = "gemini"
  <2>1. PICK g : g = M!GeminiObject(c)
    OBVIOUS
  <2>2. /\ c.input \in Nat /\ c.read \in Nat /\ c.written = 0 /\ c.output \in Nat
        /\ c.read <= c.input
    <3>1. c.written = 0
      BY <1>6 DEF Tells
    <3>2. /\ c.input \in Nat /\ c.read \in Nat /\ c.output \in Nat
          /\ c.read + c.written <= c.input
      BY CountFields
    <3> QED BY <3>1, <3>2
  <2>3. g.prompt = c.input /\ g.total = c.input + c.output /\ g.cached = c.read
    BY <2>1 DEF M!GeminiObject
  <2>4. M!Less(g.prompt, g.cached) = c.input - (c.read + c.written)
    BY <2>2, <2>3 DEF M!Less
  <2>5. M!Less(g.total, g.prompt) = c.output
    BY <2>2, <2>3 DEF M!Less
  <2>6. M!GeminiUsage(g) = M!Fresh(c)
    BY <2>2, <2>3, <2>4, <2>5, FreshIs DEF M!GeminiUsage
  <2> QED BY <1>6, <2>1, <2>6 DEF M!Converted, M!OfDocument
<1> QED BY <1>3, <1>4, <1>5, <1>6 DEF M!Protocol, M!OpenAI

\* An upstream that tells early may tell a part of the output only.
LEMMA PartOfCount ==
  ASSUME NEW c \in M!Count, NEW n \in 0..c.output, NEW d, d = [c EXCEPT !.output = n]
  PROVE  /\ d \in M!Count /\ d.read = c.read /\ d.written = c.written
         /\ M!Fresh(d) = [input |-> M!Fresh(c).input, read |-> M!Fresh(c).read,
                         written |-> M!Fresh(c).written, output |-> n]
<1>1. /\ c.input \in Nat /\ c.read \in Nat /\ c.written \in Nat /\ c.output \in Nat
      /\ c = [input |-> c.input, read |-> c.read, written |-> c.written, output |-> c.output]
  BY CountFields
<1>2. d = [input |-> c.input, read |-> c.read, written |-> c.written, output |-> n]
  BY <1>1
<1>3. d \in M!Count
  BY <1>1, <1>2, MeteringConstants DEF M!Count, M!Tokens
<1>4. /\ d.input = c.input /\ d.read = c.read /\ d.written = c.written /\ d.output = n
  BY <1>2
<1>5. M!Fresh(c) = [input |-> c.input - (c.read + c.written), read |-> c.read,
                    written |-> c.written, output |-> c.output]
  BY FreshIs
<1>6. M!Fresh(d) = [input |-> d.input - (d.read + d.written), read |-> d.read,
                    written |-> d.written, output |-> d.output]
  BY <1>3, FreshIs
<1> QED BY <1>3, <1>4, <1>5, <1>6

LEMMA UsageFields ==
  ASSUME NEW u \in M!Usage
  PROVE  /\ u.input \in Nat /\ u.read \in Nat /\ u.written \in Nat /\ u.output \in Nat
         /\ u = [input |-> u.input, read |-> u.read, written |-> u.written,
                 output |-> u.output]
         /\ DOMAIN u = {"input", "read", "written", "output"}
BY DEF M!Usage

LEMMA ZeroIsUsage == M!Zero \in M!Usage /\ M!Zero.output = 0
BY DEF M!Zero, M!Usage

News(a, b) == IF b > 0 THEN b ELSE a

\* apply_token_usage()
LEMMA AppliedIs ==
  ASSUME NEW u \in M!Usage, NEW v \in M!Usage
  PROVE  M!Applied(u, v) = [input |-> News(u.input, v.input), read |-> News(u.read, v.read),
                            written |-> News(u.written, v.written),
                            output |-> News(u.output, v.output)]
<1>1. DOMAIN u = {"input", "read", "written", "output"}
  BY UsageFields
<1> QED BY <1>1 DEF M!Applied, News

LEMMA AppliedIsUsage ==
  ASSUME NEW u \in M!Usage, NEW v \in M!Usage
  PROVE  M!Applied(u, v) \in M!Usage
BY AppliedIs, UsageFields DEF News, M!Usage

LEMMA OutputSet ==
  ASSUME NEW u \in M!Usage, NEW n \in Nat, NEW w, w = [u EXCEPT !.output = n]
  PROVE  /\ w = [input |-> u.input, read |-> u.read, written |-> u.written, output |-> n]
         /\ w \in M!Usage /\ w.output = n
<1>1. /\ u.input \in Nat /\ u.read \in Nat /\ u.written \in Nat
      /\ u = [input |-> u.input, read |-> u.read, written |-> u.written, output |-> u.output]
  BY UsageFields
<1>2. w = [input |-> u.input, read |-> u.read, written |-> u.written, output |-> n]
  BY <1>1
<1>3. w \in M!Usage
  BY <1>1, <1>2 DEF M!Usage
<1> QED BY <1>2, <1>3

LEMMA AppliedStartIs ==
  ASSUME NEW u \in M!Usage, NEW v \in M!Usage
  PROVE  /\ M!AppliedStart(u, v) = [input |-> News(u.input, v.input),
                                   read |-> News(u.read, v.read),
                                   written |-> News(u.written, v.written),
                                   output |-> u.output]
         /\ M!AppliedStart(u, v) \in M!Usage
<1>1. PICK w : w = [v EXCEPT !.output = 0]
  OBVIOUS
<1>2. w = [input |-> v.input, read |-> v.read, written |-> v.written, output |-> 0]
  BY <1>1, OutputSet
<1>3. w \in M!Usage
  BY <1>1, OutputSet
<1>4. M!AppliedStart(u, v) = M!Applied(u, w)
  BY <1>1 DEF M!AppliedStart
<1>5. /\ w.input = v.input /\ w.read = v.read /\ w.written = v.written
      /\ News(u.output, w.output) = u.output
  BY <1>2 DEF News
<1>6. M!Applied(u, w) = [input |-> News(u.input, w.input), read |-> News(u.read, w.read),
                         written |-> News(u.written, w.written),
                         output |-> News(u.output, w.output)]
  BY <1>3, AppliedIs
<1>7. M!Applied(u, w) \in M!Usage
  BY <1>3, AppliedIsUsage
<1> QED BY <1>4, <1>5, <1>6, <1>7

\* capture_usage() and merge_usage()
LEMMA MaxOf ==
  ASSUME NEW a \in Nat, NEW b \in Nat
  PROVE  M!Max({a, b}) \in Nat /\ (a <= b => M!Max({a, b}) = b) /\ (b <= a => M!Max({a, b}) = a)
BY DEF M!Max

LEMMA LargerIs ==
  ASSUME NEW u \in M!Usage, NEW v \in M!Usage
  PROVE  M!Larger(u, v) \in M!Usage /\ M!Larger(u, v).output = M!Max({u.output, v.output})
<1>1. /\ u.input \in Nat /\ u.read \in Nat /\ u.written \in Nat /\ u.output \in Nat
      /\ v.input \in Nat /\ v.read \in Nat /\ v.written \in Nat /\ v.output \in Nat
      /\ DOMAIN u = {"input", "read", "written", "output"}
  BY UsageFields
<1>2. /\ M!Max({u.input, v.input}) \in Nat /\ M!Max({u.read, v.read}) \in Nat
      /\ M!Max({u.written, v.written}) \in Nat /\ M!Max({u.output, v.output}) \in Nat
  BY <1>1, MaxOf
<1>3. M!Larger(u, v) = [input |-> M!Max({u.input, v.input}), read |-> M!Max({u.read, v.read}),
                        written |-> M!Max({u.written, v.written}),
                        output |-> M!Max({u.output, v.output})]
  BY <1>1 DEF M!Larger
<1> QED BY <1>2, <1>3 DEF M!Usage

LEMMA MergedIs ==
  ASSUME NEW u \in M!Usage, NEW v \in M!Usage, v.output = 0, NEW add \in BOOLEAN
  PROVE  M!Merged(u, v, add) \in M!Usage /\ M!Merged(u, v, add).output = u.output
<1>1. u.output \in Nat
  BY UsageFields
<1>2. PICK w : w = M!Larger(u, v)
  OBVIOUS
<1>3. w \in M!Usage /\ w.output = u.output
  <2>1. w \in M!Usage /\ w.output = M!Max({u.output, v.output})
    BY <1>2, LargerIs
  <2>2. v.output \in Nat /\ v.output <= u.output
    BY <1>1
  <2> QED BY <1>1, <2>1, <2>2, MaxOf
<1>4. M!Merged(u, v, add) = [w EXCEPT !.output = IF add THEN u.output + v.output ELSE @]
  BY <1>2 DEF M!Merged
<1>5. (IF add THEN u.output + v.output ELSE w.output) = u.output
  BY <1>1, <1>3
<1>6. M!Merged(u, v, add) = [w EXCEPT !.output = u.output]
  BY <1>4, <1>5
<1>7. PICK x : x = [w EXCEPT !.output = u.output]
  OBVIOUS
<1>8. x \in M!Usage /\ x.output = u.output
  BY <1>1, <1>3, <1>7, OutputSet
<1> QED BY <1>6, <1>7, <1>8

LEMMA AnyMergedIsUsage ==
  ASSUME NEW u \in M!Usage, NEW v \in M!Usage, NEW add \in BOOLEAN
  PROVE  M!Merged(u, v, add) \in M!Usage
<1>1. PICK w : w = M!Larger(u, v)
  OBVIOUS
<1>2. w \in M!Usage /\ w.output \in Nat /\ u.output \in Nat /\ v.output \in Nat
  BY <1>1, LargerIs, UsageFields
<1>3. PICK n : n = IF add THEN u.output + v.output ELSE w.output
  OBVIOUS
<1>4. n \in Nat /\ M!Merged(u, v, add) = [w EXCEPT !.output = n]
  BY <1>1, <1>2, <1>3 DEF M!Merged
<1>5. PICK x : x = [w EXCEPT !.output = n]
  OBVIOUS
<1>6. x \in M!Usage
  BY <1>2, <1>4, <1>5, OutputSet
<1> QED BY <1>4, <1>5, <1>6

LEMMA CapturedStartIs ==
  ASSUME NEW u \in M!Usage, NEW v \in M!Usage
  PROVE  M!CapturedStart(u, v) \in M!Usage /\ M!CapturedStart(u, v).output = u.output
<1>1. u.output \in Nat
  BY UsageFields
<1>2. PICK w : w = [v EXCEPT !.output = u.output]
  OBVIOUS
<1>3. w \in M!Usage /\ w.output = u.output
  BY <1>1, <1>2, OutputSet
<1>4. M!CapturedStart(u, v) = M!Larger(u, w)
  BY <1>2 DEF M!CapturedStart
<1>5. M!Larger(u, w) \in M!Usage /\ M!Larger(u, w).output = M!Max({u.output, w.output})
  BY <1>3, LargerIs
<1>6. M!Max({u.output, w.output}) = u.output
  BY <1>1, <1>3, MaxOf
<1> QED BY <1>4, <1>5, <1>6

LEMMA CapturedEndIs ==
  ASSUME NEW u \in M!Usage, NEW v \in M!Usage
  PROVE  /\ M!CapturedEnd(u, v) \in M!Usage
         /\ M!CapturedEnd(u, v).output = u.output + v.output
<1>1. u.output + v.output \in Nat
  BY UsageFields
<1>2. PICK n : n = u.output + v.output
  OBVIOUS
<1>3. PICK w : w = [u EXCEPT !.output = n]
  OBVIOUS
<1>4. w \in M!Usage /\ w.output = n
  BY <1>1, <1>2, <1>3, OutputSet
<1>5. M!CapturedEnd(u, v) = w
  BY <1>2, <1>3 DEF M!CapturedEnd
<1> QED BY <1>2, <1>4, <1>5

LogRow == [usage: M!Usage, count: M!Count, ended: BOOLEAN, silent: BOOLEAN]

\* What rows count: f is the sum up to each place.
IsSum(f, s) ==
  f = [n \in 0..Len(s) |-> IF n = 0 THEN 0 ELSE f[n - 1] + s[n].usage.output]

LEMMA SumSteps ==
  ASSUME NEW f, NEW s \in Seq(LogRow), IsSum(f, s)
  PROVE  f[0] = 0 /\ \A n \in 1..Len(s) : f[n] = f[n - 1] + s[n].usage.output
<1>1. \A n \in 0..Len(s) : f[n] = IF n = 0 THEN 0 ELSE f[n - 1] + s[n].usage.output
  BY Zenon DEF IsSum
<1>2. Len(s) \in Nat /\ 0 \in 0..Len(s) /\ \A n \in 1..Len(s) : n \in 0..Len(s) /\ n # 0
  OBVIOUS
<1> QED BY <1>1, <1>2, Zenon

\* What is true of 0 and passes on is true of the numbers up to n.
LEMMA AllUpTo ==
  ASSUME NEW n \in Nat, NEW X, 0 \in X, \A m \in 1..n : m - 1 \in X => m \in X
  PROVE  0..n \subseteq X
<1> SUFFICES ASSUME (0..n) \ X # {}
             PROVE  FALSE
  OBVIOUS
<1>1. PICK Y : Y = (0..n) \ X
  OBVIOUS
<1>2. Y \subseteq Nat /\ Y # {}
  BY <1>1
<1>3. PICK x \in Y : \A y \in Y : ~(<<y, x>> \in OpToRel(<, Nat))
  BY <1>2, NatLessThanWellFounded, WFMin, Zenon
<1>4. x \in 1..n /\ x \notin X
  BY <1>1
<1>5. x - 1 \in Nat /\ x \in Nat /\ x - 1 < x /\ x - 1 \in 0..n
  BY <1>4
<1>6. <<x - 1, x>> \in OpToRel(<, Nat)
  BY <1>5 DEF OpToRel
<1>7. x - 1 \in X
  BY <1>1, <1>3, <1>5, <1>6
<1> QED BY <1>4, <1>7

LEMMA SumsAgree ==
  ASSUME NEW s \in Seq(LogRow), NEW t \in Seq(LogRow), Len(s) <= Len(t),
         \A n \in 1..Len(s) : t[n] = s[n],
         NEW f, IsSum(f, s), NEW g, IsSum(g, t)
  PROVE  f[Len(s)] = g[Len(s)]
<1>1. PICK X : X = {n \in 0..Len(s) : f[n] = g[n]}
  OBVIOUS
<1>2. Len(s) \in Nat /\ Len(t) \in Nat /\ 1..Len(s) \subseteq 1..Len(t)
  OBVIOUS
<1>3. 0 \in X
  BY <1>1, <1>2, SumSteps
<1>4. ASSUME NEW n \in 1..Len(s), n - 1 \in X
      PROVE  n \in X
  <2>1. f[n - 1] = g[n - 1] /\ n \in 0..Len(s) /\ n \in 1..Len(t)
    BY <1>1, <1>2, <1>4
  <2>2. f[n] = f[n - 1] + s[n].usage.output
    BY SumSteps
  <2>3. g[n] = g[n - 1] + t[n].usage.output
    BY <2>1, SumSteps
  <2> QED BY <1>1, <2>1, <2>2, <2>3
<1>5. 0..Len(s) \subseteq X
  BY <1>2, <1>3, <1>4, AllUpTo
<1> QED BY <1>1, <1>2, <1>5

LEMMA SumGrows ==
  ASSUME NEW s \in Seq(LogRow), NEW r \in LogRow, NEW f, IsSum(f, s)
  PROVE  \E g : IsSum(g, Append(s, r))
<1>1. PICK t : t = Append(s, r)
  OBVIOUS
<1>2. PICK m : m = Len(s) + 1
  OBVIOUS
<1>3. /\ Len(s) \in Nat /\ Len(t) = m /\ t[m] = r /\ \A n \in 1..Len(s) : t[n] = s[n]
  BY <1>1, <1>2
<1>4. PICK last : last = f[m - 1] + t[m].usage.output
  OBVIOUS
<1>5. PICK g : g = [n \in 0..m |-> IF n = m THEN last ELSE f[n]]
  OBVIOUS
<1>6. PICK k : k = [n \in 0..m |-> IF n = 0 THEN 0 ELSE g[n - 1] + t[n].usage.output]
  OBVIOUS
<1>7. ASSUME NEW n \in 0..m
      PROVE  g[n] = k[n]
  <2>1. CASE n = 0
    <3>1. g[n] = f[0] /\ k[n] = 0
      BY <1>2, <1>3, <1>5, <1>6, <2>1
    <3> QED BY <3>1, SumSteps
  <2>2. CASE n \in 1..Len(s)
    <3>1. n # m /\ n - 1 \in 0..m /\ n - 1 # m /\ n # 0 /\ t[n] = s[n]
      BY <1>2, <1>3, <2>2
    <3>2. g[n] = f[n] /\ g[n - 1] = f[n - 1]
      BY <1>5, <3>1
    <3>3. f[n] = f[n - 1] + s[n].usage.output
      BY <2>2, SumSteps
    <3>4. k[n] = g[n - 1] + t[n].usage.output
      BY <1>6, <3>1
    <3> QED BY <3>1, <3>2, <3>3, <3>4
  <2>3. CASE n = m
    <3>1. n # 0 /\ m - 1 \in 0..m /\ m - 1 # m /\ m \in 0..m
      BY <1>2, <1>3, <2>3
    <3>2. g[m - 1] = f[m - 1] /\ g[m] = last
      BY <1>5, <3>1
    <3>3. k[m] = g[m - 1] + t[m].usage.output
      BY <1>6, <2>3, <3>1
    <3> QED BY <1>4, <2>3, <3>2, <3>3
  <2> QED BY <1>2, <1>3, <2>1, <2>2, <2>3
<1>8. g = k
  BY <1>5, <1>6, <1>7
<1>9. IsSum(g, t)
  BY <1>3, <1>6, <1>8 DEF IsSum
<1> QED BY <1>1, <1>9

LEMMA SumExists ==
  ASSUME NEW s \in Seq(LogRow)
  PROVE  \E f : IsSum(f, s)
<1>1. PICK X : X = {n \in 0..Len(s) : \E f : IsSum(f, SubSeq(s, 1, n))}
  OBVIOUS
<1>2. Len(s) \in Nat /\ \A n \in 1..Len(s) : s[n] \in LogRow
  OBVIOUS
<1>3. 0 \in X
  <2>1. PICK f : f = [n \in 0..0 |-> 0]
    OBVIOUS
  <2>2. SubSeq(s, 1, 0) = <<>> /\ Len(<<>>) = 0
    OBVIOUS
  <2>3. f = [n \in 0..0 |-> IF n = 0 THEN 0 ELSE f[n - 1] + <<>>[n].usage.output]
    BY <2>1
  <2>4. IsSum(f, <<>>)
    BY <2>2, <2>3 DEF IsSum
  <2>5. \E g : IsSum(g, SubSeq(s, 1, 0))
    BY <2>2, <2>4, Zenon
  <2> QED BY <1>1, <1>2, <2>5
<1>4. ASSUME NEW n \in 1..Len(s), n - 1 \in X
      PROVE  n \in X
  <2>1. PICK f : IsSum(f, SubSeq(s, 1, n - 1))
    BY <1>1, <1>4
  <2>2. PICK a : a = SubSeq(s, 1, n - 1)
    OBVIOUS
  <2>3. a \in Seq(LogRow) /\ SubSeq(s, 1, n) = Append(a, s[n]) /\ s[n] \in LogRow
    BY <1>2, <2>2
  <2>4. \E g : IsSum(g, Append(a, s[n]))
    BY <2>1, <2>2, <2>3, SumGrows
  <2>5. \E g : IsSum(g, SubSeq(s, 1, n))
    BY <2>3, <2>4, Zenon
  <2> QED BY <1>1, <1>2, <2>5
<1>5. Len(s) \in X
  <2>1. 0..Len(s) \subseteq X
    BY <1>2, <1>3, <1>4, AllUpTo
  <2> QED BY <1>2, <2>1
<1>6. SubSeq(s, 1, Len(s)) = s
  OBVIOUS
<1> QED BY <1>1, <1>5, <1>6

LEMMA OutputIs ==
  ASSUME NEW s \in Seq(LogRow)
  PROVE  \E f : IsSum(f, s) /\ M!Output(s) = f[Len(s)]
<1>1. PICK f : f = CHOOSE g : IsSum(g, s)
  OBVIOUS
<1>2. IsSum(f, s)
  BY <1>1, SumExists
<1>3. M!Output(s) = f[Len(s)]
  BY <1>1 DEF M!Output, IsSum
<1> QED BY <1>2, <1>3

LEMMA OutputAdds ==
  ASSUME NEW s \in Seq(LogRow), NEW r \in LogRow
  PROVE  M!Output(Append(s, r)) = M!Output(s) + r.usage.output
<1>1. PICK t : t = Append(s, r)
  OBVIOUS
<1>2. /\ t \in Seq(LogRow) /\ Len(s) \in Nat /\ Len(t) = Len(s) + 1 /\ t[Len(t)] = r
      /\ (\A n \in 1..Len(s) : t[n] = s[n]) /\ Len(t) - 1 = Len(s) /\ Len(t) \in 1..Len(t)
  BY <1>1
<1>3. PICK f : IsSum(f, s) /\ M!Output(s) = f[Len(s)]
  BY OutputIs
<1>4. PICK g : IsSum(g, t) /\ M!Output(t) = g[Len(t)]
  BY <1>2, OutputIs
<1>5. f[Len(s)] = g[Len(s)]
  <2>1. Len(s) <= Len(t)
    BY <1>2
  <2> QED BY <1>2, <1>3, <1>4, <2>1, SumsAgree
<1>6. g[Len(t)] = g[Len(t) - 1] + t[Len(t)].usage.output
  BY <1>2, <1>4, SumSteps
<1> QED BY <1>1, <1>2, <1>3, <1>4, <1>5, <1>6

LEMMA NoOutput == M!Output(<<>>) = 0
<1>1. <<>> \in Seq(LogRow) /\ Len(<<>>) = 0
  OBVIOUS
<1>2. PICK f : IsSum(f, <<>>) /\ M!Output(<<>>) = f[Len(<<>>)]
  BY <1>1, OutputIs
<1>3. f[0] = 0
  BY <1>1, <1>2, SumSteps
<1> QED BY <1>1, <1>2, <1>3

(***************************************************************************)
(* The tokens from the upstream to the row and to the client.              *)
(***************************************************************************)
Upstream ==
  [protocol: M!Protocol, by: M!Ways, count: M!Count, latest: M!Usage \cup {None},
   atOnce: BOOLEAN, repeats: BOOLEAN, silent: BOOLEAN]
PipeOfTokens == [usage: M!Usage, at: {"start", "content", "ended", "over"}]
LoopOfTokens == [usage: M!Usage, searches: BOOLEAN, segments: Nat]

\* What the pipeline has of an upstream's count: before the end no output, and of the
\* rest each count or nothing yet.
Kept(p, u) ==
  /\ p.at = "start" => p.usage = M!Zero
  /\ p.at = "content" =>
       /\ p.usage.output = 0
       /\ p.usage.input \in {0, M!Fresh(u.count).input}
       /\ p.usage.read \in {0, M!Fresh(u.count).read}
       /\ p.usage.written \in {0, M!Fresh(u.count).written}
  /\ p.at = "ended" /\ ~u.silent => p.usage = M!Fresh(u.count)

\* Nothing is told before the end of the message, and no output counted: of a segment
\* that was cut there is none in the rows.
Told(p, l, u, all, last) ==
  /\ p.at \in {"start", "content"} =>
       /\ l.usage.output = 0 /\ last = None /\ M!Output(all) = 0
       /\ ~l.searches => all = <<>>
  /\ p.at = "ended" =>
       /\ M!Output(all) = 0
       /\ ~u.atOnce /\ ~u.repeats =>
            IF l.searches THEN l.usage.output = p.usage.output
            ELSE last \in M!Usage /\ last.output = p.usage.output
  /\ p.at = "over" /\ last # None /\ ~u.atOnce /\ ~u.repeats =>
       last.output = M!Output(all)

RowsAreRight(all) ==
  \A i \in DOMAIN all :
    all[i].ended /\ ~all[i].silent => all[i].usage = M!Fresh(all[i].count)

MeteringInv ==
  /\ upstream \in Upstream /\ Tells(upstream.protocol, upstream.count, upstream.by)
  /\ pipe \in PipeOfTokens /\ loop \in LoopOfTokens /\ logged \in Seq(LogRow)
  /\ told \in M!Usage \cup {None}
  /\ Kept(pipe, upstream)
  /\ Told(pipe, loop, upstream, logged, told)
  /\ RowsAreRight(logged)

LEMMA MeteringParts ==
  ASSUME MeteringInv
  PROVE  /\ upstream.protocol \in M!Protocol /\ upstream.by \in M!Ways
         /\ upstream.count \in M!Count /\ upstream.latest \in M!Usage \cup {None}
         /\ upstream.atOnce \in BOOLEAN /\ upstream.repeats \in BOOLEAN
         /\ upstream.silent \in BOOLEAN
         /\ upstream = [protocol |-> upstream.protocol, by |-> upstream.by,
                        count |-> upstream.count, latest |-> upstream.latest,
                        atOnce |-> upstream.atOnce, repeats |-> upstream.repeats,
                        silent |-> upstream.silent]
         /\ pipe = [usage |-> pipe.usage, at |-> pipe.at]
         /\ pipe.usage \in M!Usage /\ pipe.at \in {"start", "content", "ended", "over"}
         /\ loop = [usage |-> loop.usage, searches |-> loop.searches,
                    segments |-> loop.segments]
         /\ loop.usage \in M!Usage /\ loop.searches \in BOOLEAN /\ loop.segments \in Nat
         /\ Tells(upstream.protocol, upstream.count, upstream.by)
BY DEF MeteringInv, Upstream, PipeOfTokens, LoopOfTokens

\* What an upstream tells of its count is the count, taken apart.
LEMMA UsableIs ==
  ASSUME MeteringInv
  PROVE  M!Usable(upstream.count) = M!Fresh(upstream.count)
BY MeteringParts, ConvertedIsFresh DEF M!Usable

LEMMA UsablePart ==
  ASSUME MeteringInv, NEW n \in 0..upstream.count.output,
         NEW d, d = [upstream.count EXCEPT !.output = n]
  PROVE  /\ M!Usable(d) \in M!Usage
         /\ M!Usable(d).input = M!Fresh(upstream.count).input
         /\ M!Usable(d).read = M!Fresh(upstream.count).read
         /\ M!Usable(d).written = M!Fresh(upstream.count).written
<1>1. PICK c \in M!Count : c = upstream.count
  BY MeteringParts
<1>2. PICK m \in 0..c.output : m = n
  BY <1>1
<1>9. d = [c EXCEPT !.output = m]
  BY <1>1, <1>2
<1>3. d \in M!Count /\ d.read = c.read /\ d.written = c.written
  <2>1. d \in M!Count
    BY <1>9, PartOfCount, Zenon
  <2>2. d.read = c.read /\ d.written = c.written
    <3>1. c = [input |-> c.input, read |-> c.read, written |-> c.written, output |-> c.output]
      BY CountFields
    <3> QED BY <1>9, <3>1
  <2> QED BY <2>1, <2>2
<1>4. M!Fresh(d) = [input |-> M!Fresh(c).input, read |-> M!Fresh(c).read,
                    written |-> M!Fresh(c).written, output |-> m]
  BY <1>9, PartOfCount
<1>5. Tells(upstream.protocol, d, upstream.by)
  BY <1>1, <1>3, MeteringParts DEF Tells, M!Says
<1>6. M!Usable(d) = M!Fresh(d)
  BY <1>3, <1>5, MeteringParts, ConvertedIsFresh DEF M!Usable
<1>7. M!Fresh(d) \in M!Usage
  BY <1>3, FreshIsUsage
<1> QED BY <1>1, <1>4, <1>6, <1>7

\* What the pipeline has after the news of the start.
LEMMA StartKeeps ==
  ASSUME NEW v \in M!Usage, NEW w \in M!Usage,
         v.input \in {0, w.input}, v.read \in {0, w.read}, v.written \in {0, w.written},
         NEW k, k = M!AppliedStart(M!Zero, v)
  PROVE  /\ k \in M!Usage /\ k.output = 0
         /\ k.input \in {0, w.input} /\ k.read \in {0, w.read}
         /\ k.written \in {0, w.written}
<1>1. PICK z : z = M!Zero
  OBVIOUS
<1>2. z \in M!Usage /\ z.input = 0 /\ z.read = 0 /\ z.written = 0 /\ z.output = 0
  BY <1>1, ZeroIsUsage DEF M!Zero
<1>3. k = [input |-> News(z.input, v.input), read |-> News(z.read, v.read),
           written |-> News(z.written, v.written), output |-> z.output]
  BY <1>1, <1>2, AppliedStartIs
<1>4. k \in M!Usage
  BY <1>1, <1>2, AppliedStartIs
<1>5. /\ News(z.input, v.input) \in {0, w.input} /\ News(z.read, v.read) \in {0, w.read}
      /\ News(z.written, v.written) \in {0, w.written}
  BY <1>2 DEF News
<1> QED BY <1>2, <1>3, <1>4, <1>5

\* The news of the end make up for what was missing.
LEMMA EndCompletes ==
  ASSUME NEW u \in M!Usage, NEW w \in M!Usage, u.output \in {0, w.output},
         u.input \in {0, w.input}, u.read \in {0, w.read}, u.written \in {0, w.written}
  PROVE  M!Applied(u, w) = w
<1>1. /\ w.input \in Nat /\ w.read \in Nat /\ w.written \in Nat /\ w.output \in Nat
      /\ w = [input |-> w.input, read |-> w.read, written |-> w.written, output |-> w.output]
  BY UsageFields
<1>2. /\ News(u.input, w.input) = w.input /\ News(u.read, w.read) = w.read
      /\ News(u.written, w.written) = w.written /\ News(u.output, w.output) = w.output
  BY <1>1 DEF News
<1> QED BY <1>1, <1>2, AppliedIs

LEMMA StartedKeepsTokens ==
  ASSUME MeteringInv, pipe.at = "start", NEW v \in M!Usage,
         v.input \in {0, M!Fresh(upstream.count).input},
         v.read \in {0, M!Fresh(upstream.count).read},
         v.written \in {0, M!Fresh(upstream.count).written},
         M!StartedWith(v), UNCHANGED <<logged, told>>,
         \/ upstream' = [upstream EXCEPT !.latest = v]
         \/ UNCHANGED upstream
  PROVE  MeteringInv'
<1>1. PICK k : k = M!AppliedStart(M!Zero, v)
  OBVIOUS
<1>2. PICK w \in M!Usage : w = M!Fresh(upstream.count)
  BY MeteringParts, FreshIsUsage
<1>3. /\ k \in M!Usage /\ k.output = 0
      /\ k.input \in {0, w.input} /\ k.read \in {0, w.read} /\ k.written \in {0, w.written}
  BY <1>1, <1>2, StartKeeps
<1>4. pipe' = [usage |-> k, at |-> "content"]
  <2>1. pipe.usage = M!Zero
    BY DEF MeteringInv, Kept
  <2> QED BY <1>1, <2>1 DEF M!StartedWith
<1>5. pipe'.usage = k /\ pipe'.at = "content" /\ pipe' \in PipeOfTokens
  BY <1>3, <1>4 DEF PipeOfTokens
<1>6. loop' \in LoopOfTokens /\ loop'.searches = loop.searches
      /\ loop'.usage.output = loop.usage.output
  <2>1. /\ loop = [usage |-> loop.usage, searches |-> loop.searches,
                   segments |-> loop.segments]
        /\ loop.usage \in M!Usage /\ loop.searches \in BOOLEAN /\ loop.segments \in Nat
    BY MeteringParts
  <2>2. CASE ~loop.searches
    <3>1. loop' = [usage |-> loop.usage, searches |-> loop.searches, segments |-> 1]
      BY <2>1, <2>2 DEF M!StartedWith
    <3> QED BY <2>1, <3>1 DEF LoopOfTokens
  <2>3. CASE loop.searches
    <3>0. PICK add : add = (loop.segments > 0)
      OBVIOUS
    <3>1. add \in BOOLEAN
      BY <3>0
    <3>2. PICK m : m = M!Merged(loop.usage, k, add)
      OBVIOUS
    <3>3. m \in M!Usage /\ m.output = loop.usage.output
      BY <1>3, <2>1, <3>1, <3>2, MergedIs
    <3>4. PICK x : x = M!CapturedStart(m, v)
      OBVIOUS
    <3>5. x \in M!Usage /\ x.output = loop.usage.output
      BY <3>3, <3>4, CapturedStartIs
    <3>6. loop' = [loop EXCEPT !.usage = x, !.segments = @ + 1]
      BY <1>5, <2>3, <3>0, <3>2, <3>4 DEF M!StartedWith
    <3>7. loop' = [usage |-> x, searches |-> loop.searches, segments |-> loop.segments + 1]
      BY <2>1, <3>6
    <3> QED BY <2>1, <3>5, <3>7 DEF LoopOfTokens
  <2> QED BY <2>1, <2>2, <2>3
<1>7. /\ upstream' \in Upstream /\ upstream'.count = upstream.count
      /\ Tells(upstream'.protocol, upstream'.count, upstream'.by)
  <2>1. CASE UNCHANGED upstream
    BY <2>1 DEF MeteringInv
  <2>2. CASE upstream' = [upstream EXCEPT !.latest = v]
    <3>1. upstream' = [protocol |-> upstream.protocol, by |-> upstream.by,
                       count |-> upstream.count, latest |-> v,
                       atOnce |-> upstream.atOnce, repeats |-> upstream.repeats,
                       silent |-> upstream.silent]
      BY <2>2, MeteringParts
    <3> QED BY <3>1, MeteringParts DEF Upstream
  <2> QED BY <2>1, <2>2
<1>8. Kept(pipe', upstream')
  BY <1>2, <1>3, <1>5, <1>7 DEF Kept
<1>9. Told(pipe', loop', upstream', logged', told')
  <2>1. /\ loop.usage.output = 0 /\ told = None /\ M!Output(logged) = 0
        /\ ~loop.searches => logged = <<>>
    BY DEF MeteringInv, Told
  <2>2. logged' = logged /\ told' = told
    OBVIOUS
  <2> QED BY <1>5, <1>6, <2>1, <2>2 DEF Told
<1> QED BY <1>5, <1>6, <1>7, <1>8, <1>9 DEF MeteringInv

LEMMA BeginKeepsTokens ==
  ASSUME MeteringInv, M!Begin
  PROVE  MeteringInv'
<1>1. pipe.at = "start" /\ UNCHANGED <<logged, told>>
  BY DEF M!Begin
<1>2. CASE \E n \in 0..upstream.count.output :
             LET news == M!Usable([upstream.count EXCEPT !.output = n])
             IN  M!StartedWith(news) /\ upstream' = [upstream EXCEPT !.latest = news]
  <2>1. PICK n \in 0..upstream.count.output :
          LET news == M!Usable([upstream.count EXCEPT !.output = n])
          IN  M!StartedWith(news) /\ upstream' = [upstream EXCEPT !.latest = news]
    BY <1>2
  <2>2. PICK d : d = [upstream.count EXCEPT !.output = n]
    OBVIOUS
  <2>3. PICK v : v = M!Usable(d)
    OBVIOUS
  <2>4. M!StartedWith(v) /\ upstream' = [upstream EXCEPT !.latest = v]
    BY <2>1, <2>2, <2>3
  <2>5. /\ v \in M!Usage /\ v.input = M!Fresh(upstream.count).input
        /\ v.read = M!Fresh(upstream.count).read
        /\ v.written = M!Fresh(upstream.count).written
    BY <2>2, <2>3, UsablePart
  <2> QED BY <1>1, <2>4, <2>5, StartedKeepsTokens
<1>3. CASE M!StartedWith(M!Zero) /\ UNCHANGED upstream
  <2>1. PICK v : v = M!Zero
    OBVIOUS
  <2>2. v \in M!Usage /\ v.input = 0 /\ v.read = 0 /\ v.written = 0
    BY <2>1, ZeroIsUsage DEF M!Zero
  <2>3. M!StartedWith(v)
    BY <1>3, <2>1
  <2> QED BY <1>1, <1>3, <2>2, <2>3, StartedKeepsTokens
<1> QED BY <1>2, <1>3 DEF M!Begin

LEMMA BeginAtOnceKeepsTokens ==
  ASSUME MeteringInv, M!BeginAtOnce
  PROVE  MeteringInv'
<1>1. PICK v : v = M!Usable(upstream.count)
  OBVIOUS
<1>2. v = M!Fresh(upstream.count) /\ v \in M!Usage
  BY <1>1, UsableIs, MeteringParts, FreshIsUsage
<1>3. PICK k : k = M!AppliedStart(M!Zero, v)
  OBVIOUS
<1>4. /\ k \in M!Usage /\ k.output = 0
      /\ k.input \in {0, v.input} /\ k.read \in {0, v.read} /\ k.written \in {0, v.written}
  BY <1>2, <1>3, StartKeeps
<1>5. M!Applied(k, v) = v
  BY <1>2, <1>4, EndCompletes
<1>6. /\ pipe.at = "start" /\ pipe' = [usage |-> v, at |-> "ended"] /\ UNCHANGED logged
      /\ upstream' = [upstream EXCEPT !.latest = v, !.atOnce = TRUE]
      /\ told' = IF loop.searches THEN told ELSE v
  BY <1>1, <1>3, <1>5 DEF M!BeginAtOnce
<1>7. pipe'.usage = v /\ pipe'.at = "ended" /\ pipe' \in PipeOfTokens
  BY <1>2, <1>6 DEF PipeOfTokens
<1>8. loop' \in LoopOfTokens
  <2>1. /\ loop = [usage |-> loop.usage, searches |-> loop.searches,
                   segments |-> loop.segments]
        /\ loop.usage \in M!Usage /\ loop.searches \in BOOLEAN /\ loop.segments \in Nat
    BY MeteringParts
  <2>2. CASE ~loop.searches
    <3>1. loop' = [usage |-> loop.usage, searches |-> loop.searches, segments |-> 1]
      BY <2>1, <2>2 DEF M!BeginAtOnce
    <3> QED BY <2>1, <3>1 DEF LoopOfTokens
  <2>3. CASE loop.searches
    <3>1. PICK add : add = (loop.segments > 0)
      OBVIOUS
    <3>2. add \in BOOLEAN
      BY <3>1
    <3>3. PICK m : m = M!Merged(loop.usage, v, add)
      OBVIOUS
    <3>4. m \in M!Usage
      BY <1>2, <2>1, <3>2, <3>3, AnyMergedIsUsage
    <3>5. PICK x : x = M!CapturedStart(m, v)
      OBVIOUS
    <3>6. x \in M!Usage
      BY <1>2, <3>4, <3>5, CapturedStartIs
    <3>7. PICK y : y = M!CapturedEnd(x, v)
      OBVIOUS
    <3>8. y \in M!Usage
      BY <1>2, <3>6, <3>7, CapturedEndIs
    <3>9. loop' = [loop EXCEPT !.usage = y, !.segments = @ + 1]
      BY <1>1, <1>7, <2>3, <3>1, <3>3, <3>5, <3>7 DEF M!BeginAtOnce
    <3>10. loop' = [usage |-> y, searches |-> loop.searches, segments |-> loop.segments + 1]
      BY <2>1, <3>9
    <3> QED BY <2>1, <3>8, <3>10 DEF LoopOfTokens
  <2> QED BY <2>1, <2>2, <2>3
<1>9. upstream' = [protocol |-> upstream.protocol, by |-> upstream.by,
                   count |-> upstream.count, latest |-> v, atOnce |-> TRUE,
                   repeats |-> upstream.repeats, silent |-> upstream.silent]
  BY <1>6, MeteringParts
<1>10. upstream' \in Upstream /\ Tells(upstream'.protocol, upstream'.count, upstream'.by)
  BY <1>2, <1>9, MeteringParts DEF Upstream
<1>11. Kept(pipe', upstream')
  BY <1>2, <1>7, <1>9 DEF Kept
<1>12. Told(pipe', loop', upstream', logged', told')
  BY <1>6, <1>7, <1>9 DEF MeteringInv, Told
<1>13. told' \in M!Usage \cup {None}
  BY <1>2, <1>6 DEF MeteringInv
<1> QED BY <1>6, <1>7, <1>8, <1>10, <1>11, <1>12, <1>13 DEF MeteringInv

LEMMA EndedKeepsTokens ==
  ASSUME MeteringInv, pipe.at = "content", NEW v \in M!Usage, M!Ended(v), UNCHANGED logged,
         \/ v = M!Fresh(upstream.count) /\ UNCHANGED upstream
         \/ upstream' = [upstream EXCEPT !.silent = TRUE]
  PROVE  MeteringInv'
<1>1. PICK u : u = pipe.usage
  OBVIOUS
<1>2. /\ u \in M!Usage /\ u.output = 0
      /\ u.input \in {0, M!Fresh(upstream.count).input}
      /\ u.read \in {0, M!Fresh(upstream.count).read}
      /\ u.written \in {0, M!Fresh(upstream.count).written}
  BY <1>1, MeteringParts DEF MeteringInv, Kept
<1>3. PICK k : k = M!Applied(u, v)
  OBVIOUS
<1>4. k \in M!Usage /\ k.output = v.output
  <2>1. k = [input |-> News(u.input, v.input), read |-> News(u.read, v.read),
             written |-> News(u.written, v.written), output |-> News(u.output, v.output)]
    BY <1>2, <1>3, AppliedIs
  <2>2. News(u.output, v.output) = v.output
    BY <1>2, UsageFields DEF News
  <2>3. k \in M!Usage
    BY <1>2, <1>3, AppliedIsUsage
  <2> QED BY <2>1, <2>2, <2>3
<1>5. pipe' = [usage |-> k, at |-> "ended"]
  BY <1>1, <1>3 DEF M!Ended
<1>6. pipe'.usage = k /\ pipe'.at = "ended" /\ pipe' \in PipeOfTokens
  BY <1>4, <1>5 DEF PipeOfTokens
<1>7. v = M!Fresh(upstream.count) => k = v
  BY <1>2, <1>3, EndCompletes
<1>8. /\ loop.usage.output = 0 /\ told = None /\ M!Output(logged) = 0
      /\ loop.usage \in M!Usage /\ loop.searches \in BOOLEAN /\ loop.segments \in Nat
      /\ loop = [usage |-> loop.usage, searches |-> loop.searches,
                 segments |-> loop.segments]
  BY MeteringParts DEF MeteringInv, Told
<1>9. /\ loop' \in LoopOfTokens /\ loop'.searches = loop.searches
      /\ loop.searches => loop'.usage.output = v.output
  <2>1. CASE ~loop.searches
    <3>1. loop' = loop
      BY <2>1 DEF M!Ended
    <3> QED BY <2>1, <3>1 DEF MeteringInv
  <2>2. CASE loop.searches
    <3>1. PICK x : x = M!CapturedEnd(loop.usage, v)
      OBVIOUS
    <3>2. x \in M!Usage /\ x.output = v.output
      <4>1. x \in M!Usage /\ x.output = loop.usage.output + v.output /\ v.output \in Nat
        BY <1>8, <3>1, CapturedEndIs, UsageFields
      <4> QED BY <1>8, <4>1
    <3>3. loop' = [loop EXCEPT !.usage = x]
      BY <2>2, <3>1 DEF M!Ended
    <3>4. loop' = [usage |-> x, searches |-> loop.searches, segments |-> loop.segments]
      BY <1>8, <3>3
    <3> QED BY <1>8, <3>2, <3>4 DEF LoopOfTokens
  <2> QED BY <1>8, <2>1, <2>2
<1>10. told' = IF loop.searches THEN told ELSE v
  BY DEF M!Ended
<1>11. /\ upstream' \in Upstream /\ upstream'.count = upstream.count
       /\ Tells(upstream'.protocol, upstream'.count, upstream'.by)
       /\ ~upstream'.silent => v = M!Fresh(upstream.count)
  <2>1. CASE v = M!Fresh(upstream.count) /\ UNCHANGED upstream
    BY <2>1 DEF MeteringInv
  <2>2. CASE upstream' = [upstream EXCEPT !.silent = TRUE]
    <3>1. upstream' = [protocol |-> upstream.protocol, by |-> upstream.by,
                       count |-> upstream.count, latest |-> upstream.latest,
                       atOnce |-> upstream.atOnce, repeats |-> upstream.repeats,
                       silent |-> TRUE]
      BY <2>2, MeteringParts
    <3> QED BY <3>1, MeteringParts DEF Upstream
  <2> QED BY <2>1, <2>2
<1>12. Kept(pipe', upstream')
  BY <1>6, <1>7, <1>11 DEF Kept
<1>13. Told(pipe', loop', upstream', logged', told')
  BY <1>4, <1>6, <1>8, <1>9, <1>10 DEF Told
<1>14. told' \in M!Usage \cup {None}
  BY <1>8, <1>10
<1> QED BY <1>6, <1>9, <1>11, <1>12, <1>13, <1>14 DEF MeteringInv

LEMMA EndKeepsTokens ==
  ASSUME MeteringInv, M!End
  PROVE  MeteringInv'
<1>1. pipe.at = "content" /\ UNCHANGED logged
  BY DEF M!End
<1>2. CASE M!Ended(M!Usable(upstream.count)) /\ UNCHANGED upstream
  <2>1. PICK v : v = M!Fresh(upstream.count)
    OBVIOUS
  <2>2. v \in M!Usage /\ M!Ended(v)
    BY <1>2, <2>1, UsableIs, MeteringParts, FreshIsUsage
  <2> QED BY <1>1, <1>2, <2>1, <2>2, EndedKeepsTokens
<1>3. ASSUME NEW v, M!Ended(v), upstream' = [upstream EXCEPT !.silent = TRUE],
             v = IF upstream.protocol \in {"chat", "gemini"} /\ upstream.latest # None
                 THEN upstream.latest ELSE M!Zero
      PROVE  MeteringInv'
  <2>1. v \in M!Usage
    BY <1>3, MeteringParts, ZeroIsUsage
  <2> QED BY <1>1, <1>3, <2>1, EndedKeepsTokens
<1> QED BY <1>2, <1>3 DEF M!End

LEMMA EndAgainKeepsTokens ==
  ASSUME MeteringInv, M!EndAgain
  PROVE  MeteringInv'
<1>1. PICK v : v = [M!Zero EXCEPT !.output = pipe.usage.output]
  OBVIOUS
<1>2. v \in M!Usage
  BY <1>1, ZeroIsUsage, MeteringParts, UsageFields, OutputSet
<1>3. /\ pipe.at = "ended" /\ UNCHANGED <<pipe, logged>>
      /\ upstream' = [upstream EXCEPT !.repeats = TRUE]
      /\ loop' = IF loop.searches THEN [loop EXCEPT !.usage = M!CapturedEnd(@, v)] ELSE loop
      /\ told' = IF loop.searches THEN told ELSE v
  BY <1>1 DEF M!EndAgain
<1>4. loop' \in LoopOfTokens
  <2>1. CASE ~loop.searches
    BY <1>3, <2>1 DEF MeteringInv
  <2>2. CASE loop.searches
    <3>1. PICK x : x = M!CapturedEnd(loop.usage, v)
      OBVIOUS
    <3>2. x \in M!Usage
      BY <1>2, <3>1, MeteringParts, CapturedEndIs
    <3>3. loop' = [usage |-> x, searches |-> loop.searches, segments |-> loop.segments]
      BY <1>3, <2>2, <3>1, MeteringParts
    <3> QED BY <3>2, <3>3, MeteringParts DEF LoopOfTokens
  <2> QED BY <2>1, <2>2
<1>5. upstream' = [protocol |-> upstream.protocol, by |-> upstream.by,
                   count |-> upstream.count, latest |-> upstream.latest,
                   atOnce |-> upstream.atOnce, repeats |-> TRUE,
                   silent |-> upstream.silent]
  BY <1>3, MeteringParts
<1>6. upstream' \in Upstream /\ Tells(upstream'.protocol, upstream'.count, upstream'.by)
  BY <1>5, MeteringParts DEF Upstream
<1>7. Kept(pipe', upstream')
  BY <1>3, <1>5 DEF MeteringInv, Kept
<1>8. Told(pipe', loop', upstream', logged', told')
  BY <1>3, <1>5 DEF MeteringInv, Told
<1>9. told' \in M!Usage \cup {None}
  BY <1>2, <1>3 DEF MeteringInv
<1> QED BY <1>3, <1>4, <1>6, <1>7, <1>8, <1>9 DEF MeteringInv

\* write_log()
LEMMA RowIs ==
  ASSUME MeteringInv
  PROVE  /\ M!Row \in LogRow /\ M!Row.usage = pipe.usage
         /\ M!Output(Append(logged, M!Row)) = M!Output(logged) + pipe.usage.output
         /\ Append(logged, M!Row) \in Seq(LogRow)
         /\ RowsAreRight(Append(logged, M!Row))
<1>1. PICK r : r = M!Row
  OBVIOUS
<1>2. /\ r.usage = pipe.usage /\ r.count = upstream.count
      /\ r.ended <=> pipe.at = "ended"
      /\ r.silent = upstream.silent
  BY <1>1 DEF M!Row
<1>3. r \in LogRow
  BY <1>1, MeteringParts DEF M!Row, LogRow
<1>4. PICK s : s = logged
  OBVIOUS
<1>5. s \in Seq(LogRow) /\ RowsAreRight(s)
  BY <1>4 DEF MeteringInv
<1>6. r.ended /\ ~r.silent => r.usage = M!Fresh(r.count)
  BY <1>2 DEF MeteringInv, Kept
<1>7. PICK t : t = Append(s, r)
  OBVIOUS
<1>8. /\ t \in Seq(LogRow) /\ DOMAIN t = DOMAIN s \cup {Len(s) + 1}
      /\ t[Len(s) + 1] = r /\ \A i \in DOMAIN s : t[i] = s[i]
  BY <1>3, <1>5, <1>7
<1>9. RowsAreRight(t)
  BY <1>5, <1>6, <1>8 DEF RowsAreRight
<1>10. M!Output(t) = M!Output(s) + r.usage.output
  BY <1>3, <1>5, <1>7, OutputAdds
<1> QED BY <1>1, <1>2, <1>3, <1>4, <1>7, <1>8, <1>9, <1>10

LEMMA OverIs ==
  ASSUME MeteringInv, pipe' = [pipe EXCEPT !.at = "over"]
  PROVE  pipe' \in PipeOfTokens /\ pipe'.at = "over" /\ pipe'.usage = pipe.usage
<1>1. pipe' = [usage |-> pipe.usage, at |-> "over"]
  BY MeteringParts
<1> QED BY <1>1, MeteringParts DEF PipeOfTokens

LEMMA FinishKeepsTokens ==
  ASSUME MeteringInv, M!Finish
  PROVE  MeteringInv'
<1>1. /\ pipe.at = "ended" /\ logged' = Append(logged, M!Row)
      /\ told' = (IF loop.searches THEN loop.usage ELSE told)
      /\ pipe' = [pipe EXCEPT !.at = "over"] /\ UNCHANGED <<upstream, loop>>
  BY DEF M!Finish
<1>2. /\ logged' \in Seq(LogRow) /\ RowsAreRight(logged')
      /\ M!Output(logged') = M!Output(logged) + pipe.usage.output
  BY <1>1, RowIs
<1>3. pipe' \in PipeOfTokens /\ pipe'.at = "over"
  BY <1>1, OverIs
<1>4. Kept(pipe', upstream')
  BY <1>3 DEF Kept
<1>5. /\ M!Output(logged) = 0 /\ pipe.usage.output \in Nat
      /\ ~upstream.atOnce /\ ~upstream.repeats =>
           IF loop.searches THEN loop.usage.output = pipe.usage.output
           ELSE told \in M!Usage /\ told.output = pipe.usage.output
  BY <1>1, MeteringParts, UsageFields DEF MeteringInv, Told
<1>6. M!Output(logged') = pipe.usage.output
  BY <1>2, <1>5
<1>7. Told(pipe', loop', upstream', logged', told')
  BY <1>1, <1>3, <1>5, <1>6 DEF Told
<1>8. told' \in M!Usage \cup {None}
  BY <1>1, MeteringParts DEF MeteringInv
<1> QED BY <1>1, <1>2, <1>3, <1>4, <1>7, <1>8 DEF MeteringInv

LEMMA AskKeepsTokens ==
  ASSUME MeteringInv, M!Ask
  PROVE  MeteringInv'
<1>1. /\ pipe.at = "content" /\ loop.searches /\ logged' = Append(logged, M!Row)
      /\ pipe' = M!NewPipe /\ UNCHANGED <<loop, told>>
  BY DEF M!Ask
<1>2. PICK c \in M!Count :
        /\ upstream.protocol \in M!OpenAI => M!Says(c, upstream.by)
        /\ upstream.protocol = "gemini" => c.written = 0
        /\ upstream' = [upstream EXCEPT !.count = c, !.latest = None]
  BY DEF M!Ask
<1>3. upstream' = [protocol |-> upstream.protocol, by |-> upstream.by,
                   count |-> c, latest |-> None, atOnce |-> upstream.atOnce,
                   repeats |-> upstream.repeats, silent |-> upstream.silent]
  BY <1>2, MeteringParts
<1>4. upstream' \in Upstream /\ Tells(upstream'.protocol, upstream'.count, upstream'.by)
  BY <1>2, <1>3, MeteringParts DEF Upstream, Tells
<1>5. pipe' \in PipeOfTokens /\ pipe'.at = "start" /\ pipe'.usage = M!Zero
  BY <1>1, ZeroIsUsage DEF M!NewPipe, PipeOfTokens
<1>6. /\ logged' \in Seq(LogRow) /\ RowsAreRight(logged')
      /\ M!Output(logged') = M!Output(logged) + pipe.usage.output
  BY <1>1, RowIs
<1>7. /\ loop.usage.output = 0 /\ told = None /\ M!Output(logged) = 0
      /\ pipe.usage.output = 0
  BY <1>1 DEF MeteringInv, Told, Kept
<1>8. M!Output(logged') = 0
  BY <1>6, <1>7
<1>9. Told(pipe', loop', upstream', logged', told')
  BY <1>1, <1>5, <1>7, <1>8 DEF Told
<1>10. Kept(pipe', upstream')
  BY <1>5 DEF Kept
<1> QED BY <1>1, <1>4, <1>5, <1>6, <1>9, <1>10 DEF MeteringInv

LEMMA LeaveKeepsTokens ==
  ASSUME MeteringInv, M!Leave
  PROVE  MeteringInv'
<1>1. /\ pipe.at = "content" /\ logged' = Append(logged, M!Row)
      /\ pipe' = [pipe EXCEPT !.at = "over"] /\ UNCHANGED <<upstream, loop, told>>
  BY DEF M!Leave
<1>2. logged' \in Seq(LogRow) /\ RowsAreRight(logged')
  BY <1>1, RowIs
<1>3. pipe' \in PipeOfTokens /\ pipe'.at = "over"
  BY <1>1, OverIs
<1>4. Kept(pipe', upstream')
  BY <1>3 DEF Kept
<1>5. told = None
  BY <1>1 DEF MeteringInv, Told
<1>6. Told(pipe', loop', upstream', logged', told')
  BY <1>1, <1>3, <1>5 DEF Told
<1> QED BY <1>1, <1>2, <1>3, <1>4, <1>6 DEF MeteringInv

LEMMA DocumentKeepsTokens ==
  ASSUME MeteringInv, M!Document
  PROVE  MeteringInv'
<1>1. PICK u : u = M!OfDocument(upstream.protocol, upstream.count, upstream.by)
  OBVIOUS
<1>2. u = M!Fresh(upstream.count) /\ u \in M!Usage
  BY <1>1, MeteringParts, ConvertedIsFresh, FreshIsUsage
<1>3. PICK r : r = [usage |-> u, count |-> upstream.count, ended |-> TRUE, silent |-> FALSE]
  OBVIOUS
<1>4. /\ logged' = <<r>> /\ told' = u /\ pipe' = [usage |-> u, at |-> "over"]
      /\ UNCHANGED <<upstream, loop>>
  BY <1>1, <1>3 DEF M!Document
<1>5. r \in LogRow /\ r.usage = u /\ r.count = upstream.count
  BY <1>2, <1>3, MeteringParts DEF LogRow
<1>6. PICK t : t = <<r>>
  OBVIOUS
<1>7. t \in Seq(LogRow) /\ t = Append(<<>>, r) /\ DOMAIN t = {1} /\ t[1] = r
  BY <1>5, <1>6
<1>8. RowsAreRight(t)
  BY <1>2, <1>5, <1>7 DEF RowsAreRight
<1>9. M!Output(t) = u.output
  <2>1. <<>> \in Seq(LogRow) /\ u.output \in Nat
    BY <1>2, UsageFields
  <2>2. M!Output(Append(<<>>, r)) = M!Output(<<>>) + r.usage.output
    BY <1>5, <2>1, OutputAdds
  <2> QED BY <1>5, <1>7, <2>1, <2>2, NoOutput
<1>10. pipe' \in PipeOfTokens /\ pipe'.at = "over"
  BY <1>2, <1>4 DEF PipeOfTokens
<1>11. Kept(pipe', upstream')
  BY <1>10 DEF Kept
<1>12. Told(pipe', loop', upstream', logged', told')
  BY <1>4, <1>6, <1>9, <1>10 DEF Told
<1> QED BY <1>2, <1>4, <1>6, <1>7, <1>8, <1>10, <1>11, <1>12 DEF MeteringInv

LEMMA TokensAreKept ==
  ASSUME MeteringInv, [M!Next]_ofMetering
  PROVE  MeteringInv'
<1>1. CASE UNCHANGED ofMetering
  <2>1. UNCHANGED <<upstream, pipe, loop, logged, told>>
    BY <1>1 DEF ofMetering
  <2> QED BY <2>1 DEF MeteringInv
<1>2. CASE M!Next
  BY <1>2, BeginKeepsTokens, BeginAtOnceKeepsTokens, EndKeepsTokens, EndAgainKeepsTokens,
     FinishKeepsTokens, AskKeepsTokens, LeaveKeepsTokens, DocumentKeepsTokens DEF M!Next
<1> QED BY <1>1, <1>2

LEMMA TokensBegin ==
  ASSUME M!Init
  PROVE  MeteringInv
<1>1. PICK protocol \in M!Protocol, by \in M!Ways, c \in M!Count :
        /\ protocol = "chat" => by.style = "prompt"
        /\ protocol \in M!OpenAI => M!Says(c, by)
        /\ protocol = "gemini" => c.written = 0
        /\ upstream = [protocol |-> protocol, by |-> by, count |-> c, latest |-> None,
                       atOnce |-> FALSE, repeats |-> FALSE, silent |-> FALSE]
  BY Zenon DEF M!Init
<1>2. upstream \in Upstream /\ Tells(upstream.protocol, upstream.count, upstream.by)
  BY <1>1 DEF Upstream, Tells
<1>3. pipe = M!NewPipe /\ logged = <<>> /\ told = None
  BY DEF M!Init
<1>4. pipe \in PipeOfTokens /\ pipe.at = "start" /\ pipe.usage = M!Zero
  BY <1>3, ZeroIsUsage DEF M!NewPipe, PipeOfTokens
<1>5. PICK searches \in BOOLEAN :
        loop = [usage |-> M!Zero, searches |-> searches, segments |-> 0]
  BY DEF M!Init
<1>6. loop \in LoopOfTokens /\ loop.usage.output = 0
  BY <1>5, ZeroIsUsage DEF LoopOfTokens
<1>7. logged \in Seq(LogRow) /\ RowsAreRight(logged)
  BY <1>3 DEF RowsAreRight
<1>8. Kept(pipe, upstream)
  BY <1>4 DEF Kept
<1>9. Told(pipe, loop, upstream, logged, told)
  BY <1>3, <1>4, <1>6, NoOutput DEF Told
<1> QED BY <1>2, <1>3, <1>4, <1>6, <1>7, <1>8, <1>9 DEF MeteringInv

-----------------------------------------------------------------------------
\* The inductive invariant of the repair (rectify/mod.rs, in the loop of forward.rs):
\* what is pending is in the body it is credited for, an attempt waits for the patch of
\* an error only when none is pending, and a candidate that answered is on record under
\* the form it was asked with.
THEOREM LearningIsKept == RequestSpec => []LearningInv
<1>1. RequestInit => LearningInv
  BY LearningBegins
<1>2. LearningInv /\ [RequestNext]_<<part, ofDialogue, ofRectify, ofMetering>> => LearningInv'
  BY NextKeepsLearning
<1> QED BY <1>1, <1>2, PTL DEF RequestSpec, Running

\* What the gateway learns has been earned (record_success, upsert_rectify_rule,
\* note_entry_thinking_mode): a patch is credited for the error whose body holds it, a
\* form is noted after an answer, and a rule is written by nobody else.
THEOREM LearningHasBeenEarned == RequestSpec => LearningIsEarned
<1>1. LearningInv => R!CreditIsEarned /\ R!NotedFormsWork
  BY DEF LearningInv, Credited, R!CreditIsEarned
<1>2. LearningInv /\ [RequestNext]_<<part, ofDialogue, ofRectify, ofMetering>> =>
        [\A f \in Fingerprint :
           (rule'[f] # rule[f] /\ req' # req) =>
             /\ rule[f] # None => rule'[f].enabled = rule[f].enabled
             /\ \E r \in Request : \E a \in req[r].applied :
                  /\ req[r].at = "settle" /\ a[1] = f /\ f \notin req[r].again
                  /\ \/ rule'[f].patch = a[2]
                     \/ rule[f] # None /\ rule'[f] = [rule[f] EXCEPT !.hits = 1]]_R!rvars
  <2>1. ASSUME LearningInv, R!RectifyNext
        PROVE  \A f \in Fingerprint :
           (rule'[f] # rule[f] /\ req' # req) =>
             /\ rule[f] # None => rule'[f].enabled = rule[f].enabled
             /\ \E r \in Request : \E a \in req[r].applied :
                  /\ req[r].at = "settle" /\ a[1] = f /\ f \notin req[r].again
                  /\ \/ rule'[f].patch = a[2]
                     \/ rule[f] # None /\ rule'[f] = [rule[f] EXCEPT !.hits = 1]
    BY <2>1, RulesAreWrittenOnce
  <2> QED BY Zenon, <2>1, RepairSteps
<1> QED BY <1>1, <1>2, LearningIsKept, PTL DEF LearningIsEarned, R!RulesAreEarned, RequestSpec,
        Running

-----------------------------------------------------------------------------
\* The inductive invariant of the count of an answer's tokens (the converters, the
\* pipeline and the search loop): before the end of its message a stream has of each
\* count of the input all or nothing, and of the output nothing, in the pipeline, in
\* the loop or in the rows.
THEOREM TokensAreFollowed == RequestSpec => [](part = "tokens" => MeteringInv)
<1>1. RequestInit => (part = "tokens" => MeteringInv)
  BY TokensBegin DEF RequestInit
<1>2. /\ part = "tokens" => MeteringInv
      /\ [RequestNext]_<<part, ofDialogue, ofRectify, ofMetering>>
      => (part = "tokens" => MeteringInv)'
  BY TokensAreKept DEF RequestNext
<1> QED BY <1>1, <1>2, PTL DEF RequestSpec, Running

\* Whatever the protocol and wherever it puts its counts: the row of an answer whose
\* upstream told its count has each token once, and the client is told the output that
\* the rows of its request have.
THEOREM TokensAreCountedOnce == RequestSpec => []TokensAreCounted
<1>1. (part = "tokens" => MeteringInv) => TokensAreCounted
  <2>1. ASSUME MeteringInv
        PROVE  M!RowsCountTheAnswer
    BY <2>1 DEF MeteringInv, RowsAreRight, M!RowsCountTheAnswer
  <2>2. ASSUME MeteringInv
        PROVE  M!ToldIsLogged
    BY <2>2 DEF MeteringInv, Told, M!ToldIsLogged
  <2> QED BY <2>1, <2>2 DEF TokensAreCounted
<1> QED BY <1>1, TokensAreFollowed, PTL
===============================================================================

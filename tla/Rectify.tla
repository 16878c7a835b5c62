-------------------------------- MODULE Rectify --------------------------------
(***************************************************************************)
(* The repair of rejected requests (rectify/mod.rs) inside the loop over   *)
(* the candidates of forward.rs.  When an upstream answers 400, 413 or 422 *)
(* the request is changed and sent again to the same candidate: first by a *)
(* built-in rectifier, then by a rule learned earlier, then by a patch     *)
(* that another model is asked for.  A patch is learned as a rule only     *)
(* once it has worked.  The thinking parameters have a ladder of forms of  *)
(* their own; the form that works is noted on the entry, and an entry      *)
(* that takes none of them is disabled.                                    *)
(*                                                                         *)
(* Requests interleave at every await: the upstream's answer, the search   *)
(* for a rule, the analysis and the write of a learned rule; the operator  *)
(* changes rules and entries in between.  Writes of the queue are applied  *)
(* when they are queued (Snapshot and Cooldown model the queue).           *)
(***************************************************************************)
EXTENDS Integers, FiniteSets

CONSTANTS
  Request, Entry,
  Forced,        \* the entries of channels with max_thinking
  Fingerprint,   \* of errors
  Refuses,       \* the errors that is_thinking_rejection recognises
  Early, Late,   \* the built-in rectifiers tried before and after the ladder
  Patch, None,
  MaxRows,       \* bound: rules ever inserted
  MaxEdits       \* bound: what the operator changes

RectifyAssumption ==
  /\ Forced \subseteq Entry /\ Refuses \subseteq Fingerprint
  /\ Early \cap Late = {} /\ None \notin Patch \cup Entry
  /\ MaxRows \in Nat /\ MaxEdits \in Nat

Form == {"", "max", "alt", "legacy", "unsupported"}  \* "" is no marker
Pending == [print : Fingerprint, patch : Patch, row : 0 .. MaxRows]  \* row 0: Learned

VARIABLES
  entry,    \* table entries: enabled and thinking_mode
  rule,     \* table rectify_rules, by fingerprint
  rows,     \* the last id of rectify_rules
  edits,    \* changes of the operator, for the bound
  req,      \* RectifierState and the local variables of forward
  tested    \* history: the forms under which an entry has answered

rvars == <<entry, rule, rows, edits, req, tested>>

Place == {"idle", "choose", "try", "find", "analyse", "settle", "done"}

RectifyTypeOK ==
  /\ entry \in [Entry -> [enabled : BOOLEAN, form : Form]]
  /\ \A f \in Fingerprint : \/ rule[f] = None
                      \/ rule[f] \in [id : 1 .. MaxRows, patch : Patch,
                                      enabled : BOOLEAN, hits : 0 .. 1]
  /\ DOMAIN rule = Fingerprint /\ rows \in 0 .. MaxRows /\ edits \in 0 .. MaxEdits
  /\ DOMAIN req = Request
  /\ \A r \in Request :
       /\ req[r].at \in Place /\ req[r].left \subseteq Entry
       /\ req[r].cand \in Entry \cup {None} /\ req[r].error \in Fingerprint \cup {None}
       /\ req[r].form \in Form /\ req[r].noted \in [Entry -> Form]
       /\ req[r].tried \subseteq Early \cup Late /\ req[r].ruleTried \in BOOLEAN
       /\ req[r].analyzed \subseteq Fingerprint /\ req[r].pending \subseteq Pending
       /\ req[r].applied \subseteq Fingerprint \X Patch /\ req[r].again \subseteq Fingerprint
  /\ tested \subseteq Entry \X Form

Idle == [at |-> "idle", left |-> {}, noted |-> [e \in Entry |-> ""], cand |-> None,
         error |-> None, form |-> "", tried |-> {}, ruleTried |-> FALSE,
         analyzed |-> {}, pending |-> {}, applied |-> {}, again |-> {}]

RectifyInit ==
  /\ entry = [e \in Entry |-> [enabled |-> TRUE, form |-> ""]]
  /\ rule = [f \in Fingerprint |-> None] /\ rows = 0 /\ edits = 0
  /\ req = [r \in Request |-> Idle]
  /\ tested = {}

Over == [Idle EXCEPT !.at = "done"]

Goes(r, q) == req' = [req EXCEPT ![r] = q]
At(r, place) == req[r].at = place

\* The plan is made of the enabled entries, as they are now.
Start(r) ==
  /\ At(r, "idle")
  /\ Goes(r, [Idle EXCEPT !.at = "choose",
                          !.left = {e \in Entry : entry[e].enabled},
                          !.noted = [e \in Entry |-> entry[e].form]])
  /\ UNCHANGED <<entry, rule, rows, edits, tested>>

\* The body of the next candidate is the client's, with the marker that
\* apply_max_thinking puts on it.
Marked(q, e) ==
  IF e \notin Forced THEN "" ELSE IF q.noted[e] = "" THEN "max" ELSE q.noted[e]

BeginCandidate(q, e) ==
  [q EXCEPT !.at = "try", !.left = @ \ {e}, !.cand = e, !.form = Marked(q, e),
            !.error = None, !.tried = {}, !.ruleTried = FALSE, !.pending = {},
            !.applied = {}, !.again = {}]

Choose(r) ==
  /\ At(r, "choose")
  /\ \/ \E e \in req[r].left : Goes(r, BeginCandidate(req[r], e))
     \/ req[r].left = {} /\ Goes(r, Over)
  /\ UNCHANGED <<entry, rule, rows, edits, tested>>

\* The attempt is over without success, and settle(false) takes what is pending.
Lost(q) == [q EXCEPT !.at = "choose", !.pending = {}]

\* The upstream fails in a way that no rewriting mends.
Fail(r) ==
  /\ At(r, "try")
  /\ Goes(r, Lost(req[r]))
  /\ UNCHANGED <<entry, rule, rows, edits, tested>>

Changed_NotesAtOnce(r, q) ==
  /\ Goes(r, IF q.form = "unsupported" THEN Lost(q) ELSE [q EXCEPT !.at = "try"])
  /\ entry' = [entry EXCEPT ![q.cand].form = q.form]
\* next_step returned Some.  When the marker says "unsupported" the entry is
\* disabled and the candidate given up; otherwise the same candidate is asked.
Changed(r, q) ==
  IF q.form = "unsupported"
  THEN /\ Goes(r, Lost(q))
       /\ entry' = [entry EXCEPT ![q.cand] = [enabled |-> FALSE, form |-> "unsupported"]]
  ELSE /\ Goes(r, [q EXCEPT !.at = "try"])
       /\ UNCHANGED entry

Downgraded_Unnamed(form) ==
  CASE form = "max" -> "alt" [] form = "alt" -> "legacy" [] OTHER -> "none"
\* ThinkingMode::downgrade.
Downgraded(form) ==
  CASE form = "max" -> "alt" [] form = "alt" -> "legacy" [] OTHER -> "unsupported"

\* next_step up to its first await.  A patch of a rule or of the analysis whose
\* error comes again was of no use and is not credited.
Useful_All(q, f) == q.pending
Useful(q, f) == {p \in q.pending : p.print # f}

Told(q, f) ==
  [q EXCEPT !.error = f, !.pending = Useful(q, f),
            !.again = @ \cup {a[1] : a \in {x \in q.applied : x[1] = f}}]

\* A built-in rectifier that this candidate has not seen yet and that finds
\* something to change in the body.
Repair(q, b) == [q EXCEPT !.tried = @ \cup {b}]

OnLadder(q, f) == f \in Refuses /\ q.form \notin {"", "unsupported"}

Builtin(r, f) ==
  LET q == Told(req[r], f) IN
  \/ \E b \in Early \ q.tried : Changed(r, Repair(q, b))
  \/ OnLadder(q, f) /\ Changed(r, [q EXCEPT !.form = Downgraded(@)])
  \/ ~OnLadder(q, f) /\ \E b \in Late \ q.tried : Changed(r, Repair(q, b))
  \/ /\ ~OnLadder(q, f)
     /\ Goes(r, [q EXCEPT !.at = IF q.ruleTried THEN "analyse" ELSE "find"])
     /\ UNCHANGED entry

Reject(r) ==
  /\ At(r, "try")
  /\ \E f \in Fingerprint : Builtin(r, f)
  /\ UNCHANGED <<rule, rows, edits, tested>>

\* The patch p, from the rule with the id row or from the analysis (0).
Patched(q, p, row) ==
  [q EXCEPT !.pending = @ \cup {[print |-> q.error, patch |-> p, row |-> row]},
            !.applied = {a \in @ : a[1] # q.error} \cup {<<q.error, p>>},
            !.again = @ \ {q.error}]

Used_Forgets(q) == q
Used(q) == [q EXCEPT !.ruleTried = TRUE]

\* An enabled rule for the error is used once per candidate.  It may also turn
\* out to be malformed, not to fit the body, or to change nothing.
FindRule(r) ==
  LET q == req[r]
      found == rule[q.error] # None /\ rule[q.error].enabled IN
  /\ At(r, "find")
  /\ \/ found /\ Changed(r, Patched(Used(q), rule[q.error].patch, rule[q.error].id))
     \/ /\ Goes(r, [(IF found THEN Used(q) ELSE q) EXCEPT !.at = "analyse"])
        /\ UNCHANGED entry
  /\ UNCHANGED <<rule, rows, edits, tested>>

\* The analysis of one error is asked for once per request.  It yields a patch
\* that changes the body, or nothing, and then the candidate is given up.
Analyse(r) ==
  LET q == [req[r] EXCEPT !.analyzed = @ \cup {req[r].error}] IN
  /\ At(r, "analyse")
  /\ \/ /\ req[r].error \notin req[r].analyzed
        /\ \E p \in Patch : Changed(r, Patched(q, p, 0))
     \/ Goes(r, Lost(q)) /\ UNCHANGED entry
  /\ UNCHANGED <<rule, rows, edits, tested>>

\* The upstream answered, or began to: what is pending will be credited.
Succeed(r) ==
  /\ At(r, "try")
  /\ Goes(r, [req[r] EXCEPT !.at = "settle"])
  /\ tested' = tested \cup {<<req[r].cand, req[r].form>>}
  /\ UNCHANGED <<entry, rule, rows, edits>>

\* The hit of a rule that was deleted meanwhile counts for nothing.
NoteHit(p) ==
  /\ rule' = [rule EXCEPT ![p.print] =
                IF @ # None /\ @.id = p.row THEN [@ EXCEPT !.hits = 1] ELSE @]
  /\ UNCHANGED rows

Upsert_Enables(p) ==
  \/ /\ rule[p.print] # None
     /\ rule' = [rule EXCEPT ![p.print].patch = p.patch, ![p.print].enabled = TRUE]
     /\ UNCHANGED rows
  \/ /\ rule[p.print] = None /\ rows < MaxRows
     /\ rule' = [rule EXCEPT ![p.print] =
                   [id |-> rows + 1, patch |-> p.patch, enabled |-> TRUE, hits |-> 0]]
     /\ rows' = rows + 1
\* A rule that exists keeps its id and whether it is enabled.
Upsert(p) ==
  \/ /\ rule[p.print] # None
     /\ rule' = [rule EXCEPT ![p.print].patch = p.patch]
     /\ UNCHANGED rows
  \/ /\ rule[p.print] = None /\ rows < MaxRows
     /\ rule' = [rule EXCEPT ![p.print] =
                   [id |-> rows + 1, patch |-> p.patch, enabled |-> TRUE, hits |-> 0]]
     /\ rows' = rows + 1
  \/ rows = MaxRows /\ UNCHANGED <<rule, rows>>  \* the insertion failed, or the bound

\* One record of what is pending, with the await of its write.
Settle(r) ==
  \E p \in req[r].pending :
    /\ At(r, "settle")
    /\ IF p.row = 0 THEN Upsert(p) ELSE NoteHit(p)
    /\ Goes(r, [req[r] EXCEPT !.pending = @ \ {p}])
    /\ UNCHANGED <<entry, edits, tested>>

\* note_entry_thinking_mode: the form that worked, when the snapshot has another.
NoteForm(q) ==
  entry' = IF q.form \in {"", "max", q.noted[q.cand]} THEN entry
           ELSE [entry EXCEPT ![q.cand].form = q.form]

Answer(r) ==
  /\ At(r, "settle") /\ req[r].pending = {}
  /\ NoteForm(req[r])
  /\ Goes(r, Over)
  /\ UNCHANGED <<rule, rows, edits, tested>>

Edit == edits < MaxEdits /\ edits' = edits + 1 /\ UNCHANGED <<rows, req, tested>>

\* update_rule and delete_rule of the admin API.
EditRule(f) ==
  /\ Edit
  /\ rule[f] # None
  /\ \/ \E b \in BOOLEAN : rule' = [rule EXCEPT ![f].enabled = b]
     \/ \E p \in Patch : rule' = [rule EXCEPT ![f].patch = p]
     \/ rule' = [rule EXCEPT ![f] = None]
  /\ UNCHANGED entry

\* update_entry enables or disables an entry, and keeps its thinking_mode.
EditEntry(e) ==
  /\ Edit
  /\ entry' = [entry EXCEPT ![e].enabled = ~@]
  /\ UNCHANGED rule

Step(r) ==
  \/ Start(r) \/ Choose(r) \/ Fail(r) \/ Reject(r) \/ FindRule(r) \/ Analyse(r)
  \/ Succeed(r) \/ Settle(r) \/ Answer(r)

RectifyNext ==
  \/ \E r \in Request : Step(r)
  \/ \E f \in Fingerprint : EditRule(f)
  \/ \E e \in Entry : EditEntry(e)

\* The runtime keeps polling a request.  Nothing is assumed of the operator, nor of the
\* upstreams: the bodies of a refusal (upstream/mod.rs:214) and of an analysis
\* (analyzer.rs:102) are read without a timeout.
RectifyFairness ==
  \A r \in Request : WF_rvars(Choose(r) \/ FindRule(r) \/ Settle(r) \/ Answer(r))

-----------------------------------------------------------------------------
\* What is pending is in the body of the candidate that is tried now, and the
\* error it was meant for has not come again: nothing is carried over from the
\* candidate before, whose body was another.
CreditIsEarned ==
  \A r \in Request : \A p \in req[r].pending :
    <<p.print, p.patch>> \in req[r].applied /\ p.print \notin req[r].again

\* The gateway writes the rule of an error only for a request that succeeded with
\* it after that error, and never enables what the operator disabled.
RulesAreEarned ==
  [][\A f \in Fingerprint :
       (rule'[f] # rule[f] /\ req' # req) =>
         /\ rule[f] # None => rule'[f].enabled = rule[f].enabled
         /\ \E r \in Request : \E a \in req[r].applied :
              /\ req[r].at = "settle" /\ a[1] = f /\ f \notin req[r].again
              /\ \/ rule'[f].patch = a[2]
                 \/ rule[f] # None /\ rule'[f] = [rule[f] EXCEPT !.hits = 1]]_rvars

\* The form that is noted on an entry, and that every later request starts with,
\* is one under which the upstream has answered, unless it takes no form.
NotedFormsWork ==
  \A e \in Entry :
    entry[e].form \in {"max", "alt", "legacy"} => <<e, entry[e].form>> \in tested

\* The repair of a request comes to an end whatever errors it meets, for each candidate
\* allows each step a bounded number of times: only a body that never ends keeps a
\* request, and no round of repairs goes on for ever.
RepairEnds ==
  \A r \in Request :
    /\ <>[][FALSE]_(req[r])
    /\ []<>(req[r].at \in {"idle", "try", "analyse", "done"})

\* An entry is only disabled because its upstream refused the thinking parameters
\* in the request at hand.
DisabledOnlyForThinking ==
  [][\A e \in Entry :
       (entry[e].enabled /\ ~entry'[e].enabled /\ req' # req) =>
         \E r \in Request : /\ req[r].at = "try" /\ req[r].cand = e
                            /\ req'[r].error \in Refuses]_rvars
=============================================================================

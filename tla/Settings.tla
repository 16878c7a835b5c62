-------------------------------- MODULE Settings --------------------------------
(***************************************************************************)
(* The settings row (store/mod.rs, api/admin/mod.rs and main.rs): every    *)
(* change reads it, alters it and writes it back, in two statements.       *)
(* Handlers of the gateway do so one at a time, but the command line is a  *)
(* process of its own.  A page shows the settings without the deploy       *)
(* token, and saves them later.                                            *)
(***************************************************************************)
EXTENDS Integers, FiniteSets

CONSTANTS
  Token, Options,   \* deploy_token; all the other settings
  None

SettingsAssumption == None \notin Token

VARIABLES
  settings,   \* the row: [token, options]
  form,       \* the page: what the row held when it was opened
  inGateway,  \* a change by the gateway, between its read and its write
  inShell,    \* `ufp set-deploy-token`, likewise
  rotated,    \* history: the token that was last given out or imported
  saved,      \* history: the options that were last saved or imported
  crossed     \* history: the gateway and the command line overlapped

vars == <<settings, form, inGateway, inShell, rotated, saved, crossed>>

Row == [token: Token \cup {None}, options: Options]
Nothing == [what |-> "nothing", new |-> None, got |-> None]

TypeOK ==
  /\ settings \in Row /\ form \in Row
  /\ inGateway.what \in {"nothing", "token", "options", "import"}
  /\ inShell.what \in {"nothing", "token"}
  /\ rotated \in Token \cup {None} /\ saved \in Options /\ crossed \in BOOLEAN

Init ==
  /\ settings \in [token: {None}, options: Options]
  /\ form = settings
  /\ inGateway = Nothing /\ inShell = Nothing
  /\ rotated = None /\ saved = settings.options /\ crossed = FALSE

-------------------------------------------------------------------------------
\* get_settings(): the page opens with what the row holds, without the token...
OpenForm ==
  /\ form' = settings
  /\ UNCHANGED <<settings, inGateway, inShell, rotated, saved, crossed>>

\* ... and a change begins with the row, as load_settings() reads it: of the
\* token, of the options of the page, or of a file with all.
Begin(what, new) ==
  /\ inGateway = Nothing
  /\ inGateway' = [what |-> what, new |-> new, got |-> settings]
  /\ crossed' = (crossed \/ inShell # Nothing)
  /\ UNCHANGED <<settings, form, inShell, rotated, saved>>

\* What is written back: put_settings() takes the token of the row, and
\* rotate_deploy_token() the options.
Altered_ByThePage(change) ==
  IF change.what = "token" THEN [change.got EXCEPT !.token = change.new] ELSE change.new
Altered(change) ==
  CASE change.what = "token" -> [change.got EXCEPT !.token = change.new]
    [] change.what = "options" -> [change.new EXCEPT !.token = change.got.token]
    [] change.what = "import" -> change.new

WriteBack(change) ==
  LET row == Altered(change) IN
  /\ settings' = row
  /\ rotated' = IF change.what = "options" THEN rotated ELSE row.token
  /\ saved' = IF change.what = "token" THEN saved ELSE row.options

EndInGateway ==
  /\ inGateway # Nothing
  /\ WriteBack(inGateway)
  /\ inGateway' = Nothing
  /\ UNCHANGED <<form, inShell, crossed>>

\* main.rs, set_deploy_token().
BeginInShell(t) ==
  /\ inShell = Nothing
  /\ inShell' = [what |-> "token", new |-> t, got |-> settings]
  /\ crossed' = (crossed \/ inGateway # Nothing)
  /\ UNCHANGED <<settings, form, inGateway, rotated, saved>>
EndInShell ==
  /\ inShell # Nothing
  /\ WriteBack(inShell)
  /\ inShell' = Nothing
  /\ UNCHANGED <<form, inGateway, crossed>>

Next ==
  \/ OpenForm
  \/ \E t \in Token : Begin("token", t) \/ BeginInShell(t)
  \/ \E o \in Options : Begin("options", [form EXCEPT !.options = o])
  \/ \E row \in Row : Begin("import", row)
  \/ EndInGateway \/ EndInShell

Spec == Init /\ [][Next]_vars

-------------------------------------------------------------------------------
\* admin/mod.rs:1910: the token of the row is the one that was last given out or
\* imported, and the options are those that were last saved, whatever old pages are
\* saved: unless the command line ran while the gateway wrote.
TokenIsTheLast ==
  ~crossed => settings.token = rotated /\ settings.options = saved

\* The same without the exception: not kept.
TokenIsAlwaysTheLast == settings.token = rotated
===============================================================================

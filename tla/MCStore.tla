-------------------------------- MODULE MCStore ---------------------------------
(***************************************************************************)
(* What the gateway keeps: the snapshot of the configuration that requests *)
(* are served from, on one channel with its keys and entries, and, each in *)
(* behaviours of its own, the tables behind the administration.  The parts *)
(* share no state in the modules; the variables of those that do not run   *)
(* stay Unused, and the snapshot stays as it began.                        *)
(***************************************************************************)
EXTENDS Snapshot, TLC

CONSTANTS
  c,
  Name, Route, PresetName, Home, Header, Secret, Model, MaxId, MaxEdits, MaxPending, None,
  Admin, Owner, MaxRow, MaxLayers, FirstPlace,
  JsonName, Hash, Rule,
  Label, Retention, Keep, LedgerMaxNow, MaxRequests,
  Client, Address, Word, Cookie, MaxFailures, Window, Ttl, MaxClock, MaxLogins,
  Kind, Floor, Intervals, MaxHour,
  Handler, MaxSlot, MaxChanges, Token, Options, Bundle, Broken, Upload, MaxSecond,
  Searcher, ApiKey, MaxBackend, MaxAlter, Wait, MaxInstant, Pending,
  Unused

VARIABLES
  part,
  channels, keys, entries, given, refusals, edited, applying, edits,
  places, lastRow, page,
  source, target,
  time, unsaved, details, rollups, ended, lost, backups,
  clock, password, login, failures, tokens, session, spent, logins,
  hour, interval, enabled, last, outbox, mailed, unheard,
  clients, drawn, changes, handling, admitted, backwards, settled,
  settings, form, inGateway, inShell, rotated, saved, crossed,
  token, second, spool, upload,
  instant, backends, highest, late, searcher, altered, replaced

R == INSTANCE Registry
O == INSTANCE Order
T == INSTANCE Transfer
G == INSTANCE Ledger WITH MaxNow <- LedgerMaxNow
A == INSTANCE AdminAuth
N == INSTANCE Alerter
C == INSTANCE Access
S == INSTANCE Settings
D == INSTANCE Deploy
P == INSTANCE SearchPool

ASSUME StoreAssumption ==
  /\ R!RegistryAssumption /\ O!OrderAssumption /\ T!TransferAssumption
  /\ G!LedgerAssumption /\ A!AdminAuthAssumption /\ N!AlerterAssumption
  /\ C!AccessAssumption /\ S!SettingsAssumption /\ D!DeployAssumption
  /\ P!SearchPoolAssumption

OneChannel == [x \in Key \cup Entry |-> c]

\* One pair of values serves as the tasks, the secrets, the clients and the kinds
\* of alerts and the keys of search backends, which never meet in a behaviour; another one
\* as cookies and words, and a third one as headers and hashes.
Symmetry == Permutations(Task) \cup Permutations(Cookie) \cup Permutations(Header)

-------------------------------------------------------------------------------
ofRegistry == <<channels, keys, entries, given, refusals, edited, applying, edits>>
ofOrder == <<places, lastRow, page>>
ofTransfer == <<source, target>>
ofLedger == <<time, unsaved, details, rollups, ended, lost, backups>>
ofAdminAuth == <<clock, password, login, failures, tokens, session, spent, logins>>
ofAlerter == <<hour, interval, enabled, last, outbox, mailed, unheard>>
ofAccess == <<clients, drawn, changes, handling, admitted, backwards, settled>>
ofSettings == <<settings, form, inGateway, inShell, rotated, saved, crossed>>
ofDeploy == <<token, second, spool, upload>>
ofPool == <<instant, backends, highest, late, searcher, altered, replaced>>

NoRegistry ==
  /\ channels = Unused /\ keys = Unused /\ entries = Unused /\ given = Unused
  /\ refusals = Unused /\ edited = Unused /\ applying = Unused /\ edits = Unused
NoOrder == places = Unused /\ lastRow = Unused /\ page = Unused
NoTransfer == source = Unused /\ target = Unused
NoLedger ==
  /\ time = Unused /\ unsaved = Unused /\ details = Unused /\ rollups = Unused
  /\ ended = Unused /\ lost = Unused /\ backups = Unused
NoAdminAuth ==
  /\ clock = Unused /\ password = Unused /\ login = Unused /\ failures = Unused
  /\ tokens = Unused /\ session = Unused /\ spent = Unused /\ logins = Unused
NoAlerter ==
  /\ hour = Unused /\ interval = Unused /\ enabled = Unused /\ last = Unused
  /\ outbox = Unused /\ mailed = Unused /\ unheard = Unused
NoAccess ==
  /\ clients = Unused /\ drawn = Unused /\ changes = Unused /\ handling = Unused
  /\ admitted = Unused /\ backwards = Unused /\ settled = Unused
NoSettings ==
  /\ settings = Unused /\ form = Unused /\ inGateway = Unused /\ inShell = Unused
  /\ rotated = Unused /\ saved = Unused /\ crossed = Unused
NoDeploy == token = Unused /\ second = Unused /\ spool = Unused /\ upload = Unused
NoPool ==
  /\ instant = Unused /\ backends = Unused /\ highest = Unused /\ late = Unused
  /\ searcher = Unused /\ altered = Unused /\ replaced = Unused

StoreInit ==
  /\ Init
  /\ part \in {"snapshot", "registry", "order", "transfer", "ledger", "auth", "alerts",
              "access", "settings", "deploy", "pool"}
  /\ IF part = "registry" THEN R!Init ELSE NoRegistry
  /\ IF part = "order" THEN O!Init ELSE NoOrder
  /\ IF part = "transfer" THEN T!Init ELSE NoTransfer
  /\ IF part = "ledger" THEN G!Init ELSE NoLedger
  /\ IF part = "auth" THEN A!Init ELSE NoAdminAuth
  /\ IF part = "alerts" THEN N!Init ELSE NoAlerter
  /\ IF part = "access" THEN C!Init ELSE NoAccess
  /\ IF part = "settings" THEN S!Init ELSE NoSettings
  /\ IF part = "deploy" THEN D!Init ELSE NoDeploy
  /\ IF part = "pool" THEN P!Init ELSE NoPool

others == <<ofRegistry, ofOrder, ofTransfer, ofLedger, ofAdminAuth, ofAlerter, ofAccess,
            ofSettings, ofDeploy, ofPool>>

StoreNext ==
  /\ UNCHANGED <<part, ofTransfer>>
  /\ \/ /\ part = "snapshot" /\ Next
        /\ UNCHANGED <<ofRegistry, ofOrder, ofLedger, ofAdminAuth, ofAlerter,
                     ofAccess, ofSettings, ofDeploy, ofPool>>
     \/ /\ part = "registry" /\ R!Next
        /\ UNCHANGED <<vars, ofOrder, ofLedger, ofAdminAuth, ofAlerter, ofAccess,
                     ofSettings, ofDeploy, ofPool>>
     \/ /\ part = "order" /\ O!Next
        /\ UNCHANGED <<vars, ofRegistry, ofLedger, ofAdminAuth, ofAlerter,
                     ofAccess, ofSettings, ofDeploy, ofPool>>
     \/ /\ part = "ledger" /\ G!Next
        /\ UNCHANGED <<vars, ofRegistry, ofOrder, ofAdminAuth, ofAlerter,
                     ofAccess, ofSettings, ofDeploy, ofPool>>
     \/ /\ part = "auth" /\ A!Next
        /\ UNCHANGED <<vars, ofRegistry, ofOrder, ofLedger, ofAlerter, ofAccess,
                     ofSettings, ofDeploy, ofPool>>
     \/ /\ part = "alerts" /\ N!Next
        /\ UNCHANGED <<vars, ofRegistry, ofOrder, ofLedger, ofAdminAuth, ofAccess,
                     ofSettings, ofDeploy, ofPool>>
     \/ /\ part = "access" /\ C!Next
        /\ UNCHANGED <<vars, ofRegistry, ofOrder, ofLedger, ofAdminAuth,
                     ofAlerter, ofSettings, ofDeploy, ofPool>>
     \/ /\ part = "settings" /\ S!Next
        /\ UNCHANGED <<vars, ofRegistry, ofOrder, ofLedger, ofAdminAuth,
                     ofAlerter, ofAccess, ofDeploy, ofPool>>
     \/ /\ part = "deploy" /\ D!Next
        /\ UNCHANGED <<vars, ofRegistry, ofOrder, ofLedger, ofAdminAuth,
                     ofAlerter, ofAccess, ofSettings, ofPool>>
     \/ /\ part = "pool" /\ P!Next
        /\ UNCHANGED <<vars, ofRegistry, ofOrder, ofLedger, ofAdminAuth,
                     ofAlerter, ofAccess, ofSettings, ofDeploy>>

StoreSpec == StoreInit /\ [][StoreNext]_<<part, vars, others>>

-------------------------------------------------------------------------------
\* The snapshot and the parts beside it have the state that they are declared with; of
\* the ledger and of the pool, see LogIsKept and SearchesGoInOrder.
StoreTypeOK ==
  /\ TypeOK
  /\ part = "registry" => R!TypeOK
  /\ part = "order" => O!TypeOK
  /\ part = "auth" => A!TypeOK
  /\ part = "alerts" => N!TypeOK
  /\ part = "access" => C!TypeOK
  /\ part = "settings" => S!TypeOK
  /\ part = "deploy" => D!TypeOK

\* A row stays the row it is: an import deletes and moves nothing, and a file that
\* comes back to its own database finds every row again, but for the flags that it
\* switches on and the patches that it empties (Transfer).
RowsKeepTheirPlace == part = "transfer" => T!ImportOnlyAdds /\ T!OwnFileMovesNothing

\* What a page asks for is done wholly or not at all: a preset once and over nobody's
\* changes (Registry), an order only of the rows that the page showed (Order).
PagesAreTakenWhole ==
  /\ [][part = "registry" => R!AppliedWhole]_ofRegistry
  /\ [][part = "order" => O!OrderAsShown]_ofOrder

\* Every request is counted once, in the rows or in the rollups, and a backup gives
\* way to newer ones only (Ledger).
LogIsKept ==
  /\ [](part = "ledger" => G!TypeOK /\ G!EachRequestCountsOnce)
  /\ [][part = "ledger" => G!OldestGo]_ofLedger

\* The failures of an address within a window are bounded however its logins overlap,
\* if not by the limit itself (AdminAuth); two mails of a kind are apart, and none is dropped without one (Alerter).
LimitsHold ==
  /\ part = "auth" => A!FailuresAreLimited
  /\ part = "alerts" => N!AlertsAreSpaced

\* A session is good from its login until its end (AdminAuth); a withdrawn key is
\* refused once a change was answered, but for reloads that end out of order, and a
\* key that is shown is let in (Access); no late refusal of an upstream hits a key that
\* took another's place (Registry).
AccessIsCurrent ==
  /\ part = "auth" => A!SessionsAreExact
  /\ part = "access" => C!WithdrawnIsRefused
  /\ part = "registry" => R!RefusalIsOwn

\* No page that was opened before puts an old deploy token back (Settings), and a
\* deployment installs what it came with, or what came in the same second (Deploy).
DeploymentsAreOwn ==
  /\ part = "settings" => S!TokenIsTheLast
  /\ part = "deploy" => D!DeploysAreWhole

\* A search is answered by the first backend that would answer it, and a new key is
\* not cooled by the failures of the old one (SearchPool).
SearchesGoInOrder == part = "pool" => P!TypeOK /\ P!InOrderOfPlaces /\ P!NewKeyStartsWarm
===============================================================================

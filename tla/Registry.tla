-------------------------------- MODULE Registry --------------------------------
(***************************************************************************)
(* The rows an administrator keeps (api/admin/mod.rs): channels, their     *)
(* keys and their entries, edited by handlers that each run in one closure *)
(* on the administrator's connection, beside the writer thread, whose      *)
(* refusals arrive late, and beside the preset that is applied in two      *)
(* steps: it looks whether there is a key, lets go of the database, and    *)
(* only then builds the channel, its key and its entries in a transaction. *)
(*                                                                         *)
(* Ids are those of AUTOINCREMENT: one that was given is not given again.  *)
(* An entry is its channel and its model, which are UNIQUE together.       *)
(***************************************************************************)
EXTENDS Integers, FiniteSets, FiniteSetsExt, Functions

CONSTANTS
  Name, Route,     \* names of channels; their protocols and addresses
  PresetName, Home, \* the name and the route of the preset's channel
  Header,          \* the headers that the preset brings, whatever their case
  Secret, Model,
  MaxId,           \* the bound on the ids given to channels and to keys
  MaxEdits,        \* the bound on an administrator's changes in a behaviour
  MaxPending,      \* the bound on the refusals on their way
  None

RegistryAssumption ==
  PresetName \in Name /\ Home \in Route /\ None \notin Secret /\ {MaxId, MaxEdits, MaxPending} \subseteq Nat \ {0}

VARIABLES
  channels,   \* the table: id -> row
  keys,       \* upstream_keys: id -> row; `by` is the secret whose refusal disabled it
  entries,    \* <<channel, model>>
  given,      \* sqlite_sequence: the last id given, per table
  refusals,   \* attempts that will be refused: <<key id, the secret it went with>>
  edited,     \* history: the keys whose api_key was replaced
  applying,   \* a preset that is being applied
  edits       \* the administrator's changes so far

vars == <<channels, keys, entries, given, refusals, edited, applying, edits>>

\* extra_headers, of the names that a preset brings, and client_profile: "unset"
\* and "none" are both '', as it was or as the administrator chose it.
HeaderTables == [Header -> {"absent", "user", "preset"}]
Profile == {"unset", "none", "opencode"}
ChannelRow == [name: Name, route: Route, headers: HeaderTables, profile: Profile]
KeyRow ==
  [channel: 1..MaxId, secret: Secret, enabled: BOOLEAN, status: {"ok", "disabled"},
   by: Secret \cup {None}]
Applying ==
  [at: {"idle", "checked", "done", "failed"}, secret: Secret \cup {None}, models: SUBSET Model]

TypeOK ==
  /\ DOMAIN channels \subseteq 1..given.channels /\ Range(channels) \subseteq ChannelRow
  /\ DOMAIN keys \subseteq 1..given.keys /\ Range(keys) \subseteq KeyRow
  /\ entries \subseteq (DOMAIN channels) \X Model
  /\ given \in [channels: 0..MaxId, keys: 0..MaxId]
  /\ \A k \in DOMAIN keys : keys[k].channel \in DOMAIN channels
  /\ \A c, d \in DOMAIN channels : channels[c].name = channels[d].name => c = d
  /\ refusals \subseteq (1..MaxId) \X Secret
  /\ edited \subseteq 1..MaxId
  /\ applying \in Applying
  /\ edits \in 0..MaxEdits

Idle == [at |-> "idle", secret |-> None, models |-> {}]

Init ==
  /\ channels = <<>> /\ keys = <<>> /\ entries = {}
  /\ given = [channels |-> 0, keys |-> 0]
  /\ refusals = {} /\ edited = {} /\ applying = Idle /\ edits = 0

\* INTEGER PRIMARY KEY AUTOINCREMENT: past every id that was ever given.
NextId_OfTheRows(table, last) == Max(DOMAIN table \cup {0}) + 1
NextId(table, last) == last + 1

With(f, id, row) == [x \in DOMAIN f \cup {id} |-> IF x = id THEN row ELSE f[x]]
Without(f, ids) == [x \in DOMAIN f \ ids |-> f[x]]

NameTaken(n, but) == \E c \in DOMAIN channels \ but : channels[c].name = n
KeysOf(c) == {k \in DOMAIN keys : keys[k].channel = c}
NewKey(c, s) ==
  [channel |-> c, secret |-> s, enabled |-> TRUE, status |-> "ok", by |-> None]

-------------------------------------------------------------------------------
\* The handlers.  One that breaks a constraint answers with an error and changes
\* nothing, so it is not a step.
NewChannel(n, r) ==
  [name |-> n, route |-> r, headers |-> [h \in Header |-> "absent"], profile |-> "unset"]

CreateChannel(n, r) ==
  LET id == NextId(channels, given.channels) IN
  /\ id <= MaxId /\ ~NameTaken(n, {})
  /\ channels' = With(channels, id, NewChannel(n, r))
  /\ given' = [given EXCEPT !.channels = id]
  /\ UNCHANGED <<keys, entries, refusals, edited, applying>>

\* What the administrator sends of a channel: another name and address, or headers
\* of his own, as they were, or none, and a profile, or the one there is if the form
\* leaves it out.  (Both at once are two edits of the model.)
Forms(c) ==
  LET old == channels[c] IN
  {[old EXCEPT !.name = n, !.route = r] : n \in Name, r \in Route} \cup
  {[old EXCEPT !.headers = hs, !.profile = p] :
     hs \in {t \in HeaderTables : \A h \in Header : t[h] \in {old.headers[h], "absent", "user"}},
     p \in {old.profile, "none", "opencode"}}

\* The row becomes what the form says.
UpdateChannel(c, row) ==
  /\ ~NameTaken(row.name, {c})
  /\ channels' = [channels EXCEPT ![c] = row]
  /\ UNCHANGED <<keys, entries, given, refusals, edited, applying>>

\* ON DELETE CASCADE, which PRAGMA foreign_keys turns on, takes the keys and the
\* entries along.
DeleteChannel_NoCascade(c) ==
  /\ channels' = Without(channels, {c})
  /\ UNCHANGED <<keys, entries, given, refusals, edited, applying>>
DeleteChannel(c) ==
  /\ channels' = Without(channels, {c})
  /\ keys' = Without(keys, KeysOf(c))
  /\ entries' = {e \in entries : e[1] # c}
  /\ edited' = edited \ KeysOf(c)
  /\ UNCHANGED <<given, refusals, applying>>

CreateKey(c, s) ==
  LET id == NextId(keys, given.keys) IN
  /\ id <= MaxId
  /\ keys' = With(keys, id, NewKey(c, s))
  /\ given' = [given EXCEPT !.keys = id]
  /\ UNCHANGED <<channels, entries, refusals, edited, applying>>

\* update_key() with a new api_key: the mark of a refusal stays as it is...
ReplaceSecret(k, s) ==
  /\ keys' = [keys EXCEPT ![k].secret = s]
  /\ edited' = edited \cup {k}
  /\ UNCHANGED <<channels, entries, given, refusals, applying>>

\* ... unless it, or enable_key(), turns the key on; turned off by hand, a key
\* is not marked.
TurnOn(k) ==
  /\ keys' = [keys EXCEPT ![k].enabled = TRUE, ![k].status = "ok", ![k].by = None]
  /\ UNCHANGED <<channels, entries, given, refusals, edited, applying>>
TurnOff(k) ==
  /\ keys' = [keys EXCEPT ![k].enabled = FALSE]
  /\ UNCHANGED <<channels, entries, given, refusals, edited, applying>>

DeleteKey(k) ==
  /\ keys' = Without(keys, {k})
  /\ edited' = edited \ {k}
  /\ UNCHANGED <<channels, entries, given, refusals, applying>>

CreateEntry(c, m) ==
  /\ <<c, m>> \notin entries
  /\ entries' = entries \cup {<<c, m>>}
  /\ UNCHANGED <<channels, keys, given, refusals, edited, applying>>
UpdateEntry(c, m, n) ==
  /\ <<c, n>> \notin entries
  /\ entries' = (entries \ {<<c, m>>}) \cup {<<c, n>>}
  /\ UNCHANGED <<channels, keys, given, refusals, edited, applying>>
DeleteEntry(c, m) ==
  /\ entries' = entries \ {<<c, m>>}
  /\ UNCHANGED <<channels, keys, given, refusals, edited, applying>>

\* An attempt goes out with a key and is refused; the write comes later...
Attempt(k) ==
  /\ keys[k].enabled /\ Cardinality(refusals) < MaxPending
  /\ refusals' = refusals \cup {<<k, keys[k].secret>>}
  /\ UNCHANGED <<channels, keys, entries, given, edited, applying>>

\* ... and goes by the id: a key that is gone is not found.
Refuse(k, s) ==
  /\ refusals' = refusals \ {<<k, s>>}
  /\ keys' = IF k \in DOMAIN keys
             THEN [keys EXCEPT ![k].enabled = FALSE, ![k].status = "disabled", ![k].by = s]
             ELSE keys
  /\ UNCHANGED <<channels, entries, given, edited, applying>>

-------------------------------------------------------------------------------
\* presets.rs, apply(): with no key in the form every channel it will use must
\* have one already.
AtHome == {c \in DOMAIN channels : channels[c].route = Home}
HasKey == \E c \in AtHome : KeysOf(c) # {}

Check(s, ms) ==
  /\ applying.at # "checked" /\ ms # {}
  /\ s # None \/ HasKey
  /\ applying' = [at |-> "checked", secret |-> s, models |-> ms]
  /\ UNCHANGED <<channels, keys, entries, given, refusals, edited>>

\* The channel that is claimed: the first of the preset's protocol and address,
\* or a new one.
Claimed_ByName ==
  LET named == {c \in DOMAIN channels : channels[c].name = PresetName} IN
  IF named = {} THEN NextId(channels, given.channels) ELSE Min(named)
Claimed == IF AtHome = {} THEN NextId(channels, given.channels) ELSE Min(AtHome)

\* Why the transaction is rolled back: the new channel's name is taken, or the
\* channel would have no key.
CannotApply(c) ==
  \/ c \notin DOMAIN channels /\ NameTaken(PresetName, {})
  \/ applying.secret = None /\ KeysOf(c) = {}

\* A new channel gets all that the preset has.  To one that is claimed each header is
\* added that it does not have, and the profile if it has none, whether or not
\* somebody chose that.
Preset == [name |-> PresetName, route |-> Home,
           headers |-> [h \in Header |-> "preset"], profile |-> "opencode"]

Claim_Resets(c) == Preset
Claim(c) ==
  IF c \in DOMAIN channels
  THEN [channels[c] EXCEPT
          !.headers = [h \in Header |-> IF @[h] = "absent" THEN "preset" ELSE @[h]],
          !.profile = IF @ \in {"unset", "none"} THEN "opencode" ELSE @]
  ELSE Preset

\* A key that the channel has already is not added again.
AddsKey(c) ==
  applying.secret # None /\ \A k \in KeysOf(c) : keys[k].secret # applying.secret

Build ==
  LET claimed == Claimed
      k == NextId(keys, given.keys) IN
  /\ applying.at = "checked" /\ ~CannotApply(claimed)
  /\ claimed <= MaxId /\ (AddsKey(claimed) => k <= MaxId)
  /\ channels' = With(channels, claimed, Claim(claimed))
  /\ keys' = IF AddsKey(claimed) THEN With(keys, k, NewKey(claimed, applying.secret)) ELSE keys
  /\ given' = [channels |-> Max({given.channels, claimed}),
               keys |-> IF AddsKey(claimed) THEN k ELSE given.keys]
  /\ entries' = entries \cup ({claimed} \X applying.models)
  /\ applying' = [Idle EXCEPT !.at = "done"]
  /\ UNCHANGED <<refusals, edited>>

\* The transaction was rolled back: a 500, and nothing has changed.
GiveUp ==
  /\ applying.at = "checked" /\ CannotApply(Claimed)
  /\ applying' = [Idle EXCEPT !.at = "failed"]
  /\ UNCHANGED <<channels, keys, entries, given, refusals, edited>>

Edit ==
  \/ \E n \in Name, r \in Route : CreateChannel(n, r)
  \/ \E c \in DOMAIN channels :
       \/ DeleteChannel(c)
       \/ \E row \in Forms(c) : UpdateChannel(c, row)
       \/ \E s \in Secret : CreateKey(c, s)
       \/ \E m \in Model : CreateEntry(c, m)
  \/ \E k \in DOMAIN keys :
       TurnOn(k) \/ TurnOff(k) \/ DeleteKey(k) \/ \E s \in Secret : ReplaceSecret(k, s)
  \/ \E e \in entries : DeleteEntry(e[1], e[2]) \/ \E n \in Model : UpdateEntry(e[1], e[2], n)

Attempts ==
  \/ \E k \in DOMAIN keys : Attempt(k)
  \/ \E r \in refusals : Refuse(r[1], r[2])

Apply ==
  \/ \E s \in Secret \cup {None}, ms \in SUBSET Model : Check(s, ms)
  \/ Build \/ GiveUp

Next ==
  \/ edits < MaxEdits /\ edits' = edits + 1 /\ Edit
  \/ UNCHANGED edits /\ Attempts
  \/ UNCHANGED edits /\ Apply

Spec == Init /\ [][Next]_vars

-------------------------------------------------------------------------------
\* A key that is shown as refused by the upstream was itself refused, unless its
\* secret was replaced: no late refusal hits a key that took another's place
\* (admin/mod.rs:970).
RefusalIsOwn ==
  \A k \in DOMAIN keys \ edited :
    keys[k].status = "disabled" => keys[k].by = keys[k].secret

\* presets.rs:5 and 867: applied again, a preset adds the keys, the entries and the
\* headers that are missing and builds no second channel; the headers that a channel
\* has stay, each with its value, and so do its name, its address and a profile other
\* than '', and no other channel is touched; it leaves no channel without a key, and
\* it is done wholly or not at all.
AppliedWhole ==
  /\ applying.at = "checked" /\ applying'.at = "done" =>
       /\ Cardinality(AtHome') = Max({1, Cardinality(AtHome)})
       /\ \A c \in DOMAIN channels :
            /\ channels'[c].name = channels[c].name /\ channels'[c].route = channels[c].route
            /\ \A h \in Header : channels[c].headers[h] # "absent" =>
                 channels'[c].headers[h] = channels[c].headers[h]
            /\ channels[c].profile = "opencode" => channels'[c].profile = "opencode"
            /\ c # Claimed => channels'[c] = channels[c]
       /\ \A k \in DOMAIN keys : keys'[k] = keys[k]
       /\ entries \subseteq entries'
       /\ \E c \in AtHome' :
            /\ (KeysOf(c))' # {} /\ {c} \X applying.models \subseteq entries'
            /\ \A h \in Header : channels'[c].headers[h] # "absent"
            /\ channels'[c].profile = "opencode"
  /\ applying.at = "checked" /\ applying'.at = "failed" =>
       UNCHANGED <<channels, keys, entries, given>>

ApplyIsWhole == [][AppliedWhole]_vars

\* What the comments promise, and the code does not keep.
\*
\* presets.rs:889: a profile that somebody chose is not touched: that it be none is
\* not told from that nobody chose one.
ChosenProfileStays ==
  [][applying.at = "checked" /\ applying'.at = "done" =>
       \A c \in DOMAIN channels :
         channels[c].profile = "none" => channels'[c].profile = "none"]_vars
===============================================================================

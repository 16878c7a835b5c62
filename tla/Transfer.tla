-------------------------------- MODULE Transfer --------------------------------
(***************************************************************************)
(* The configuration as a file (api/admin/mod.rs, export_all() and         *)
(* import_all()): what is written of one database and what another one     *)
(* makes of it.  The export writes a column as the JSON value that SQLite  *)
(* holds: a flag is 0 or 1, and a text that happens to be JSON is expanded *)
(* to what it says.  The import asks for Booleans and texts and takes a    *)
(* default for whatever else it finds.                                     *)
(*                                                                         *)
(* A state is two databases, and the file is that of the first.            *)
(***************************************************************************)
EXTENDS Integers, FiniteSets, FiniteSetsExt, Functions

CONSTANTS
  Name,       \* of channels and of downstream keys
  JsonName,   \* the names that are also JSON: a number, true, null
  Secret, Model, Hash, Rule,
  MaxId       \* the bound on the ids of channels

TransferAssumption == JsonName \subseteq Name /\ MaxId \in Nat \ {0}

VARIABLES source, target

Without(f, ids) == [x \in DOMAIN f \ ids |-> f[x]]
With(f, id, row) == [x \in DOMAIN f \cup {id} |-> IF x = id THEN row ELSE f[x]]

-------------------------------------------------------------------------------
(* Databases.  Channels have ids, which the rows of keys and entries refer *)
(* to; of these two tables a row is what it holds, and `on` its enabled    *)
(* flag.  Rules and downstream keys are in no need of their ids.           *)

ChannelTables ==
  {f \in UNION {[ids -> [name: Name, on: BOOLEAN]] : ids \in SUBSET (1..MaxId)} :
     \A c, d \in DOMAIN f : f[c].name = f[d].name => c = d}

AtMostOne(S) == {{}} \cup {{x} : x \in S}
KeysFor(f) == AtMostOne([channel: DOMAIN f, secret: Secret, on: BOOLEAN])
EntriesFor(f) == AtMostOne([channel: DOMAIN f, model: Model, on: BOOLEAN])

Databases ==
  UNION {[channels: {f}, keys: KeysFor(f), entries: EntriesFor(f),
          downstream: {{}}, rules: {<<>>}] : f \in ChannelTables}
    \cup [channels: {<<>>}, keys: {{}}, entries: {{}},
          downstream: AtMostOne([name: Name, hash: Hash, on: BOOLEAN]),
          rules: {<<>>} \cup [Rule -> [patch: {"edit", "none"}, on: BOOLEAN]]]

Empty == [channels |-> <<>>, keys |-> {}, entries |-> {}, downstream |-> {}, rules |-> <<>>]

Init == source \in Databases /\ target \in Databases

-------------------------------------------------------------------------------
(* The file.  sql_value_to_json(): flags are written as numbers, and of    *)
(* texts those that parse are written as what they say: a patch, which is  *)
(* JSON, always.                                                           *)

Written(on) == [type |-> "number", is |-> on]

\* as_bool() of a number is none, and the default of every enabled is true.
ReadFlag(v) == IF v.type = "bool" THEN v.is ELSE TRUE

\* as_str() of anything but a text is none: such a name reads as empty.
Named(n) == n \notin JsonName

\* as_str() of a patch that was expanded is none: no edits are left of it.
ReadPatch(p) == "none"

Export(db) ==
  [channels |-> [c \in DOMAIN db.channels |-> [db.channels[c] EXCEPT !.on = Written(@)]],
   keys |-> {[k EXCEPT !.on = Written(@)] : k \in db.keys},
   entries |-> {[e EXCEPT !.on = Written(@)] : e \in db.entries},
   downstream |-> {[d EXCEPT !.on = Written(@)] : d \in db.downstream},
   rules |-> [r \in DOMAIN db.rules |-> [db.rules[r] EXCEPT !.on = Written(@)]]]

-------------------------------------------------------------------------------
(* The import, table by table in one transaction.                          *)

IdOf(channels, n) == {c \in DOMAIN channels : channels[c].name = n}

\* Channels are upserted by name, in the order of the file; a new one gets the
\* next id.
ImportChannels_Replaces(file, db) ==
  LET step(c, f) ==
        LET row == [name |-> file.channels[c].name, on |-> ReadFlag(file.channels[c].on)] IN
        IF ~Named(row.name) THEN f
        ELSE With(Without(f, IdOf(f, row.name)), Max(DOMAIN f \cup {0}) + 1, row)
      upTo[n \in 0..MaxId] ==
        IF n = 0 THEN db.channels
        ELSE IF n \in DOMAIN file.channels THEN step(n, upTo[n - 1]) ELSE upTo[n - 1]
  IN upTo[MaxId]
ImportChannels(file, db) ==
  LET step(c, f) ==
        LET row == [name |-> file.channels[c].name, on |-> ReadFlag(file.channels[c].on)] IN
        IF ~Named(row.name) THEN f
        ELSE IF IdOf(f, row.name) # {} THEN With(f, Min(IdOf(f, row.name)), row)
        ELSE With(f, Max(DOMAIN f \cup {0}) + 1, row)
      upTo[n \in 0..MaxId] ==
        IF n = 0 THEN db.channels
        ELSE IF n \in DOMAIN file.channels THEN step(n, upTo[n - 1]) ELSE upTo[n - 1]
  IN upTo[MaxId]

\* Whose a row of the file is: the id in the row is that of the file's database,
\* and it is looked up in this one.
OwnerOf(file, channels, row) == {row.channel} \cap DOMAIN channels

\* A key that its channel has already is left as it is.
ImportKeys_Doubles(file, channels, db) ==
  db.keys \cup
    {[channel |-> x[2], secret |-> x[1].secret, on |-> ReadFlag(x[1].on)] :
       x \in {y \in file.keys \X (DOMAIN channels) : y[2] \in OwnerOf(file, channels, y[1])}}
ImportKeys(file, channels, db) ==
  db.keys \cup
    {[channel |-> x[2], secret |-> x[1].secret, on |-> ReadFlag(x[1].on)] :
       x \in {y \in file.keys \X (DOMAIN channels) :
                /\ y[2] \in OwnerOf(file, channels, y[1])
                /\ \A k \in db.keys : ~(k.channel = y[2] /\ k.secret = y[1].secret)}}

\* An entry is upserted by its channel and model.
ImportEntries(file, channels, db) ==
  LET new == {[channel |-> x[2], model |-> x[1].model, on |-> ReadFlag(x[1].on)] :
                x \in {y \in file.entries \X (DOMAIN channels) :
                         y[2] \in OwnerOf(file, channels, y[1])}}
  IN {e \in db.entries : \A n \in new : n.channel # e.channel \/ n.model # e.model} \cup new

\* Downstream keys are claimed by name; their hashes are UNIQUE, so that one that
\* was renamed breaks the transaction.
NewDownstream(file, db) ==
  {[d EXCEPT !.on = ReadFlag(@)] :
     d \in {x \in file.downstream : Named(x.name) /\ \A y \in db.downstream : y.name # x.name}}
Breaks(file, db) ==
  \E d \in NewDownstream(file, db), e \in db.downstream : d.hash = e.hash

ImportRules(file, db) ==
  [r \in DOMAIN db.rules \cup DOMAIN file.rules |->
     IF r \in DOMAIN file.rules
     THEN [patch |-> ReadPatch(file.rules[r].patch), on |-> ReadFlag(file.rules[r].on)]
     ELSE db.rules[r]]

Import(file, db) ==
  LET channels == ImportChannels(file, db) IN
  IF Breaks(file, db) THEN db
  ELSE [channels |-> channels,
        keys |-> ImportKeys(file, channels, db),
        entries |-> ImportEntries(file, channels, db),
        downstream |-> db.downstream \cup NewDownstream(file, db),
        rules |-> ImportRules(file, db)]

-------------------------------------------------------------------------------
\* A database by names instead of ids.
ByName(db) ==
  [channels |-> Range(db.channels),
   keys |-> {[name |-> db.channels[k.channel].name, secret |-> k.secret, on |-> k.on] :
               k \in db.keys},
   entries |-> {[name |-> db.channels[e.channel].name, model |-> e.model, on |-> e.on] :
                  e \in db.entries},
   downstream |-> db.downstream,
   rules |-> db.rules]

\* admin/mod.rs:2396: an import deletes nothing: every channel stays under its id,
\* every key, entry and downstream key is there with the channel it had, whatever
\* the file holds; and imported once more, the file changes nothing.
ImportOnlyAdds ==
  LET file == Export(source)
      after == Import(file, target)
  IN /\ \A c \in DOMAIN target.channels : after.channels[c].name = target.channels[c].name
     /\ target.keys \subseteq after.keys
     /\ \A e \in target.entries :
          \E f \in after.entries : f.channel = e.channel /\ f.model = e.model
     /\ target.downstream \subseteq after.downstream
     /\ DOMAIN target.rules \subseteq DOMAIN after.rules
     /\ Import(file, after) = after

\* A file that comes back to the database it was written of moves nothing: every
\* row keeps its id and its channel, and a key its flag.  It does change what the
\* rows hold, in two ways and no other: a channel, an entry and a rule that was
\* disabled is enabled again (admin/mod.rs:2395, 2490 and 2577), and the patch of a
\* rule is emptied (2575).
OwnFileMovesNothing ==
  LET after == Import(Export(source), source)
      asItWas(new, old) == new = old \/ new = [old EXCEPT !.on = TRUE]
  IN /\ DOMAIN after.channels = DOMAIN source.channels
     /\ \A c \in DOMAIN source.channels : asItWas(after.channels[c], source.channels[c])
     /\ after.keys = source.keys
     /\ \A e \in source.entries : \E f \in after.entries : asItWas(f, e)
     /\ Cardinality(after.entries) = Cardinality(source.entries)
     /\ after.downstream = source.downstream
     /\ DOMAIN after.rules = DOMAIN source.rules
     /\ \A r \in DOMAIN source.rules :
          asItWas(after.rules[r], [source.rules[r] EXCEPT !.patch = "none"])

\* What the comments promise, and the code does not keep.
\*
\* admin/mod.rs:2360: an import goes by names and harms no data that are there: with
\* the database's own file nothing is left to do.
OwnFileChangesNothing == Import(Export(source), source) = source

\* admin/mod.rs:2395: an import goes by names: a key that it adds is added to the
\* channel of the name that it had.
KeysFollowNames ==
  LET after == Import(Export(source), target) IN
  \A k \in after.keys \ target.keys :
    \E j \in source.keys :
      /\ j.secret = k.secret
      /\ source.channels[j.channel].name = after.channels[k.channel].name

\* admin/mod.rs:2338: what was exported is what an empty database holds after the
\* import.
BackupRestores == ByName(Import(Export(source), Empty)) = ByName(source)
===============================================================================

--------------------------------- MODULE Deploy ---------------------------------
(***************************************************************************)
(* The deployments that CI sends (api/admin/mod.rs, deploy() and           *)
(* trigger_apply()): one is let in by the token as the database has it,    *)
(* its body is compared with the hash it came with, written to a file that *)
(* is named after the second, and handed to a script, which compares the   *)
(* file with the hash of the body and unpacks it.  Nothing keeps two of    *)
(* them apart.                                                             *)
(***************************************************************************)
EXTENDS Integers, FiniteSets, Functions

CONSTANTS
  Token,            \* deploy_token
  Bundle,           \* the archives that CI sends
  Broken,           \* what half a write makes of a file
  Upload,           \* slots for the deployments
  MaxSecond,        \* the bound on the clock of the names
  None

DeployAssumption == Broken \notin Bundle /\ None \notin Token \cup Bundle /\ MaxSecond \in Nat

VARIABLES
  token,    \* of the settings row: empty, or rotated at any time
  second,   \* the clock
  spool,    \* DEPLOY_SPOOL: second -> content
  upload    \* deployments, the script included

vars == <<token, second, spool, upload>>

Waiting ==
  [at |-> "waiting", told |-> None, body |-> None, file |-> 0, put |-> None]

TypeOK ==
  /\ token \in Token \cup {None}
  /\ second \in 0..MaxSecond
  /\ DOMAIN spool \subseteq 0..second /\ Range(spool) \subseteq Bundle \cup {Broken}
  /\ \A u \in Upload :
       /\ upload[u].at \in {"waiting", "writing", "written", "checked", "installed", "failed"}
       /\ upload[u].put \in Bundle \cup {None}

Init ==
  /\ token = None
  /\ second = 0 /\ spool = <<>>
  /\ upload = [u \in Upload |-> Waiting]

With(f, id, row) == [x \in DOMAIN f \cup {id} |-> IF x = id THEN row ELSE f[x]]

-------------------------------------------------------------------------------
\* rotate_deploy_token(), set_deploy_token().
Rotate(t) ==
  /\ token' = t
  /\ UNCHANGED <<second, spool, upload>>

\* current_deploy_token(): the row is read anew for each deployment.
LetIn(t) == token # None /\ t = token

\* deploy(): the body must be the archive whose hash the header tells.
Accepts_AnyBody(told, body) == TRUE
Accepts(told, body) == body = told

\* The token was read from the database, and the file is begun: it is truncated
\* first.
Receive(u, t, told, body) ==
  /\ upload[u].at = "waiting" /\ LetIn(t) /\ Accepts(told, body)
  /\ upload' = [upload EXCEPT ![u] = [at |-> "writing", told |-> told, body |-> body,
                                      file |-> second, put |-> None]]
  /\ spool' = With(spool, second, Broken)
  /\ UNCHANGED <<second, token>>

\* The file is written, whole unless another deployment writes to it, too, and
\* trigger_apply() starts the script, or there is neither sudo nor doas.
Rivals(u) == {v \in Upload \ {u} : upload[v].at # "waiting" /\ upload[v].file = upload[u].file}

Write(u, triggered) ==
  /\ upload[u].at = "writing"
  /\ \E content \in {upload[u].body} \cup (IF Rivals(u) = {} THEN {} ELSE {Broken}) :
       spool' = With(spool, upload[u].file, content)
  /\ upload' = [upload EXCEPT ![u].at = IF triggered THEN "written" ELSE "failed"]
  /\ UNCHANGED <<second, token>>

\* ufp-apply-deploy: the hash of the file is that of the body...
CheckFile(u) ==
  /\ upload[u].at = "written"
  /\ upload' = [upload EXCEPT ![u].at =
                  IF spool[upload[u].file] = upload[u].body THEN "checked" ELSE "failed"]
  /\ UNCHANGED <<second, spool, token>>

\* ... and the file is unpacked; one that is broken is no archive to tar.
Unpack(u) ==
  LET content == spool[upload[u].file] IN
  /\ upload[u].at = "checked"
  /\ upload' = [upload EXCEPT ![u].at = IF content = Broken THEN "failed" ELSE "installed",
                              ![u].put = IF content = Broken THEN None ELSE content]
  /\ UNCHANGED <<second, spool, token>>

TickSecond ==
  /\ second < MaxSecond
  /\ second' = second + 1
  /\ UNCHANGED <<spool, upload, token>>

Next ==
  \/ \E u \in Upload :
       \/ \E t \in Token, told, body \in Bundle : Receive(u, t, told, body)
       \/ \E triggered \in BOOLEAN : Write(u, triggered)
       \/ CheckFile(u) \/ Unpack(u)
  \/ \E t \in Token : Rotate(t)
  \/ TickSecond

Spec == Init /\ [][Next]_vars

-------------------------------------------------------------------------------
\* admin/mod.rs:2116: what a deployment installs is the archive whose hash it came
\* with, unless another one came in the same second, and then it is the one or the
\* other.
DeploysAreWhole ==
  \A u \in Upload : upload[u].at = "installed" =>
    upload[u].put \in {upload[v].told : v \in Rivals(u) \cup {u}}
===============================================================================

-------------------------------- MODULE AdminAuth -------------------------------
(***************************************************************************)
(* Who may use the administration (api/admin/session.rs and the login of   *)
(* api/admin/mod.rs).  A login asks the limiter, awaits the database for   *)
(* the password's hash, and only then notes a failure or issues a session, *)
(* so that logins from one address run beside one another, beside logouts, *)
(* a change of the password, and restarts, which forget it all.            *)
(***************************************************************************)
EXTENDS Integers, FiniteSets, FiniteSetsExt, Functions

CONSTANTS
  Client,       \* logins in flight
  Address,      \* client_ip()
  Word,         \* passwords
  Cookie,       \* session tokens, each issued at most once
  MaxFailures,  \* LOGIN_MAX_FAILURES
  Window,       \* LOGIN_WINDOW
  Ttl,          \* admin_session_hours
  MaxClock,     \* the bound on the clock
  MaxLogins,    \* the bound on the logins
  None

AdminAuthAssumption ==
  /\ {MaxFailures, Window, Ttl, MaxClock, MaxLogins} \subseteq Nat \ {0}
  /\ None \notin Word /\ IsFiniteSet(Client)

VARIABLES
  clock,
  password,   \* the admin table
  login,      \* a login or a change of the password: where it is, and the hash it read
  failures,   \* Sessions::failures: address -> how many, and since when
  tokens,     \* Sessions::tokens: cookie -> when it expires
  session,    \* history: the sessions in force, cookie -> when they expire
  spent,      \* history: the cookies issued
  logins      \* the logins so far

vars == <<clock, password, login, failures, tokens, session, spent, logins>>

Quiet == [at |-> "quiet", from |-> None, word |-> None, new |-> None, read |-> None]

TypeOK ==
  /\ clock \in 0..MaxClock /\ password \in Word
  /\ login \in [Client -> [at: {"quiet", "asked", "verifying", "changing"},
                           from: Address \cup {None}, word: Word \cup {None},
                           new: Word \cup {None}, read: Word \cup {None}]]
  /\ DOMAIN failures \subseteq Address
  /\ \A a \in DOMAIN failures : failures[a] \in [n: Nat, since: 0..MaxClock]
  /\ DOMAIN tokens \subseteq spent /\ spent \subseteq Cookie
  /\ logins \in 0..MaxLogins

Init ==
  /\ clock = 0 /\ password \in Word
  /\ login = [c \in Client |-> Quiet]
  /\ failures = <<>> /\ tokens = <<>> /\ session = <<>>
  /\ spent = {} /\ logins = 0

With(f, x, v) == [y \in DOMAIN f \cup {x} |-> IF y = x THEN v ELSE f[y]]
Without(f, x) == [y \in DOMAIN f \ {x} |-> f[y]]

-------------------------------------------------------------------------------
\* Sessions::too_many(): past the limit, and the window is not over.
TooMany_Elsewhen(a) ==
  a \in DOMAIN failures /\ failures[a].n > MaxFailures /\ clock - failures[a].since > Window
TooMany(a) ==
  a \in DOMAIN failures /\ failures[a].n > MaxFailures /\ clock - failures[a].since <= Window

\* Sessions::note_failure(): a window that is over begins anew.
Noted(a) ==
  IF a \in DOMAIN failures /\ clock - failures[a].since <= Window
  THEN [failures[a] EXCEPT !.n = @ + 1]
  ELSE [n |-> 1, since |-> clock]

\* Sessions::issue() sweeps what is expired.
Issued_Sweeps(t) ==
  With([x \in {y \in DOMAIN tokens : tokens[y] <= clock + 1} |-> tokens[x]], t, clock + Ttl)
Issued(t) ==
  With([x \in {y \in DOMAIN tokens : tokens[y] > clock} |-> tokens[x]], t, clock + Ttl)

\* Sessions::valid().
Valid(t) == t \in DOMAIN tokens /\ tokens[t] > clock

\* A login that the limiter lets pass awaits the hash...
Login(c, a, w) ==
  /\ login[c] = Quiet /\ logins < MaxLogins /\ ~TooMany(a)
  /\ login' = [login EXCEPT ![c] = [Quiet EXCEPT !.at = "asked", !.from = a, !.word = w]]
  /\ logins' = logins + 1
  /\ UNCHANGED <<clock, password, failures, tokens, session, spent>>

\* change_password(), behind a session that is valid when it begins.
ChangePassword(c, t, w, new) ==
  /\ login[c] = Quiet /\ logins < MaxLogins /\ Valid(t)
  /\ login' = [login EXCEPT ![c] = [Quiet EXCEPT !.at = "asked", !.word = w, !.new = new]]
  /\ logins' = logins + 1
  /\ UNCHANGED <<clock, password, failures, tokens, session, spent>>

Read(c) ==
  /\ login[c].at = "asked"
  /\ login' = [login EXCEPT ![c].at = "verifying", ![c].read = password]
  /\ UNCHANGED <<clock, password, failures, tokens, session, spent, logins>>

\* ... and goes by the hash that it read.
Fail(c) ==
  /\ login[c].at = "verifying" /\ login[c].word # login[c].read
  /\ login' = [login EXCEPT ![c] = Quiet]
  /\ failures' = IF login[c].new = None
                 THEN With(failures, login[c].from, Noted(login[c].from)) ELSE failures
  /\ UNCHANGED <<clock, password, tokens, session, spent, logins>>

Succeed(c, t) ==
  /\ login[c].at = "verifying" /\ login[c].new = None /\ login[c].word = login[c].read
  /\ t \notin spent
  /\ login' = [login EXCEPT ![c] = Quiet]
  /\ failures' = Without(failures, login[c].from)
  /\ tokens' = Issued(t)
  /\ session' = With(session, t, clock + Ttl)
  /\ spent' = spent \cup {t}
  /\ UNCHANGED <<clock, password, logins>>

Change(c) ==
  /\ login[c].at = "verifying" /\ login[c].new # None /\ login[c].word = login[c].read
  /\ login' = [login EXCEPT ![c] = Quiet]
  /\ password' = login[c].new
  /\ UNCHANGED <<clock, failures, tokens, session, spent, logins>>

\* Sessions::revoke().
Logout(t) ==
  /\ tokens' = Without(tokens, t)
  /\ session' = Without(session, t)
  /\ UNCHANGED <<clock, password, login, failures, spent, logins>>

Tick ==
  /\ clock < MaxClock
  /\ clock' = clock + 1
  /\ UNCHANGED <<password, login, failures, tokens, session, spent, logins>>

\* Everything but the password is in memory.
Restart ==
  /\ login' = [c \in Client |-> Quiet]
  /\ failures' = <<>> /\ tokens' = <<>> /\ session' = <<>>
  /\ UNCHANGED <<clock, password, spent, logins>>

Next ==
  \/ \E c \in Client :
       \/ \E a \in Address, w \in Word : Login(c, a, w)
       \/ \E t \in DOMAIN tokens, w, new \in Word : ChangePassword(c, t, w, new)
       \/ Read(c) \/ Fail(c) \/ Change(c) \/ \E t \in Cookie : Succeed(c, t)
  \/ \E t \in DOMAIN tokens : Logout(t)
  \/ Tick \/ Restart

Spec == Init /\ [][Next]_vars

-------------------------------------------------------------------------------
\* Whatever the sweeps of other logins, a session is good from its login until its
\* end, its logout or a restart, and no longer (session.rs:4).
SessionsAreExact ==
  \A t \in Cookie : Valid(t) <=> t \in DOMAIN session /\ session[t] > clock

\* How far the limit of session.rs:17 is passed, and no further, however the logins
\* of an address overlap: by one in any case, as too_many() refuses beyond the limit
\* and not at it (session.rs:78 and 93), and by the logins that were let in before
\* that one had failed, which are fewer than the clients.
FailuresAreLimited ==
  \A a \in DOMAIN failures : failures[a].n <= MaxFailures + Cardinality(Client)

\* What the comments promise, and the code does not keep.
\*
\* session.rs:17: so many failures an address has in a minute, and no more.
FailuresStayWithinLimit == \A a \in DOMAIN failures : failures[a].n <= MaxFailures
===============================================================================

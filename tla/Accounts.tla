-------------------------------- MODULE Accounts --------------------------------
(***************************************************************************)
(* Accounts, sessions and the login budget of the manager                  *)
(* (app/security_store.py:50-81, 589-1162, app/security.py:31-73,           *)
(* app/main.py:1072-1389).                                                 *)
(*                                                                         *)
(* Endpoints are served by threads and every function opens a connection of *)
(* its own.  A SELECT is a transaction by itself; only the first write of a*)
(* connection begins one that lasts to the commit.  So what a function read*)
(* may be out of date when it writes, and every step below is one SELECT or*)
(* one write transaction.  Passwords take a while to verify; that happens  *)
(* between two steps and depends on the row read only.                     *)
(*                                                                         *)
(* Left out: names, preferences, the event log, and who may see what.      *)
(***************************************************************************)
EXTENDS Integers, FiniteSets

CONSTANTS
  User,                \* ids of accounts; AUTOINCREMENT never gives one twice
  Req,                 \* requests
  Offered,             \* kinds each request may be of
  Teams,               \* sets of requests that come in one behaviour
  After,               \* requests alike, in the order they come
  Tries,               \* passwords each login may try
  Starts,              \* accounts at first, and the session of some of them
  Word, Fresh,         \* passwords, one that is set anew
  Source,              \* the address all logins come from
  SourceLimit,         \* LOGIN_RATE_MAX_PER_IP
  PairLimit,           \* LOGIN_RATE_MAX_PER_IP_USER
  Window, Block,       \* LOGIN_RATE_WINDOW_SECONDS, LOGIN_RATE_BLOCK_SECONDS
  TTL, Idle,           \* life of a session, idle time it outlives
  Patience,            \* bound on the clock while a request has yet to end
  Restarts,            \* bound on the restarts of the process
  Overlap              \* whether changes of accounts overlap each other

None == "none"
AdminKinds == {"create", "update", "delete", "password", "reset"}
OwnKinds == {"own", "setup", "confirm", "disable", "regenerate"}
Changes == AdminKinds \cup OwnKinds \cup {"recover"}
Kinds == Changes \cup {"login", "check", "logout"}
Roles == {"admin", "user"}

Gone == [role |-> None, enabled |-> FALSE, pass |-> None, must |-> FALSE,
         on |-> FALSE, secret |-> None, codes |-> {}]
Unborn == [Gone EXCEPT !.role = "unborn"]
Sid == Req \cup User   \* a session is named by its login

ASSUME AccountAssumption ==
  /\ User \cap Req = {} /\ Source \notin User /\ None \notin User \cup Req \cup Word
  /\ Offered \in [Req -> SUBSET Kinds] /\ Teams \subseteq SUBSET Req
  /\ After \in [Req -> SUBSET Req] /\ Tries \in [Req -> SUBSET Word]
  /\ \A a \in Starts : DOMAIN a.account = User /\ DOMAIN a.session \subseteq User
  /\ Fresh \in Word
ASSUME TimeAssumption ==
  /\ {SourceLimit, PairLimit, Window, Block, TTL, Idle} \subseteq Nat \ {0}
  /\ Idle <= TTL /\ Restarts \in Nat /\ Overlap \in BOOLEAN
  /\ Patience \in [Req -> Nat]

\* Secrets and recovery codes are named by the request that made them, but for
\* those there at first.  A row there is has a role.
Secret == Req \cup {None} \cup {a.account[u].secret : a \in Starts, u \in User}
Code == Req \cup UNION {a.account[u].codes : a \in Starts, u \in User}
Account == [role : Roles \cup {None, "unborn"}, enabled : BOOLEAN, pass : Word \cup {None},
            must : BOOLEAN, on : BOOLEAN, secret : Secret, codes : SUBSET Code]
Want == [role : Roles, enabled : BOOLEAN, pass : {Fresh, None}, must : BOOLEAN]
SomeAccount(a) == a \in {Gone, Unborn} \/ (a \in Account /\ a.role \in Roles)
Session == [user : User, expires : Int, seen : Int, token : BOOLEAN]

\* At first there is an administrator who can sign in, whoever has a second
\* factor has its secret, and sessions belong to accounts.
ASSUME StartAssumption ==
  \A a \in Starts :
    /\ \A u \in User : SomeAccount(a.account[u]) /\ (a.account[u].on => a.account[u].secret # None)
    /\ \E u \in User : a.account[u].role = "admin" /\ a.account[u].enabled
    /\ a.account \in [User -> Account] /\ a.session \in [DOMAIN a.session -> Session]
    /\ \A s \in DOMAIN a.session : a.account[a.session[s].user] \notin {Gone, Unborn}

VARIABLES
  account,             \* rows of users
  session,             \* rows of sessions; token: it has a reload token
  bucket,              \* rows of login_rate_limits
  clock, restarts,
  pc, row,             \* of every request: where it is, what it asked and read
  admitted,            \* history: logins let through per bucket since it was reset
  paused,              \* history: when the last one refused was told to come again
  outdated             \* history: sign-ins of before a change that ends sessions

history == <<admitted, paused, outdated>>
vars == <<account, session, bucket, clock, restarts, pc, row, history>>

NoSession == [user |-> None, expires |-> 0, seen |-> 0, token |-> FALSE]
Bucket == User \cup {Source}
NoBucket == [start |-> -Window, attempts |-> 0, until |-> 0]
NoWant == [role |-> "user", enabled |-> TRUE, pass |-> None, must |-> FALSE]
NoRow == [kind |-> None, user |-> None, acct |-> Gone, word |-> None, code |-> None, want |-> NoWant,
          sid |-> None, seen |-> 0, now |-> 0]

Exists(u) == account[u] \notin {Gone, Unborn}
ActiveAdmin(u) == account[u].role = "admin" /\ account[u].enabled
InProgress(r) == pc[r] \notin {"new", "done", "lost"}
Goto(r, where) == pc' = [pc EXCEPT ![r] = where]
End(r) == Goto(r, "done") /\ row' = [row EXCEPT ![r] = NoRow]
SessionsOf(u) == {s \in Sid : session[s].user = u}
Without(S) == [s \in Sid |-> IF s \in S THEN NoSession ELSE session[s]]

Ask(r, what) ==
  pc[r] = "new" /\ what \in Offered[r] /\ \A o \in After[r] : pc[o] # "new"

Init ==
  /\ \E start \in Starts :
       /\ account = start.account
       /\ session = [s \in Sid |-> IF s \in DOMAIN start.session THEN start.session[s] ELSE NoSession]
  /\ bucket = [b \in Bucket |-> NoBucket]
  /\ clock = 0 /\ restarts = 0
  /\ \E team \in Teams : pc = [r \in Req |-> IF r \in team THEN "new" ELSE "done"]
  /\ row = [r \in Req |-> NoRow]
  /\ admitted = [b \in Bucket |-> {}]
  /\ paused = [b \in Bucket |-> 0] /\ outdated = {}

-----------------------------------------------------------------------------
(* The login budget.  A row that is older than every window and block counts*)
(* like no row, so deleting such rows changes nothing.                     *)

LimitOf(b) == IF b = Source THEN SourceLimit ELSE PairLimit
NewWindow(b) == clock - bucket[b].start >= Window
Attempts(b) == IF NewWindow(b) THEN 0 ELSE bucket[b].attempts
Blocked(b) == bucket[b].until > clock

Exhausted(b) == Attempts(b) >= LimitOf(b)

\* Mutant: a refusal counts no pause.
ConsumedWithoutPause(b) ==
  [start |-> IF NewWindow(b) THEN clock ELSE bucket[b].start,
   attempts |-> IF Exhausted(b) THEN Attempts(b) ELSE Attempts(b) + 1, until |-> 0]

Consumed(b) ==
  LET start == IF NewWindow(b) THEN clock ELSE bucket[b].start IN
  IF Blocked(b) THEN bucket[b]
  ELSE IF Exhausted(b)
       THEN [start |-> start, attempts |-> Attempts(b), until |-> clock + Block]
       ELSE [start |-> start, attempts |-> Attempts(b) + 1, until |-> 0]

\* What Retry-After tells of a bucket, as a time; past if it lets the login pass.
RetryAt(b) ==
  IF Blocked(b) THEN bucket[b].until ELSE IF Exhausted(b) THEN clock + Block ELSE 0

\* consume_login_attempt, under BEGIN IMMEDIATE: the address and the pair of
\* address and name both count the login, also if the other one refuses it.
Login(r, u, word, code) ==
  LET B == {Source, u}
      allowed == \A b \in B : ~Blocked(b) /\ ~Exhausted(b)
  IN /\ Ask(r, "login")
     /\ bucket' = [b \in Bucket |-> IF b \in B THEN Consumed(b) ELSE bucket[b]]
     /\ paused' = [b \in Bucket |-> IF b \in B /\ RetryAt(b) > 0 THEN RetryAt(b) ELSE paused[b]]
     /\ IF allowed
        THEN /\ admitted' = [b \in Bucket |-> admitted[b] \cup (IF b \in B THEN {<<r, clock>>} ELSE {})]
             /\ row' = [row EXCEPT ![r] = [NoRow EXCEPT !.kind = "login", !.user = u, !.word = word, !.code = code]]
             /\ Goto(r, "verify")
        ELSE Goto(r, "done") /\ UNCHANGED <<admitted, row>>
     /\ UNCHANGED <<account, session, clock, restarts, outdated>>

\* authenticate_user: the SELECT and what follows from its row alone.
SecondFactor(a, code) ==
  \/ ~a.on
  \/ a.secret # None /\ code \in {"totp"} \cup a.codes
Verify(r) ==
  LET a == account[row[r].user] IN
  /\ pc[r] = "verify"
  /\ IF a.enabled /\ a.pass = row[r].word /\ SecondFactor(a, row[r].code)
     THEN row' = [row EXCEPT ![r].acct = a] /\ Goto(r, "accept")
     ELSE End(r)
  /\ outdated' = outdated \ {r}
  /\ UNCHANGED <<account, session, bucket, clock, restarts, admitted, paused>>

\* A recovery code that was used leaves the list that was read, and that list
\* replaces the one stored by now.
CodesAfter(r) ==
  IF row[r].acct.on /\ row[r].code \in row[r].acct.codes
  THEN row[r].acct.codes \ {row[r].code} ELSE account[row[r].user].codes
Accept(r) ==
  /\ pc[r] = "accept"
  /\ account' = IF Exists(row[r].user)
                THEN [account EXCEPT ![row[r].user].codes = CodesAfter(r)] ELSE account
  /\ Goto(r, "clear")
  /\ row' = [row EXCEPT ![r] = [NoRow EXCEPT !.kind = "login", !.user = row[r].user]]
  /\ UNCHANGED <<session, bucket, clock, restarts, history>>

\* reset_login_rate_limit: the address keeps its count.
ClearPair(r) ==
  LET u == row[r].user IN
  /\ pc[r] = "clear"
  /\ bucket' = [bucket EXCEPT ![u] = NoBucket]
  /\ admitted' = [admitted EXCEPT ![u] = {}] /\ paused' = [paused EXCEPT ![u] = 0]
  /\ Goto(r, "session")
  /\ UNCHANGED <<account, session, clock, restarts, row, outdated>>

\* Mutant: the foreign key is not enforced.
KnownAnyway(u) == account[u] # Unborn

\* The foreign key of sessions: the account must still be there.
Known(u) == Exists(u)

CreateSession(r) ==
  LET u == row[r].user IN
  /\ pc[r] = "session"
  /\ IF Known(u)
     THEN /\ session' = [session EXCEPT ![r] = [user |-> u, expires |-> clock + TTL,
                                                seen |-> clock, token |-> FALSE]]
          /\ Goto(r, "token") /\ UNCHANGED row
     ELSE End(r) /\ UNCHANGED session
  /\ UNCHANGED <<account, bucket, clock, restarts, history>>

\* create_session_reload_token; without the session the login fails after all.
CreateToken(r) ==
  /\ pc[r] = "token"
  /\ session' = IF session[r] = NoSession THEN session ELSE [session EXCEPT ![r].token = TRUE]
  /\ End(r)
  /\ UNCHANGED <<account, bucket, clock, restarts, history>>

-----------------------------------------------------------------------------
(* Sessions.                                                               *)

Expired(s) == session[s].expires < clock \/ clock - session[s].seen > Idle

\* What a request needs of the account its session belongs to.
MayAsk(what, u, target, want) ==
  LET a == account[u] IN
  /\ what \in AdminKinds => a.role = "admin" /\ ~a.must
  /\ what \in OwnKinds => target = u

\* Mutant: an administrator may delete the own account.
OwnRefusedForUpdates(what, u, target, want) ==
  what = "update" /\ target = u /\ (want.role # account[u].role \/ ~want.enabled)

\* Nobody deletes, disables or demotes the own account.
OwnRefused(what, u, target, want) ==
  /\ target = u
  /\ \/ what = "delete"
     \/ what = "update" /\ (want.role # account[u].role \/ ~want.enabled)

\* get_session_user and get_session_user_by_reload_token: one SELECT decides.
\* The cookie's session is touched if it was seen some time ago.
Authenticate(r, s, via, what, target, word, want) ==
  LET u == session[s].user
      begins == [NoRow EXCEPT !.kind = what, !.user = target, !.word = word, !.want = want]
      next == IF what = "check" THEN "done" ELSE "look"
  IN /\ Ask(r, what) /\ session[s] # NoSession
     /\ via = "reload" => session[s].token
     /\ Overlap \/ what = "check" \/ \A o \in Req : row[o].kind \notin Changes
     /\ IF account[u].enabled /\ Expired(s)
        THEN Goto(r, "drop") /\ row' = [row EXCEPT ![r] = [NoRow EXCEPT !.kind = what, !.sid = s]]
        ELSE IF ~account[u].enabled \/ ~MayAsk(what, u, target, want)
                \/ OwnRefused(what, u, target, want)
        THEN Goto(r, "done") /\ UNCHANGED row
        ELSE IF via = "cookie" /\ clock > session[s].seen
        THEN /\ Goto(r, "touch")
             /\ row' = [row EXCEPT ![r] = [begins EXCEPT !.sid = s, !.seen = session[s].seen, !.now = clock]]
        ELSE /\ Goto(r, next)
             /\ IF next = "done" THEN UNCHANGED row ELSE row' = [row EXCEPT ![r] = begins]
     /\ UNCHANGED <<account, session, bucket, clock, restarts, history>>

\* UPDATE ... WHERE id=? AND last_seen_at=?
Touched(r) ==
  IF session[row[r].sid] # NoSession /\ session[row[r].sid].seen = row[r].seen
  THEN [session EXCEPT ![row[r].sid].seen = row[r].now] ELSE session

\* A busy database skips the touch, and the request goes on.
Touch(r) ==
  /\ pc[r] = "touch"
  /\ session' \in {session, Touched(r)}
  /\ IF row[r].kind = "check" THEN End(r)
     ELSE Goto(r, "look") /\ row' = [row EXCEPT ![r].sid = None, ![r].seen = 0, ![r].now = 0]
  /\ UNCHANGED <<account, bucket, clock, restarts, history>>

\* An expired session is deleted, unless the database is busy.
Drop(r) ==
  /\ pc[r] = "drop"
  /\ session' \in {session, Without({row[r].sid})}
  /\ End(r)
  /\ UNCHANGED <<account, bucket, clock, restarts, history>>

\* revoke_session, with the cookie or the reload token.
Logout(r, s) ==
  /\ Ask(r, "logout") /\ session[s] # NoSession
  /\ session' = Without({s})
  /\ Goto(r, "done")
  /\ UNCHANGED <<account, bucket, clock, restarts, row, history>>

-----------------------------------------------------------------------------
(* Changes of accounts: look, count, look again, write, revoke.            *)

\* The recovery command of the console needs no session.
Recover(r, target, want) ==
  /\ Ask(r, "recover")
  /\ Overlap \/ \A o \in Req : row[o].kind \notin Changes
  /\ row' = [row EXCEPT ![r] = [NoRow EXCEPT !.kind = "recover", !.user = target, !.want = want]]
  /\ Goto(r, "look")
  /\ UNCHANGED <<account, session, bucket, clock, restarts, history>>

Demotes(r) == row[r].want.role # "admin" \/ ~row[r].want.enabled
NeedsCount(r, a) ==
  \/ row[r].kind = "delete" /\ a.role = "admin"
  \/ row[r].kind = "update" /\ a.role = "admin" /\ a.enabled /\ Demotes(r)
NeedsPassword == {"own", "setup", "disable", "regenerate"}

\* The first SELECT of the row, if the kind has one.
Look(r) ==
  LET a == account[row[r].user] IN
  /\ pc[r] = "look"
  /\ IF row[r].kind \in {"create", "password"}
     THEN Goto(r, "write") /\ UNCHANGED row
     ELSE IF \/ ~Exists(row[r].user) /\ row[r].kind # "recover"
             \/ row[r].kind \in NeedsPassword /\ a.pass # row[r].word
             \/ row[r].kind = "confirm" /\ a.secret = None
     THEN End(r)
     ELSE /\ row' = [row EXCEPT ![r].acct = a]
          /\ Goto(r, IF NeedsCount(r, a) THEN "count"
                     ELSE IF row[r].kind \in {"setup", "disable", "regenerate"} THEN "look-again"
                     ELSE "write")
  /\ UNCHANGED <<account, session, bucket, clock, restarts, history>>

\* A deletion counts the disabled administrators as well.
Count(r) ==
  /\ pc[r] = "count"
  /\ IF Cardinality({u \in User : IF row[r].kind = "delete" THEN account[u].role = "admin"
                                  ELSE ActiveAdmin(u)}) <= 1
     THEN End(r) ELSE Goto(r, "write") /\ UNCHANGED row
  /\ UNCHANGED <<account, session, bucket, clock, restarts, history>>

\* The functions that verified the password on a connection of its own.
LookAgain(r) ==
  LET a == account[row[r].user] IN
  /\ pc[r] = "look-again"
  /\ IF \/ ~Exists(row[r].user)
        \/ row[r].kind = "setup" /\ a.on
        \/ row[r].kind = "regenerate" /\ ~SecondFactor(a, "totp")
     THEN End(r)
     ELSE row' = [row EXCEPT ![r].acct = a] /\ Goto(r, "write")
  /\ UNCHANGED <<account, session, bucket, clock, restarts, history>>

\* What an UPDATE writes over the row as it is by now.
Written(r, a) ==
  LET w == row[r].want IN
  CASE row[r].kind = "update" -> [a EXCEPT !.role = w.role, !.enabled = w.enabled]
    [] row[r].kind = "password" -> [a EXCEPT !.pass = w.pass, !.must = w.must]
    [] row[r].kind = "own" -> [a EXCEPT !.pass = w.pass, !.must = FALSE]
    [] row[r].kind = "setup" -> [a EXCEPT !.on = FALSE, !.secret = r, !.codes = {r}]
    [] row[r].kind = "confirm" -> [a EXCEPT !.on = TRUE]
    [] row[r].kind \in {"disable", "reset"} -> [a EXCEPT !.on = FALSE, !.secret = None, !.codes = {}]
    [] row[r].kind = "regenerate" -> [a EXCEPT !.codes = {r}]
    [] row[r].kind = "recover" ->
         [a EXCEPT !.pass = w.pass, !.must = TRUE, !.enabled = TRUE,
                   !.role = IF w.role = "admin" THEN "admin" ELSE row[r].acct.role]

\* What an INSERT writes; a recovery of an account that was not there makes one.
Inserted(r) ==
  [Gone EXCEPT !.role = row[r].want.role, !.enabled = TRUE, !.pass = row[r].want.pass,
               !.must = (row[r].kind = "recover") \/ row[r].want.must]
Inserts(r) ==
  row[r].kind = "create" \/ (row[r].kind = "recover" /\ row[r].acct \in {Gone, Unborn})

\* Mutant: the sessions end when an account is enabled.
EndsSessionsOfEnabled(r) ==
  \/ row[r].kind \in {"password", "own", "confirm", "disable", "reset", "recover"}
  \/ row[r].kind = "update" /\ row[r].want.enabled

EndsSessions(r) ==
  \/ row[r].kind \in {"password", "own", "confirm", "disable", "reset", "recover"}
  \/ row[r].kind = "update" /\ ~row[r].want.enabled

\* What makes a sign-in of before out of date: a password, a second factor, or
\* that the account was enabled.
Outdates(r) ==
  \/ row[r].kind \in {"password", "own", "confirm", "disable", "reset", "recover"}
  \/ row[r].kind = "update" /\ ~row[r].want.enabled

\* Sign-ins of an account that were verified and have no session yet.
SigningIn(u) == {r \in Req : pc[r] \in {"accept", "clear", "session"} /\ row[r].user = u}

\* One transaction; a new password for an account that is gone is an error.
Write(r) ==
  LET u == row[r].user IN
  /\ pc[r] = "write"
  /\ \/ /\ Inserts(r) /\ account[u] = Unborn
        /\ account' = [account EXCEPT ![u] = Inserted(r)] /\ UNCHANGED session
     \/ /\ ~Inserts(r) /\ row[r].kind # "delete"
        /\ account' = IF Exists(u) THEN [account EXCEPT ![u] = Written(r, @)] ELSE account
        /\ UNCHANGED session
     \/ /\ row[r].kind = "delete"
        /\ account' = [account EXCEPT ![u] = Gone]
        /\ session' = Without(SessionsOf(u))
  /\ IF row[r].kind = "password" /\ ~Exists(u) THEN End(r)
     ELSE Goto(r, IF EndsSessions(r) THEN "revoke" ELSE "report") /\ UNCHANGED row
  /\ outdated' = IF Outdates(r) /\ Exists(u)
                 THEN outdated \cup SessionsOf(u) \cup SigningIn(u) ELSE outdated
  /\ UNCHANGED <<bucket, clock, restarts, admitted, paused>>

\* IntegrityError: an account of that name is there already.
NameInUse(r) ==
  /\ pc[r] = "write" /\ Inserts(r) /\ account[row[r].user] # Unborn
  /\ End(r)
  /\ UNCHANGED <<account, session, bucket, clock, restarts, history>>

\* revoke_user_sessions, a transaction of its own.  A sign-in that is still at
\* work comes after it.
Revoke(r) ==
  LET u == row[r].user IN
  /\ pc[r] = "revoke"
  /\ session' = Without(SessionsOf(u))
  /\ outdated' = outdated \ SigningIn(u)
  /\ Goto(r, "report") /\ UNCHANGED row
  /\ UNCHANGED <<account, bucket, clock, restarts, admitted, paused>>

\* The event log, what is left of the account for the answer, and the answer.
Report(r) ==
  /\ pc[r] = "report"
  /\ End(r)
  /\ UNCHANGED <<account, session, bucket, clock, restarts, history>>

-----------------------------------------------------------------------------
\* Time passes, for sessions and for the budget.
Tick ==
  /\ \E r \in Req : pc[r] \notin {"done", "lost"} /\ clock < Patience[r]
  /\ clock' = clock + 1
  /\ UNCHANGED <<account, session, bucket, restarts, pc, row, history>>

\* The process ends in the middle of anything; initialize_security_store
\* deletes the expired sessions.
Restart ==
  /\ restarts < Restarts /\ restarts' = restarts + 1
  /\ pc' = [r \in Req |-> IF InProgress(r) THEN "lost" ELSE pc[r]]
  /\ row' = [r \in Req |-> NoRow]
  /\ session' = Without({s \in Sid : session[s] # NoSession /\ Expired(s)})
  /\ outdated' = {}
  /\ UNCHANGED <<account, bucket, clock, admitted, paused>>

\* What a request of a kind may ask for.
Wants(what) ==
  {w \in Want :
     /\ what \in {"update", "create", "recover"} \/ w.role = "user"
     /\ what = "update" \/ w.enabled
     /\ w.pass = IF what \in {"password", "own", "create", "recover"} THEN Fresh ELSE None
     /\ w.must = (what = "password")}
WordsFor(what) == IF what \in NeedsPassword THEN Word ELSE {None}

Begin(r) ==
  \/ \E u \in User : \E p \in Tries[r], code \in {None, "totp"} \cup account[u].codes :
       (account[u].on \/ code = None) /\ Login(r, u, p, code)
  \/ \E what \in Offered[r] \ {"login", "logout", "recover"} :
       \E s \in Sid, via \in {"cookie", "reload"}, u \in User, want \in Wants(what), p \in WordsFor(what) :
         /\ account[u] # Gone
         /\ what \in OwnKinds \cup {"check"} => u = session[s].user
         /\ Authenticate(r, s, via, what, u, p, want)
  \/ \E s \in Sid : Logout(r, s)
  \/ \E u \in User, want \in Wants("recover") : account[u] # Gone /\ Recover(r, u, want)

Continue(r) ==
  \/ Verify(r) \/ Accept(r) \/ ClearPair(r) \/ CreateSession(r) \/ CreateToken(r)
  \/ Touch(r) \/ Drop(r)
  \/ Look(r) \/ Count(r) \/ LookAgain(r) \/ Write(r) \/ NameInUse(r)
  \/ Revoke(r) \/ Report(r)

Step(r) == (pc[r] = "new" /\ Begin(r)) \/ Continue(r)

Next == (\E r \in Req : Step(r)) \/ Tick \/ Restart

Spec == Init /\ [][Next]_vars

-----------------------------------------------------------------------------
\* As long as changes of accounts do not overlap, whatever logins and checks do
\* beside them, there is always an administrator who can sign in: enabled, and
\* with a secret if a second factor is asked for.
AdministratorCanSignIn ==
  ~Overlap => \E u \in User : ActiveAdmin(u) /\ (account[u].on => account[u].secret # None)

\* INSTALLATION.md:539: the last active administrator cannot be disabled,
\* deleted or demoted.
LastAdministratorStays == \E u \in User : ActiveAdmin(u)

\* consume_login_attempt reserves a verification before it happens: however
\* logins interleave, no Window holds more of them than two halves of adjacent
\* windows may; and none is let through before the time that a login that was
\* refused was told to come again, whatever window has begun meanwhile.
LoginBudget ==
  /\ [](\A b \in Bucket : \A t \in 0..clock :
          Cardinality({l \in admitted[b] : l[2] \in t..(t + Window - 1)}) <= 2 * LimitOf(b) - 1)
  /\ [][\A b \in Bucket : clock < paused[b] => admitted'[b] \subseteq admitted[b]]_vars

\* A login that was verified before its account was deleted leaves no session.
NoOrphanSessions ==
  \A s \in Sid : session[s] # NoSession => Exists(session[s].user)

\* A new password, a change of the second factor and disabling an account put
\* an end to the sessions of before: one that is there, or that a sign-in
\* verified with what held before adds, is there only as long as the change has
\* its revocation ahead.  So a change that reports success has left none, but
\* for those of sign-ins that were still at work when the sessions were revoked;
\* a restart between change and revocation leaves them all.
ChangeEndsSessions ==
  \A s \in outdated : session[s] # NoSession =>
    \E r \in Req : pc[r] = "revoke" /\ row[r].user = session[s].user
=================================================================================

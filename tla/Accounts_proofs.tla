---------------------------- MODULE Accounts_proofs ----------------------------
(***************************************************************************)
(* Proofs about accounts, sessions and the login budget, for any accounts, *)
(* number of requests and limits: no session without its account, none     *)
(* left behind by a change of its account, an administrator who can sign   *)
(* in as long as changes do not overlap, and a bounded number of logins in *)
(* every window.                                                           *)
(***************************************************************************)
EXTENDS Accounts, FiniteSetTheorems, TLAPS

\* The requests' places: in a login, and in a request that has a session.
LoginPlaces == {"verify", "accept", "clear", "session", "token"}
ChangePlaces == {"look", "count", "look-again", "write", "revoke", "report"}
Places == {"new", "done", "lost", "drop", "touch"} \cup LoginPlaces \cup ChangePlaces

Row == [kind : Kinds \cup {None}, user : User \cup {None}, acct : Account,
        word : Word \cup {None}, code : Code \cup {None, "totp"}, want : Want,
        sid : Sid \cup {None}, seen : Int, now : Int]

Types ==
  /\ account \in [User -> Account]
  /\ session \in [Sid -> Session \cup {NoSession}]
  /\ clock \in Nat
  /\ pc \in [Req -> Places]
  /\ row \in [Req -> Row]

\* Rows that were read or are there have a role.
RowsSound ==
  /\ \A u \in User : SomeAccount(account[u])
  /\ \A r \in Req : SomeAccount(row[r].acct)

\* A request knows whose account it is about as long as it goes on.
PlaceFits(p, x) ==
  /\ p \in LoginPlaces => x.user \in User /\ x.kind = "login"
  /\ p \in ChangePlaces => x.user \in User /\ x.kind \in Changes
  /\ p = "touch" => x.user \in User /\ x.kind \in Changes \cup {"check"}
  /\ p = "count" => x.kind \in {"delete", "update"}
  /\ p = "look-again" => x.kind \in {"setup", "disable", "regenerate"}
  /\ p \in {"touch", "drop"} => x.sid \in Sid
  /\ p \in {"new", "done", "lost"} => x = NoRow

RequestsSound == \A r \in Req : PlaceFits(pc[r], row[r])

\* What "changes do not overlap" means for the requests in progress.
ChangesApart ==
  ~Overlap =>
    \A r, o \in Req : row[r].kind \in Changes /\ row[o].kind \in Changes => r = o

(***************************************************************************)
(* What a change read still holds when it writes: another administrator is *)
(* active beside the one to be deleted or demoted, a recovery has read the *)
(* role it keeps, and a second factor that is confirmed has its secret.    *)
(***************************************************************************)
Takes(x) ==
  x.kind = "delete" \/ (x.kind = "update" /\ (x.want.role # "admin" \/ ~x.want.enabled))

StillTrue(p, x) ==
  /\ p \in {"touch", "look", "count", "look-again", "write"} /\ Takes(x) =>
       \E v \in User \ {x.user} : ActiveAdmin(v)
  /\ p = "write" /\ x.kind = "recover" /\ x.acct \notin {Gone, Unborn} =>
       x.acct.role = account[x.user].role
  /\ p = "write" /\ x.kind = "confirm" => account[x.user].secret # None

AdministratorsRemain ==
  ~Overlap =>
    /\ \E u \in User : ActiveAdmin(u)
    /\ \A u \in User : account[u].on => account[u].secret # None
    /\ \A r \in Req : StillTrue(pc[r], row[r])

AccountInv ==
  /\ Types /\ RowsSound /\ RequestsSound /\ NoOrphanSessions
  /\ ChangesApart /\ AdministratorsRemain

(***************************************************************************)
(* The budget of one bucket with the logins A let through, at the time c,  *)
(* for the limit L: its window began at s and counted a attempts.  They    *)
(* cover the logins let through since s, and one attempt began the window  *)
(* at s.  So the logins after s, and those of the window before s that are *)
(* close to s, are less than L; together with the window in force they are *)
(* less than 2 * L.                                                        *)
(***************************************************************************)
Since(A, t) == {l \in A : l[2] >= t}
Between(A, t, u) == {l \in A : l[2] \in t..u}

Covered(A, s, a, L, c) ==
  /\ s <= c /\ a <= L /\ (a = 0 => s = -Window)
  /\ \A l \in A : l[2] <= c /\ l[2] < s + Window
  /\ Cardinality(Since(A, s)) <= a
  /\ Since(A, s + 1) # {} => Cardinality(Since(A, s + 1)) <= a - 1
  /\ Cardinality(Between(A, s - Window + 1, s - 1)) <= L - 1
  /\ \A t \in Nat : Cardinality(Between(A, t, t + Window - 1)) <= 2 * L - 1

Logins(A) == A \subseteq Req \X Nat /\ IsFiniteSet(A)

BudgetTypes ==
  /\ clock \in Nat
  /\ bucket \in [Bucket -> [start : Int, attempts : Nat, until : Int]]
  /\ admitted \in [Bucket -> SUBSET (Req \X Nat)]
  /\ \A b \in Bucket : IsFiniteSet(admitted[b])

BudgetCovered ==
  \A b \in Bucket : Covered(admitted[b], bucket[b].start, bucket[b].attempts, LimitOf(b), clock)

BudgetInv == BudgetTypes /\ BudgetCovered

-----------------------------------------------------------------------------
LEMMA NoRowFits ==
  /\ NoRow \in Row /\ NoRow.kind = None /\ None \notin Kinds /\ SomeAccount(NoRow.acct)
  /\ \A p \in {"new", "done", "lost"} : PlaceFits(p, NoRow)
<1>1. Gone \in Account
  BY DEF Gone, Account, Secret
<1>2. NoWant \in Want
  BY DEF NoWant, Want, Roles
<1>3. NoRow \in Row /\ NoRow.kind = None /\ NoRow.acct = Gone
  BY <1>1, <1>2 DEF NoRow, Row
<1>4. None \notin Kinds
  BY DEF None, Kinds, Changes, AdminKinds, OwnKinds
<1>5. \A p \in {"new", "done", "lost"} : PlaceFits(p, NoRow)
  BY DEF PlaceFits, LoginPlaces, ChangePlaces
<1>6. QED
  BY <1>3, <1>4, <1>5 DEF SomeAccount

LEMMA GoneAndUnborn ==
  /\ Gone \in Account /\ Unborn \in Account
  /\ Gone.role = None /\ Unborn.role = "unborn" /\ ~Gone.enabled /\ ~Unborn.enabled
  /\ ~Gone.on /\ ~Unborn.on
<1>1. Gone \in Account
  BY DEF Gone, Account, Secret
<1>2. ASSUME NEW x \in Account, NEW y, y = [x EXCEPT !.role = "unborn"]
      PROVE  y \in Account /\ y.role = "unborn" /\ y.enabled = x.enabled /\ y.on = x.on
  BY <1>2 DEF Account
<1>3. Gone.role = None /\ ~Gone.enabled /\ ~Gone.on
  BY DEF Gone
<1>4. QED
  BY <1>1, <1>2, <1>3 DEF Unborn

(***************************************************************************)
(* A request goes on, the accounts stay: what it read and asked must be    *)
(* right for the place it comes to, and the sessions must have accounts.   *)
(***************************************************************************)
LEMMA RequestStep ==
  ASSUME AccountInv, NEW r \in Req, clock' \in Nat, UNCHANGED account,
         pc' \in [Req -> Places], row' \in [Req -> Row],
         \A o \in Req \ {r} : pc'[o] = pc[o] /\ row'[o] = row[o],
         SomeAccount(row'[r].acct), PlaceFits(pc'[r], row'[r]),
         ~Overlap => StillTrue(pc'[r], row'[r]),
         ~Overlap /\ row'[r].kind \in Changes =>
            row[r].kind \in Changes \/ \A o \in Req : row[o].kind \notin Changes,
         session' \in [Sid -> Session \cup {NoSession}],
         \A s \in Sid : session'[s] # NoSession => Exists(session'[s].user)
  PROVE  AccountInv'
<1> USE DEF AccountInv
<1>1. Types'
  BY DEF Types
<1>2. RowsSound'
  BY DEF RowsSound
<1>3. RequestsSound'
  BY DEF RequestsSound
<1>4. NoOrphanSessions'
  BY DEF NoOrphanSessions, Exists
<1>5. ChangesApart'
  BY DEF ChangesApart
<1>6. AdministratorsRemain'
  <2>1. ASSUME ~Overlap, NEW o \in Req PROVE StillTrue(pc'[o], row'[o])
    BY <2>1 DEF AdministratorsRemain
  <2>2. \A o \in Req : StillTrue(pc[o], row[o])' <=> StillTrue(pc'[o], row'[o])
    BY DEF StillTrue, ActiveAdmin
  <2>3. QED
    BY <2>1, <2>2 DEF AdministratorsRemain, ActiveAdmin
<1>7. QED
  BY <1>1, <1>2, <1>3, <1>4, <1>5, <1>6

\* A request ends: nothing is said of it any more.
LEMMA EndStep ==
  ASSUME AccountInv, NEW r \in Req, End(r), UNCHANGED <<account, clock>>,
         session' \in [Sid -> Session \cup {NoSession}],
         \A s \in Sid : session'[s] # NoSession => Exists(session'[s].user)
  PROVE  AccountInv'
<1>1. /\ pc' = [pc EXCEPT ![r] = "done"] /\ row' = [row EXCEPT ![r] = NoRow]
  BY DEF End, Goto
<1>2. /\ pc' \in [Req -> Places] /\ row' \in [Req -> Row]
      /\ pc'[r] = "done" /\ row'[r] = NoRow
      /\ \A o \in Req \ {r} : pc'[o] = pc[o] /\ row'[o] = row[o]
  BY <1>1, NoRowFits DEF AccountInv, Types, Places
<1>3. SomeAccount(row'[r].acct) /\ PlaceFits(pc'[r], row'[r]) /\ row'[r].kind \notin Changes
  BY <1>2, NoRowFits DEF Kinds
<1>4. StillTrue(pc'[r], row'[r])
  BY <1>2 DEF StillTrue
<1>5. clock' \in Nat
  BY DEF AccountInv, Types
<1>6. QED
  BY <1>2, <1>3, <1>4, <1>5, RequestStep

\* Sessions that stay, end or are touched keep their accounts.
LEMMA SessionsKept ==
  ASSUME AccountInv, UNCHANGED account
  PROVE  /\ session \in [Sid -> Session \cup {NoSession}]
         /\ \A s \in Sid : session[s] # NoSession => Exists(session[s].user) /\ session[s].user \in User
         /\ \A S : /\ Without(S) \in [Sid -> Session \cup {NoSession}]
                   /\ \A s \in Sid : Without(S)[s] # NoSession => Exists(Without(S)[s].user)
BY DEF AccountInv, Types, NoOrphanSessions, Without, Session

LEMMA InitEstablishes == Init => AccountInv
<1> SUFFICES ASSUME Init PROVE AccountInv
  OBVIOUS
<1>1. PICK start \in Starts :
        /\ account = start.account
        /\ session = [s \in Sid |-> IF s \in DOMAIN start.session THEN start.session[s] ELSE NoSession]
  BY DEF Init
<1>2. row = [r \in Req |-> NoRow] /\ clock = 0
  BY DEF Init
<1>3. PICK team \in Teams : pc = [r \in Req |-> IF r \in team THEN "new" ELSE "done"]
  BY DEF Init
<1>4. DOMAIN start.session \subseteq User /\ start.session \in [DOMAIN start.session -> Session]
  BY AccountAssumption, StartAssumption
<1>5. Types
  <2>1. account \in [User -> Account]
    BY <1>1, StartAssumption
  <2>2. session \in [Sid -> Session \cup {NoSession}]
    BY <1>1, <1>4
  <2>3. pc \in [Req -> Places]
    BY <1>3 DEF Places
  <2>4. QED
    BY <2>1, <2>2, <2>3, <1>2, NoRowFits DEF Types
<1>6. RowsSound
  BY <1>1, <1>2, StartAssumption, NoRowFits DEF RowsSound
<1>7. RequestsSound
  BY <1>2, <1>3, NoRowFits DEF RequestsSound
<1>8. NoOrphanSessions
  BY <1>1, <1>4, StartAssumption DEF NoOrphanSessions, Exists
<1>9. ChangesApart
  BY <1>2, NoRowFits DEF ChangesApart, Kinds
<1>10. AdministratorsRemain
  <2>1. \A r \in Req : StillTrue(pc[r], row[r])
    BY <1>3 DEF StillTrue
  <2>2. QED
    BY <2>1, <1>1, StartAssumption DEF AdministratorsRemain, ActiveAdmin
<1>11. QED
  BY <1>5, <1>6, <1>7, <1>8, <1>9, <1>10 DEF AccountInv

\* The same, for a request that goes to the place p and remembers x.
LEMMA MoveStep ==
  ASSUME AccountInv, NEW r \in Req, NEW p \in Places, NEW x \in Row, UNCHANGED <<account, clock>>,
         Goto(r, p), row' = [row EXCEPT ![r] = x],
         SomeAccount(x.acct), PlaceFits(p, x), ~Overlap => StillTrue(p, x),
         ~Overlap /\ x.kind \in Changes =>
            row[r].kind \in Changes \/ \A o \in Req : row[o].kind \notin Changes,
         session' \in [Sid -> Session \cup {NoSession}],
         \A s \in Sid : session'[s] # NoSession => Exists(session'[s].user)
  PROVE  AccountInv'
<1>1. /\ pc' \in [Req -> Places] /\ row' \in [Req -> Row]
      /\ pc'[r] = p /\ row'[r] = x /\ clock' \in Nat
      /\ \A o \in Req \ {r} : pc'[o] = pc[o] /\ row'[o] = row[o]
  BY DEF AccountInv, Types, Goto
<1>2. QED
  BY <1>1, RequestStep

\* What is known of a request, and how one that keeps its row is a move.
LEMMA RequestFacts ==
  ASSUME AccountInv, NEW r \in Req
  PROVE  /\ pc[r] \in Places /\ row[r] \in Row /\ SomeAccount(row[r].acct)
         /\ PlaceFits(pc[r], row[r]) /\ (~Overlap => StillTrue(pc[r], row[r]))
         /\ row = [row EXCEPT ![r] = row[r]]
         /\ \A u \in User : account[u] \in Account /\ SomeAccount(account[u])
BY DEF AccountInv, Types, RowsSound, RequestsSound, AdministratorsRemain

-----------------------------------------------------------------------------
(* Logins.                                                                 *)

LEMMA LoginStep ==
  ASSUME AccountInv, NEW r \in Req, NEW u \in User, NEW word \in Word,
         NEW code \in {None, "totp"} \cup account[u].codes, Login(r, u, word, code)
  PROVE  AccountInv'
<1> DEFINE x == [NoRow EXCEPT !.kind = "login", !.user = u, !.word = word, !.code = code]
<1>1. /\ pc[r] = "new" /\ UNCHANGED <<account, session, clock>>
      /\ \/ Goto(r, "verify") /\ row' = [row EXCEPT ![r] = x]
         \/ Goto(r, "done") /\ row' = row
  BY DEF Login, Ask
<1>2. account[u].codes \subseteq Code
  BY RequestFacts DEF Account
<1>3. x \in Row /\ x.kind = "login" /\ x.user = u /\ x.acct = NoRow.acct
  BY <1>2, NoRowFits DEF Row, Kinds
<1>4. "login" \notin Changes
  BY DEF Changes, AdminKinds, OwnKinds
<1>5. session' \in [Sid -> Session \cup {NoSession}]
      /\ \A s \in Sid : session'[s] # NoSession => Exists(session'[s].user)
  BY <1>1, SessionsKept
<1>6. CASE Goto(r, "verify") /\ row' = [row EXCEPT ![r] = x]
  <2>1. PlaceFits("verify", x)
    BY <1>3 DEF PlaceFits, LoginPlaces, ChangePlaces
  <2>2. StillTrue("verify", x)
    BY DEF StillTrue
  <2>3. "verify" \in Places /\ SomeAccount(x.acct) /\ x.kind \notin Changes
    BY <1>3, <1>4, NoRowFits DEF Places, LoginPlaces
  <2> HIDE DEF x
  <2>4. QED
    BY <1>1, <1>3, <1>5, <1>6, <2>1, <2>2, <2>3, MoveStep
<1>7. CASE Goto(r, "done") /\ row' = row
  <2>1. row[r] = NoRow /\ row[r] \in Row /\ row' = [row EXCEPT ![r] = NoRow]
    BY <1>1, <1>7, RequestFacts DEF PlaceFits
  <2>2. End(r)
    BY <1>7, <2>1 DEF End
  <2>3. QED
    BY <1>1, <1>5, <2>2, EndStep
<1>8. QED
  BY <1>1, <1>6, <1>7

LEMMA VerifyStep ==
  ASSUME AccountInv, NEW r \in Req, Verify(r)
  PROVE  AccountInv'
<1>1. PICK u : u = row[r].user
  OBVIOUS
<1>2. PICK x : x = [row[r] EXCEPT !.acct = account[u]]
  OBVIOUS
<1>3. /\ pc[r] = "verify" /\ UNCHANGED <<account, session, clock>>
      /\ End(r) \/ (row' = [row EXCEPT ![r].acct = account[u]] /\ Goto(r, "accept"))
  BY <1>1 DEF Verify
<1>4. session' \in [Sid -> Session \cup {NoSession}]
      /\ \A s \in Sid : session'[s] # NoSession => Exists(session'[s].user)
  BY <1>3, SessionsKept
<1>5. u \in User /\ row[r] \in Row /\ row[r].kind = "login"
  BY <1>1, <1>3, RequestFacts DEF PlaceFits, LoginPlaces
<1>6. account[u] \in Account /\ SomeAccount(account[u])
  BY <1>5, RequestFacts
<1>7. x \in Row /\ x.kind = "login" /\ x.user = u /\ x.acct = account[u]
  BY <1>1, <1>2, <1>5, <1>6 DEF Row
<1>8. CASE row' = [row EXCEPT ![r].acct = account[u]] /\ Goto(r, "accept")
  <2>1. row' = [row EXCEPT ![r] = x]
    BY <1>2, <1>8
  <2>2. PlaceFits("accept", x) /\ StillTrue("accept", x)
    BY <1>5, <1>7 DEF PlaceFits, LoginPlaces, ChangePlaces, StillTrue
  <2>3. "accept" \in Places /\ SomeAccount(x.acct) /\ x.kind \notin Changes
    BY <1>6, <1>7 DEF Places, LoginPlaces, Changes, AdminKinds, OwnKinds
  <2>4. QED
    BY <1>3, <1>4, <1>7, <1>8, <2>1, <2>2, <2>3, MoveStep
<1>9. QED
  BY <1>3, <1>4, <1>8, EndStep

\* A login that is past its verification remembers no account.
LEMMA LoginGoesOn ==
  ASSUME AccountInv, NEW r \in Req, NEW p \in {"session", "token"}, pc[r] \in LoginPlaces,
         UNCHANGED <<account, clock, row>>, Goto(r, p),
         session' \in [Sid -> Session \cup {NoSession}],
         \A s \in Sid : session'[s] # NoSession => Exists(session'[s].user)
  PROVE  AccountInv'
<1>1. /\ row[r] \in Row /\ SomeAccount(row[r].acct) /\ row[r].user \in User /\ row[r].kind = "login"
      /\ row' = [row EXCEPT ![r] = row[r]]
  BY RequestFacts DEF PlaceFits
<1>2. PlaceFits(p, row[r]) /\ StillTrue(p, row[r]) /\ p \in Places
  BY <1>1 DEF PlaceFits, LoginPlaces, ChangePlaces, StillTrue, Places
<1>3. row[r].kind \notin Changes
  BY <1>1 DEF Changes, AdminKinds, OwnKinds
<1>4. QED
  BY <1>1, <1>2, <1>3, MoveStep

LEMMA ClearPairStep ==
  ASSUME AccountInv, NEW r \in Req, ClearPair(r)
  PROVE  AccountInv'
<1>1. pc[r] = "clear" /\ Goto(r, "session") /\ UNCHANGED <<account, session, clock, row>>
  BY DEF ClearPair
<1>2. pc[r] \in LoginPlaces
  BY <1>1 DEF LoginPlaces
<1>3. session' \in [Sid -> Session \cup {NoSession}]
      /\ \A s \in Sid : session'[s] # NoSession => Exists(session'[s].user)
  BY <1>1, SessionsKept
<1>4. QED
  BY <1>1, <1>2, <1>3, LoginGoesOn

\* The foreign key: a session is created only while its account is there.
LEMMA CreateSessionStep ==
  ASSUME AccountInv, NEW r \in Req, CreateSession(r)
  PROVE  AccountInv'
<1>1. PICK u : u = row[r].user
  OBVIOUS
<1>2. PICK new : new = [user |-> u, expires |-> clock + TTL, seen |-> clock, token |-> FALSE]
  OBVIOUS
<1>3. /\ pc[r] = "session" /\ UNCHANGED <<account, clock>>
      /\ \/ Exists(u) /\ session' = [session EXCEPT ![r] = new] /\ Goto(r, "token") /\ row' = row
         \/ End(r) /\ session' = session
  BY <1>1, <1>2 DEF CreateSession, Known
<1>4. u \in User
  BY <1>1, <1>3, RequestFacts DEF PlaceFits, LoginPlaces
<1>5. clock \in Int /\ TTL \in Int
  BY TimeAssumption DEF AccountInv, Types
<1>6. new \in Session /\ new.user = u
  BY <1>2, <1>4, <1>5 DEF Session
<1>7. CASE Exists(u) /\ session' = [session EXCEPT ![r] = new] /\ Goto(r, "token") /\ row' = row
  <2>1. session' \in [Sid -> Session \cup {NoSession}]
    BY <1>3, <1>6, <1>7, SessionsKept
  <2>2. \A s \in Sid : session'[s] # NoSession => Exists(session'[s].user)
    BY <1>3, <1>6, <1>7, SessionsKept
  <2>3. pc[r] \in LoginPlaces
    BY <1>3 DEF LoginPlaces
  <2>4. QED
    BY <1>3, <1>7, <2>1, <2>2, <2>3, LoginGoesOn
<1>8. CASE End(r) /\ session' = session
  BY <1>3, <1>8, SessionsKept, EndStep
<1>9. QED
  BY <1>3, <1>7, <1>8

LEMMA CreateTokenStep ==
  ASSUME AccountInv, NEW r \in Req, CreateToken(r)
  PROVE  AccountInv'
<1>1. /\ End(r) /\ UNCHANGED <<account, clock>> /\ r \in Sid
      /\ \/ session' = session
         \/ session[r] # NoSession /\ session' = [session EXCEPT ![r].token = TRUE]
  BY DEF CreateToken, Sid
<1>2. CASE session[r] # NoSession /\ session' = [session EXCEPT ![r].token = TRUE]
  <2>1. session[r] \in Session
    BY <1>1, <1>2, SessionsKept
  <2>2. PICK x : x = [session[r] EXCEPT !.token = TRUE]
    OBVIOUS
  <2>3. x \in Session /\ x.user = session[r].user
    BY <2>1, <2>2 DEF Session
  <2>4. session' = [session EXCEPT ![r] = x]
    BY <1>2, <2>2
  <2>5. session' \in [Sid -> Session \cup {NoSession}]
        /\ \A s \in Sid : session'[s] # NoSession => Exists(session'[s].user)
    BY <1>1, <1>2, <2>3, <2>4, SessionsKept
  <2>6. QED
    BY <1>1, <2>5, EndStep
<1>3. QED
  BY <1>1, <1>2, SessionsKept, EndStep

-----------------------------------------------------------------------------
(* Requests with a session.                                                *)

\* Who asks to delete, disable or demote somebody else is an administrator that
\* stays one: that is the other one the change relies on.
LEMMA AskedByAnother ==
  ASSUME NEW what, NEW u \in User, NEW target, NEW x,
         x.kind = what, x.user = target, account[u].enabled,
         MayAsk(what, u, target, x.want), ~OwnRefused(what, u, target, x.want),
         Takes(x)
  PROVE  \E v \in User \ {target} : ActiveAdmin(v)
<1>1. what \in AdminKinds
  BY DEF Takes, AdminKinds
<1>2. ActiveAdmin(u)
  BY <1>1 DEF MayAsk, ActiveAdmin
<1>3. u # target
  BY <1>2 DEF OwnRefused, Takes, ActiveAdmin
<1>4. QED
  BY <1>2, <1>3

LEMMA AuthenticateStep ==
  ASSUME AccountInv, NEW r \in Req, NEW s \in Sid, NEW via,
         NEW what \in Offered[r] \ {"login", "logout", "recover"}, NEW target \in User,
         NEW word \in Word \cup {None}, NEW want \in Wants(what),
         Authenticate(r, s, via, what, target, word, want)
  PROVE  AccountInv'
<1> DEFINE begins == [NoRow EXCEPT !.kind = what, !.user = target, !.word = word, !.want = want]
<1> DEFINE touches == [begins EXCEPT !.sid = s, !.seen = session[s].seen, !.now = clock]
<1> DEFINE drops == [NoRow EXCEPT !.kind = what, !.sid = s]
<1> DEFINE go == IF what = "check" THEN "done" ELSE "look"
<1>1. PICK u : u = session[s].user
  OBVIOUS
<1>2. /\ pc[r] = "new" /\ session[s] # NoSession /\ UNCHANGED <<account, session, clock>>
      /\ Overlap \/ what = "check" \/ \A o \in Req : row[o].kind \notin Changes
  BY DEF Authenticate, Ask
<1>3. \/ Goto(r, "drop") /\ row' = [row EXCEPT ![r] = drops]
      \/ Goto(r, "done") /\ UNCHANGED row
      \/ /\ account[u].enabled /\ MayAsk(what, u, target, want) /\ ~OwnRefused(what, u, target, want)
         /\ \/ Goto(r, "touch") /\ row' = [row EXCEPT ![r] = touches]
            \/ /\ Goto(r, go)
               /\ IF go = "done" THEN UNCHANGED row ELSE row' = [row EXCEPT ![r] = begins]
  BY <1>1 DEF Authenticate
<1>4. what \in Kinds /\ what \notin {"login", "logout", "recover"}
  BY AccountAssumption
<1>5. want \in Want
  BY DEF Wants
<1>6. session[s] \in Session /\ u \in User
  BY <1>1, <1>2, SessionsKept
<1>7. session[s].seen \in Int /\ clock \in Int
  BY <1>6 DEF Session, AccountInv, Types
<1>8. begins \in Row /\ begins.kind = what /\ begins.user = target /\ begins.want = want /\ begins.acct = NoRow.acct
  BY <1>4, <1>5, NoRowFits DEF Row
<1>9. drops \in Row /\ drops.kind = what /\ drops.sid = s /\ drops.acct = NoRow.acct
  BY <1>4, NoRowFits DEF Row
<1>10. /\ touches \in Row /\ touches.kind = what /\ touches.user = target /\ touches.sid = s
       /\ touches.want = want /\ touches.acct = NoRow.acct
  <2>1. \A x \in Row : \A y : y = [x EXCEPT !.sid = s, !.seen = session[s].seen, !.now = clock] =>
          /\ y \in Row /\ y.kind = x.kind /\ y.user = x.user /\ y.sid = s
          /\ y.want = x.want /\ y.acct = x.acct
    BY <1>7, ZenonT(40) DEF Row
  <2> HIDE DEF begins
  <2>2. QED
    BY <1>8, <2>1
<1>11. session' \in [Sid -> Session \cup {NoSession}]
       /\ \A t \in Sid : session'[t] # NoSession => Exists(session'[t].user)
  BY <1>2, SessionsKept
<1>12. what \in Changes \cup {"check"}
  BY <1>4 DEF Kinds
<1>13. row[r] = NoRow /\ row = [row EXCEPT ![r] = NoRow]
  BY <1>2, RequestFacts DEF PlaceFits
<1>14. ~Overlap /\ what \in Changes => \A o \in Req : row[o].kind \notin Changes
  BY <1>2 DEF Changes, AdminKinds, OwnKinds
<1> HIDE DEF begins, touches, drops
<1>15. CASE Goto(r, "drop") /\ row' = [row EXCEPT ![r] = drops]
  <2>1. PlaceFits("drop", drops) /\ StillTrue("drop", drops)
    BY <1>9 DEF PlaceFits, LoginPlaces, ChangePlaces, StillTrue
  <2>2. "drop" \in Places /\ SomeAccount(drops.acct)
    BY <1>9, NoRowFits DEF Places
  <2>3. QED
    BY <1>2, <1>9, <1>11, <1>14, <1>15, <2>1, <2>2, MoveStep
<1>16. CASE Goto(r, "done") /\ UNCHANGED row
  <2>1. End(r)
    BY <1>13, <1>16 DEF End
  <2>2. QED
    BY <1>2, <1>11, <2>1, EndStep
<1>17. ASSUME account[u].enabled, MayAsk(what, u, target, want), ~OwnRefused(what, u, target, want),
              NEW x \in Row, x.kind = what, x.user = target, x.want = want, NEW p \in {"touch", "look"}
       PROVE  StillTrue(p, x)
  <2>1. Takes(x) => \E v \in User \ {x.user} : ActiveAdmin(v)
    BY <1>6, <1>17, AskedByAnother
  <2>2. QED
    BY <2>1, <1>17 DEF StillTrue
<1>18. ASSUME account[u].enabled, MayAsk(what, u, target, want), ~OwnRefused(what, u, target, want),
              Goto(r, "touch"), row' = [row EXCEPT ![r] = touches]
       PROVE  AccountInv'
  <2>1. PlaceFits("touch", touches)
    BY <1>10, <1>12 DEF PlaceFits, LoginPlaces, ChangePlaces
  <2>2. "touch" \in Places /\ SomeAccount(touches.acct)
    BY <1>10, NoRowFits DEF Places
  <2>3. StillTrue("touch", touches)
    BY <1>10, <1>17, <1>18
  <2>4. QED
    BY <1>2, <1>10, <1>11, <1>14, <1>18, <2>1, <2>2, <2>3, MoveStep
<1>19. ASSUME account[u].enabled, MayAsk(what, u, target, want), ~OwnRefused(what, u, target, want),
              what # "check", Goto(r, "look"), row' = [row EXCEPT ![r] = begins]
       PROVE  AccountInv'
  <2>1. PlaceFits("look", begins)
    BY <1>8, <1>12, <1>19 DEF PlaceFits, LoginPlaces, ChangePlaces
  <2>2. "look" \in Places /\ SomeAccount(begins.acct)
    BY <1>8, NoRowFits DEF Places, ChangePlaces
  <2>3. StillTrue("look", begins)
    BY <1>8, <1>17, <1>19
  <2>4. QED
    BY <1>2, <1>8, <1>11, <1>14, <1>19, <2>1, <2>2, <2>3, MoveStep
<1>20. QED
  BY <1>3, <1>15, <1>16, <1>18, <1>19

LEMMA TouchStep ==
  ASSUME AccountInv, NEW r \in Req, Touch(r)
  PROVE  AccountInv'
<1>1. PICK x : x = [row[r] EXCEPT !.sid = None, !.seen = 0, !.now = 0]
  OBVIOUS
<1>2. /\ pc[r] = "touch" /\ UNCHANGED <<account, clock>> /\ session' \in {session, Touched(r)}
      /\ \/ End(r)
         \/ /\ row[r].kind # "check" /\ Goto(r, "look")
            /\ row' = [row EXCEPT ![r].sid = None, ![r].seen = 0, ![r].now = 0]
  BY DEF Touch
<1>3. /\ row[r] \in Row /\ SomeAccount(row[r].acct) /\ row[r].user \in User
      /\ row[r].kind \in Changes \cup {"check"} /\ row[r].sid \in Sid
      /\ ~Overlap => StillTrue("touch", row[r])
  BY <1>2, RequestFacts DEF PlaceFits
<1>4. PICK s \in Sid, now \in Int : s = row[r].sid /\ now = row[r].now
  BY <1>3 DEF Row
<1>5. session' \in [Sid -> Session \cup {NoSession}]
      /\ \A t \in Sid : session'[t] # NoSession => Exists(session'[t].user)
  <2>1. PICK y : y = [session[s] EXCEPT !.seen = now]
    OBVIOUS
  <2>2. session' = session \/ (session[s] # NoSession /\ session' = [session EXCEPT ![s] = y])
    BY <1>2, <1>4, <2>1 DEF Touched
  <2>3. CASE session[s] # NoSession /\ session' = [session EXCEPT ![s] = y]
    <3>1. session[s] \in Session
      BY <1>2, <2>3, SessionsKept
    <3>2. y \in Session /\ y.user = session[s].user
      BY <2>1, <3>1 DEF Session
    <3>3. QED
      BY <1>2, <2>3, <3>2, SessionsKept
  <2>4. QED
    BY <1>2, <2>2, <2>3, SessionsKept
<1>6. /\ x \in Row /\ x.kind = row[r].kind /\ x.user = row[r].user
      /\ x.acct = row[r].acct /\ x.want = row[r].want
  <2>1. PICK a : a = [row[r] EXCEPT !.sid = None]
    OBVIOUS
  <2>2. PICK b : b = [a EXCEPT !.seen = 0]
    OBVIOUS
  <2>3. x = [b EXCEPT !.now = 0]
    BY <1>1, <2>1, <2>2
  <2>4. a \in Row /\ a.kind = row[r].kind /\ a.user = row[r].user /\ a.acct = row[r].acct /\ a.want = row[r].want
    BY <1>3, <2>1 DEF Row
  <2>5. b \in Row /\ b.kind = a.kind /\ b.user = a.user /\ b.acct = a.acct /\ b.want = a.want
    BY <2>2, <2>4 DEF Row
  <2>6. x \in Row /\ x.kind = b.kind /\ x.user = b.user /\ x.acct = b.acct /\ x.want = b.want
    BY <2>3, <2>5 DEF Row
  <2>7. QED
    BY <2>4, <2>5, <2>6
<1>7. CASE /\ row[r].kind # "check" /\ Goto(r, "look")
           /\ row' = [row EXCEPT ![r].sid = None, ![r].seen = 0, ![r].now = 0]
  <2>1. row' = [row EXCEPT ![r] = x]
    BY <1>1, <1>7 DEF AccountInv, Types
  <2>2. PlaceFits("look", x)
    BY <1>3, <1>6, <1>7 DEF PlaceFits, LoginPlaces, ChangePlaces
  <2>3. ~Overlap => StillTrue("look", x)
    BY <1>3, <1>6 DEF StillTrue, Takes
  <2>4. "look" \in Places /\ SomeAccount(x.acct)
    BY <1>3, <1>6 DEF Places, ChangePlaces
  <2>5. QED
    BY <1>2, <1>5, <1>6, <1>7, <2>1, <2>2, <2>3, <2>4, MoveStep
<1>8. QED
  BY <1>2, <1>5, <1>7, EndStep

LEMMA DropStep ==
  ASSUME AccountInv, NEW r \in Req, Drop(r)
  PROVE  AccountInv'
<1>1. End(r) /\ UNCHANGED <<account, clock>> /\ session' \in {session, Without({row[r].sid})}
  BY DEF Drop
<1>2. QED
  BY <1>1, SessionsKept, EndStep

LEMMA LogoutStep ==
  ASSUME AccountInv, NEW r \in Req, NEW s \in Sid, Logout(r, s)
  PROVE  AccountInv'
<1>1. pc[r] = "new" /\ Goto(r, "done") /\ UNCHANGED <<account, clock, row>> /\ session' = Without({s})
  BY DEF Logout, Ask
<1>2. row[r] = NoRow /\ row = [row EXCEPT ![r] = NoRow]
  BY <1>1, RequestFacts DEF PlaceFits
<1>3. End(r)
  BY <1>1, <1>2 DEF End
<1>4. QED
  BY <1>1, <1>3, SessionsKept, EndStep

-----------------------------------------------------------------------------
(* Changes of accounts, up to their write.                                 *)

LEMMA RecoverStep ==
  ASSUME AccountInv, NEW r \in Req, NEW u \in User, NEW want \in Wants("recover"), Recover(r, u, want)
  PROVE  AccountInv'
<1>1. PICK x : x = [NoRow EXCEPT !.kind = "recover", !.user = u, !.want = want]
  OBVIOUS
<1>2. /\ Goto(r, "look") /\ row' = [row EXCEPT ![r] = x] /\ UNCHANGED <<account, session, clock>>
      /\ Overlap \/ \A o \in Req : row[o].kind \notin Changes
  BY <1>1 DEF Recover
<1>3. "recover" \in Changes /\ "recover" \in Kinds /\ want \in Want
  BY DEF Changes, Kinds, Wants
<1>4. x \in Row /\ x.kind = "recover" /\ x.user = u /\ x.acct = NoRow.acct
  BY <1>1, <1>3, NoRowFits DEF Row
<1>5. PlaceFits("look", x) /\ StillTrue("look", x)
  BY <1>3, <1>4 DEF PlaceFits, LoginPlaces, ChangePlaces, StillTrue, Takes
<1>6. "look" \in Places /\ SomeAccount(x.acct)
  BY <1>4, NoRowFits DEF Places, ChangePlaces
<1>7. session' \in [Sid -> Session \cup {NoSession}]
      /\ \A t \in Sid : session'[t] # NoSession => Exists(session'[t].user)
  BY <1>2, SessionsKept
<1>8. QED
  BY <1>2, <1>4, <1>5, <1>6, <1>7, MoveStep

\* A change goes on, with the account it read or without one.
LEMMA ChangeGoesOn ==
  ASSUME AccountInv, NEW r \in Req, NEW p \in ChangePlaces, pc[r] \in ChangePlaces,
         UNCHANGED <<account, session, clock>>, Goto(r, p),
         NEW x \in Row, SomeAccount(x.acct), x.kind = row[r].kind, x.user = row[r].user,
         row' = [row EXCEPT ![r] = x],
         p = "count" => x.kind \in {"delete", "update"},
         p = "look-again" => x.kind \in {"setup", "disable", "regenerate"},
         ~Overlap => StillTrue(p, x)
  PROVE  AccountInv'
<1>1. x.user \in User /\ x.kind \in Changes
  BY RequestFacts DEF PlaceFits
<1>2. PlaceFits(p, x) /\ p \in Places
  BY <1>1 DEF PlaceFits, LoginPlaces, ChangePlaces, Places
<1>3. session' \in [Sid -> Session \cup {NoSession}]
      /\ \A t \in Sid : session'[t] # NoSession => Exists(session'[t].user)
  BY SessionsKept
<1>4. QED
  BY <1>1, <1>2, <1>3, MoveStep

LEMMA LookStep ==
  ASSUME AccountInv, NEW r \in Req, Look(r)
  PROVE  AccountInv'
<1>1. PICK u : u = row[r].user
  OBVIOUS
<1>2. PICK x : x = [row[r] EXCEPT !.acct = account[u]]
  OBVIOUS
<1>3. PICK p : p = IF NeedsCount(r, account[u]) THEN "count"
                   ELSE IF row[r].kind \in {"setup", "disable", "regenerate"} THEN "look-again"
                   ELSE "write"
  OBVIOUS
<1>4. /\ pc[r] = "look" /\ UNCHANGED <<account, session, clock>>
      /\ \/ row[r].kind \in {"create", "password"} /\ Goto(r, "write") /\ UNCHANGED row
         \/ End(r)
         \/ /\ row[r].kind \notin {"create", "password"}
            /\ row[r].kind = "confirm" => account[u].secret # None
            /\ row' = [row EXCEPT ![r].acct = account[u]] /\ Goto(r, p)
  BY <1>1, <1>3 DEF Look
<1>5. pc[r] \in ChangePlaces /\ "write" \in ChangePlaces /\ p \in ChangePlaces
  BY <1>3, <1>4 DEF ChangePlaces
<1>6. /\ row[r] \in Row /\ SomeAccount(row[r].acct) /\ u \in User
      /\ row' = row => row' = [row EXCEPT ![r] = row[r]]
      /\ ~Overlap => StillTrue("look", row[r])
  BY <1>1, <1>4, <1>5, RequestFacts DEF PlaceFits
<1>7. account[u] \in Account /\ SomeAccount(account[u])
  BY <1>6, RequestFacts
<1>8. /\ x \in Row /\ x.kind = row[r].kind /\ x.user = u /\ x.acct = account[u]
      /\ x.want = row[r].want
  BY <1>1, <1>2, <1>6, <1>7 DEF Row
<1>9. CASE row[r].kind \in {"create", "password"} /\ Goto(r, "write") /\ UNCHANGED row
  <2>1. StillTrue("write", row[r])
    BY <1>9 DEF StillTrue, Takes
  <2>2. QED
    BY <1>4, <1>5, <1>6, <1>9, <2>1, ChangeGoesOn
<1>10. CASE /\ row[r].kind \notin {"create", "password"}
            /\ row[r].kind = "confirm" => account[u].secret # None
            /\ row' = [row EXCEPT ![r].acct = account[u]] /\ Goto(r, p)
  <2>1. row' = [row EXCEPT ![r] = x]
    BY <1>2, <1>10
  <2>2. p = "count" => x.kind \in {"delete", "update"}
    BY <1>3, <1>8 DEF NeedsCount
  <2>3. p = "look-again" => x.kind \in {"setup", "disable", "regenerate"}
    BY <1>3, <1>8
  <2>4. ~Overlap => StillTrue(p, x)
    <3>1. ~Overlap /\ Takes(x) => \E v \in User \ {x.user} : ActiveAdmin(v)
      BY <1>1, <1>6, <1>8 DEF StillTrue, Takes
    <3>2. QED
      BY <1>8, <1>10, <3>1 DEF StillTrue
  <2>5. x.user = row[r].user /\ SomeAccount(x.acct) /\ UNCHANGED <<account, session, clock>>
    BY <1>1, <1>4, <1>7, <1>8
  <2>6. Goto(r, p)
    BY <1>10
  <2>7. QED
    BY <1>5, <1>8, <2>1, <2>2, <2>3, <2>4, <2>5, <2>6, ChangeGoesOn
<1>11. CASE End(r)
  BY <1>4, <1>11, SessionsKept, EndStep
<1>12. QED
  BY <1>4, <1>9, <1>10, <1>11

LEMMA CountStep ==
  ASSUME AccountInv, NEW r \in Req, Count(r)
  PROVE  AccountInv'
<1>1. /\ pc[r] = "count" /\ UNCHANGED <<account, session, clock>>
      /\ End(r) \/ (Goto(r, "write") /\ UNCHANGED row)
  BY DEF Count
<1>2. CASE Goto(r, "write") /\ UNCHANGED row
  <2>1. /\ row[r] \in Row /\ SomeAccount(row[r].acct) /\ row' = [row EXCEPT ![r] = row[r]]
        /\ row[r].kind \in {"delete", "update"}
        /\ ~Overlap => StillTrue("count", row[r])
    BY <1>1, <1>2, RequestFacts DEF PlaceFits
  <2>2. ~Overlap => StillTrue("write", row[r])
    BY <2>1 DEF StillTrue
  <2>3. pc[r] \in ChangePlaces /\ "write" \in ChangePlaces
    BY <1>1 DEF ChangePlaces
  <2>4. QED
    BY <1>1, <1>2, <2>1, <2>2, <2>3, ChangeGoesOn
<1>3. QED
  BY <1>1, <1>2, SessionsKept, EndStep

LEMMA LookAgainStep ==
  ASSUME AccountInv, NEW r \in Req, LookAgain(r)
  PROVE  AccountInv'
<1>1. PICK u : u = row[r].user
  OBVIOUS
<1>2. PICK x : x = [row[r] EXCEPT !.acct = account[u]]
  OBVIOUS
<1>3. /\ pc[r] = "look-again" /\ UNCHANGED <<account, session, clock>>
      /\ End(r) \/ (row' = [row EXCEPT ![r].acct = account[u]] /\ Goto(r, "write"))
  BY <1>1 DEF LookAgain
<1>4. pc[r] \in ChangePlaces /\ "write" \in ChangePlaces
  BY <1>3 DEF ChangePlaces
<1>5. row[r] \in Row /\ u \in User /\ row[r].kind \in {"setup", "disable", "regenerate"}
  BY <1>1, <1>3, <1>4, RequestFacts DEF PlaceFits
<1>6. account[u] \in Account /\ SomeAccount(account[u])
  BY <1>5, RequestFacts
<1>7. x \in Row /\ x.kind = row[r].kind /\ x.user = row[r].user /\ x.acct = account[u]
  BY <1>1, <1>2, <1>5, <1>6 DEF Row
<1>8. CASE row' = [row EXCEPT ![r].acct = account[u]] /\ Goto(r, "write")
  <2>1. row' = [row EXCEPT ![r] = x]
    BY <1>2, <1>8
  <2>2. StillTrue("write", x)
    BY <1>5, <1>7 DEF StillTrue, Takes
  <2>3. QED
    BY <1>3, <1>4, <1>6, <1>7, <1>8, <2>1, <2>2, ChangeGoesOn
<1>9. QED
  BY <1>3, <1>8, SessionsKept, EndStep

-----------------------------------------------------------------------------
(* Accounts change.                                                        *)

\* The account of a session is one of the accounts.
LEMMA SessionUsers ==
  ASSUME AccountInv
  PROVE  \A s \in Sid : session[s] # NoSession => session[s].user \in User
BY DEF AccountInv, Types, Session

\* A login that used a recovery code takes it off its account, and no more.
LEMMA AcceptStep ==
  ASSUME AccountInv, NEW r \in Req, Accept(r)
  PROVE  AccountInv'
<1>1. PICK u : u = row[r].user
  OBVIOUS
<1>2. PICK x : x = [NoRow EXCEPT !.kind = "login", !.user = u]
  OBVIOUS
<1>3. PICK y : y = [account[u] EXCEPT !.codes = CodesAfter(r)]
  OBVIOUS
<1>4. /\ pc[r] = "accept" /\ UNCHANGED <<session, clock>>
      /\ account' = IF Exists(u) THEN [account EXCEPT ![u] = y] ELSE account
      /\ Goto(r, "clear") /\ row' = [row EXCEPT ![r] = x]
  BY <1>1, <1>2, <1>3 DEF Accept
<1>5. /\ u \in User /\ row[r] \in Row /\ row[r].acct \in Account
      /\ account[u] \in Account /\ SomeAccount(account[u])
  <2>1. u \in User /\ row[r] \in Row
    BY <1>1, <1>4, RequestFacts DEF PlaceFits, LoginPlaces
  <2>2. QED
    BY <2>1, RequestFacts DEF Row
<1>6. CodesAfter(r) \subseteq Code
  BY <1>1, <1>5 DEF CodesAfter, Account
<1>7. /\ y \in Account /\ y.role = account[u].role /\ y.enabled = account[u].enabled
      /\ y.on = account[u].on /\ y.secret = account[u].secret
  BY <1>3, <1>5, <1>6 DEF Account
<1>8. Exists(u) => account[u].role \in Roles
  BY <1>5 DEF Exists, SomeAccount
<1>9. account' \in [User -> Account]
  BY <1>4, <1>7 DEF AccountInv, Types
<1>10. \A v \in User :
         /\ account'[v].role = account[v].role /\ account'[v].enabled = account[v].enabled
         /\ account'[v].on = account[v].on /\ account'[v].secret = account[v].secret
         /\ account'[v] = account[v] \/ (account'[v].role \in Roles /\ account'[v] \in Account)
         /\ account[v] \notin {Gone, Unborn} => account'[v] \notin {Gone, Unborn}
  BY <1>4, <1>7, <1>8, GoneAndUnborn DEF AccountInv, Types, Exists, Roles, None
<1>11. x \in Row /\ x.kind = "login" /\ x.user = u /\ x.acct = NoRow.acct
  BY <1>2, <1>5, NoRowFits DEF Row, Kinds
<1>12. "login" \notin Changes
  BY DEF Changes, AdminKinds, OwnKinds
<1>13. /\ pc' \in [Req -> Places] /\ row' \in [Req -> Row] /\ pc'[r] = "clear" /\ row'[r] = x
       /\ \A o \in Req \ {r} : pc'[o] = pc[o] /\ row'[o] = row[o]
  BY <1>4, <1>11 DEF AccountInv, Types, Goto, Places, LoginPlaces
<1>14. Types'
  BY <1>4, <1>9, <1>13 DEF AccountInv, Types
<1>15. RowsSound'
  BY <1>10, <1>11, <1>13, NoRowFits DEF AccountInv, RowsSound, SomeAccount
<1>16. RequestsSound'
  <2>1. PlaceFits("clear", x)
    BY <1>5, <1>11 DEF PlaceFits, LoginPlaces, ChangePlaces
  <2>2. QED
    BY <1>13, <2>1 DEF AccountInv, RequestsSound
<1>17. NoOrphanSessions'
  BY <1>4, <1>10, SessionUsers DEF AccountInv, NoOrphanSessions, Exists
<1>18. ChangesApart'
  BY <1>11, <1>12, <1>13 DEF AccountInv, ChangesApart
<1>19. AdministratorsRemain'
  <2>1. \A v \in User : ActiveAdmin(v)' <=> ActiveAdmin(v)
    BY <1>10 DEF ActiveAdmin
  <2>2. ASSUME ~Overlap, NEW o \in Req \ {r} PROVE StillTrue(pc[o], row[o])'
    <3>1. PICK p, z : p = pc[o] /\ z = row[o]
      OBVIOUS
    <3>2. StillTrue(p, z) /\ PlaceFits(p, z)
      BY <2>2, <3>1, RequestFacts
    <3>3. p \in ChangePlaces \cup {"touch"} => z.user \in User
      BY <3>2 DEF PlaceFits
    <3>4. p \in {"touch", "look", "count", "look-again", "write"} /\ Takes(z) =>
            \E v \in User \ {z.user} : ActiveAdmin(v)'
      BY <2>1, <3>2 DEF StillTrue
    <3>5. p = "write" => z.user \in User
      BY <3>3 DEF ChangePlaces
    <3>6. /\ p = "write" /\ z.kind = "recover" /\ z.acct \notin {Gone, Unborn} =>
               z.acct.role = account'[z.user].role
          /\ p = "write" /\ z.kind = "confirm" => account'[z.user].secret # None
      BY <1>10, <3>2, <3>5 DEF StillTrue
    <3>7. pc'[o] = p /\ row'[o] = z
      BY <1>13, <3>1
    <3>8. QED
      BY <3>4, <3>6, <3>7 DEF StillTrue
  <2>3. StillTrue(pc[r], row[r])'
    BY <1>13 DEF StillTrue
  <2>4. QED
    BY <1>10, <2>1, <2>2, <2>3 DEF AccountInv, AdministratorsRemain
<1>20. QED
  BY <1>14, <1>15, <1>16, <1>17, <1>18, <1>19 DEF AccountInv

(***************************************************************************)
(* What an UPDATE leaves of a row: it stays somebody's, keeps who may sign *)
(* in unless it is an update or a recovery, and a second factor that is on *)
(* afterwards was on, with its secret, or is the one confirmed.            *)
(***************************************************************************)
LEMMA WrittenIs ==
  ASSUME NEW r \in Req, row[r] \in Row, row[r].kind \in Changes \ {"create", "delete"},
         NEW a \in Account, a.role \in Roles,
         row[r].kind = "recover" => row[r].acct.role \in Roles
  PROVE  /\ Written(r, a) \in Account /\ Written(r, a).role \in Roles
         /\ row[r].kind = "update" =>
              Written(r, a).role = row[r].want.role /\ Written(r, a).enabled = row[r].want.enabled
         /\ row[r].kind = "recover" =>
              Written(r, a).role \in {"admin", row[r].acct.role} /\ Written(r, a).enabled
         /\ row[r].kind \notin {"update", "recover"} =>
              Written(r, a).role = a.role /\ Written(r, a).enabled = a.enabled
         /\ Written(r, a).on /\ (a.on \/ row[r].kind = "confirm" => a.secret # None) =>
              Written(r, a).secret # None
<1>1. PICK w, k, d : w = row[r].want /\ k = row[r].kind /\ d = row[r].acct.role
  OBVIOUS
<1>2. /\ w \in Want /\ k = row[r].kind
      /\ k \in {"update", "password", "own", "setup", "confirm", "disable", "reset", "regenerate", "recover"}
  BY <1>1 DEF Row, Changes, AdminKinds, OwnKinds
<1>3. /\ w.role \in Roles /\ w.enabled \in BOOLEAN /\ w.pass \in Word \cup {None} /\ w.must \in BOOLEAN
  BY <1>2, AccountAssumption DEF Want
<1>4. CASE k = "update"
  <2>1. Written(r, a) = [a EXCEPT !.role = w.role, !.enabled = w.enabled]
    BY <1>1, <1>4 DEF Written
  <2>2. QED
    BY <1>1, <1>3, <1>4, <2>1 DEF Account
<1>5. CASE k = "password"
  <2>1. Written(r, a) = [a EXCEPT !.pass = w.pass, !.must = w.must]
    BY <1>1, <1>5 DEF Written
  <2>2. QED
    BY <1>1, <1>3, <1>5, <2>1 DEF Account
<1>6. CASE k = "own"
  <2>1. Written(r, a) = [a EXCEPT !.pass = w.pass, !.must = FALSE]
    BY <1>1, <1>6 DEF Written
  <2>2. QED
    BY <1>1, <1>3, <1>6, <2>1 DEF Account
<1>7. CASE k = "setup"
  <2>1. Written(r, a) = [a EXCEPT !.on = FALSE, !.secret = r, !.codes = {r}]
    BY <1>1, <1>7 DEF Written
  <2>2. r \in Secret /\ {r} \subseteq Code
    BY DEF Secret, Code
  <2>3. PICK y : y = [a EXCEPT !.on = FALSE, !.secret = r]
    OBVIOUS
  <2>4. y \in Account /\ y.role = a.role /\ y.enabled = a.enabled /\ ~y.on
    BY <2>2, <2>3 DEF Account
  <2>5. Written(r, a) = [y EXCEPT !.codes = {r}]
    BY <2>1, <2>3
  <2>6. Written(r, a) \in Account /\ Written(r, a).role = y.role /\ Written(r, a).enabled = y.enabled
        /\ ~Written(r, a).on
    BY <2>2, <2>4, <2>5 DEF Account
  <2>7. QED
    BY <1>1, <1>7, <2>4, <2>6
<1>8. CASE k = "confirm"
  <2>1. Written(r, a) = [a EXCEPT !.on = TRUE]
    BY <1>1, <1>8 DEF Written
  <2>2. QED
    BY <1>1, <1>8, <2>1 DEF Account
<1>9. CASE k \in {"disable", "reset"}
  <2>1. Written(r, a) = [a EXCEPT !.on = FALSE, !.secret = None, !.codes = {}]
    BY <1>1, <1>9 DEF Written
  <2>2. None \in Secret /\ {} \subseteq Code
    BY DEF Secret
  <2>3. QED
    BY <1>1, <1>9, <2>1, <2>2 DEF Account
<1>10. CASE k = "regenerate"
  <2>1. Written(r, a) = [a EXCEPT !.codes = {r}]
    BY <1>1, <1>10 DEF Written
  <2>2. {r} \subseteq Code
    BY DEF Code
  <2>3. QED
    BY <1>1, <1>10, <2>1, <2>2 DEF Account
<1>11. CASE k = "recover"
  <2>1. PICK role : role = IF w.role = "admin" THEN "admin" ELSE d
    OBVIOUS
  <2>2. Written(r, a) = [a EXCEPT !.pass = w.pass, !.must = TRUE, !.enabled = TRUE, !.role = role]
    BY <1>1, <1>11, <2>1 DEF Written
  <2>3. role \in {"admin", d} /\ role \in Roles
    BY <1>1, <1>11, <2>1 DEF Roles
  <2>4. PICK b : b = [a EXCEPT !.pass = w.pass, !.must = TRUE]
    OBVIOUS
  <2>5. b \in Account /\ b.on = a.on /\ b.secret = a.secret
    BY <1>3, <2>4 DEF Account
  <2>6. PICK c : c = [b EXCEPT !.enabled = TRUE, !.role = role]
    OBVIOUS
  <2>7. c \in Account /\ c.on = b.on /\ c.secret = b.secret /\ c.role = role /\ c.enabled
    BY <2>3, <2>5, <2>6 DEF Account
  <2>8. Written(r, a) = c
    BY <2>2, <2>4, <2>6
  <2>9. QED
    BY <1>1, <1>11, <2>3, <2>5, <2>7, <2>8
<1>12. QED
  BY <1>2, <1>4, <1>5, <1>6, <1>7, <1>8, <1>9, <1>10, <1>11

\* The row of an account changes, and the request ends or goes on to revoke.
\* A change goes on to revoke sessions or to report.
GoesOn(r) == \E p \in {"revoke", "report"} : Goto(r, p) /\ UNCHANGED row

LEMMA AccountChange ==
  ASSUME AccountInv, NEW r \in Req, pc[r] = "write",
         NEW u \in User, NEW y \in Account, SomeAccount(y), account' = [account EXCEPT ![u] = y],
         GoesOn(r) \/ End(r),
         clock' = clock, session' \in [Sid -> Session \cup {NoSession}],
         \A s \in Sid : session'[s] # NoSession =>
            session'[s].user \in User /\ Exists(session'[s].user)
            /\ (session'[s].user = u => y \notin {Gone, Unborn}),
         ~Overlap => (y.on => y.secret # None) /\ \E v \in User : ActiveAdmin(v)'
  PROVE  AccountInv'
<1>1. row[r].kind \in Changes /\ row[r].user \in User
  BY RequestFacts DEF PlaceFits, ChangePlaces
<1>2. /\ pc' \in [Req -> Places] /\ row' \in [Req -> Row] /\ pc'[r] \in {"revoke", "report", "done"}
      /\ row'[r] = row[r] \/ row'[r] = NoRow
      /\ pc'[r] = "done" => row'[r] = NoRow
      /\ pc'[r] # "done" => row'[r] = row[r]
      /\ \A o \in Req \ {r} : pc'[o] = pc[o] /\ row'[o] = row[o]
  BY NoRowFits DEF AccountInv, Types, GoesOn, Goto, End, Places, ChangePlaces
<1>3. account' \in [User -> Account]
  BY DEF AccountInv, Types
<1>4. Types'
  BY <1>2, <1>3 DEF AccountInv, Types
<1>5. RowsSound'
  BY <1>2, NoRowFits DEF AccountInv, RowsSound, Types
<1>6. RequestsSound'
  <2>1. PlaceFits(pc'[r], row'[r])
    BY <1>1, <1>2, NoRowFits DEF PlaceFits, LoginPlaces, ChangePlaces
  <2>2. QED
    BY <1>2, <2>1 DEF AccountInv, RequestsSound
<1>7. NoOrphanSessions'
  BY DEF AccountInv, Types, NoOrphanSessions, Exists
<1>8. ChangesApart'
  BY <1>1, <1>2, NoRowFits DEF AccountInv, ChangesApart, Kinds
<1>9. AdministratorsRemain'
  <2>1. ASSUME ~Overlap, NEW o \in Req \ {r} PROVE StillTrue(pc[o], row[o])'
    <3>1. row[o].kind \notin Changes
      BY <1>1, <2>1 DEF AccountInv, ChangesApart
    <3>2. row'[o].kind \notin Changes
      BY <1>2, <3>1
    <3>3. QED
      BY <3>2 DEF StillTrue, Takes, Changes, AdminKinds, OwnKinds
  <2>2. StillTrue(pc[r], row[r])'
    BY <1>2 DEF StillTrue
  <2>3. ~Overlap => \A v \in User : account'[v].on => account'[v].secret # None
    BY DEF AccountInv, AdministratorsRemain, Types
  <2>4. QED
    BY <2>1, <2>2, <2>3 DEF AdministratorsRemain
<1>10. QED
  BY <1>4, <1>5, <1>6, <1>7, <1>8, <1>9 DEF AccountInv

\* The INSERT of a new account, which no administrator can have been.
LEMMA InsertStep ==
  ASSUME AccountInv, NEW r \in Req, pc[r] = "write", NEW u \in User, u = row[r].user,
         account[u] = Unborn, account' = [account EXCEPT ![u] = Inserted(r)], UNCHANGED <<session, clock>>,
         GoesOn(r) \/ End(r)
  PROVE  AccountInv'
<1>1. PICK y, w : y = Inserted(r) /\ w = row[r].want
  OBVIOUS
<1>2. PICK must : must = ((row[r].kind = "recover") \/ row[r].want.must)
  OBVIOUS
<1>3. y = [Gone EXCEPT !.role = w.role, !.enabled = TRUE, !.pass = w.pass, !.must = must]
  BY <1>1, <1>2 DEF Inserted
<1>4. w \in Want /\ must \in BOOLEAN
  BY <1>1, <1>2, RequestFacts DEF Row
<1>5. w.role \in Roles /\ w.pass \in Word \cup {None}
  BY <1>4, AccountAssumption DEF Want
<1>6. y \in Account /\ y.role = w.role /\ ~y.on
  <2>1. PICK b : b = [Gone EXCEPT !.role = w.role, !.enabled = TRUE]
    OBVIOUS
  <2>2. b \in Account /\ b.role = w.role /\ ~b.on
    BY <1>5, <2>1, GoneAndUnborn DEF Account
  <2>3. y = [b EXCEPT !.pass = w.pass, !.must = must]
    BY <1>3, <2>1
  <2>4. QED
    BY <1>4, <1>5, <2>2, <2>3 DEF Account
<1>7. SomeAccount(y) /\ y \notin {Gone, Unborn}
  BY <1>5, <1>6, GoneAndUnborn DEF SomeAccount, Roles, None
<1>8. ~Overlap => \E v \in User : ActiveAdmin(v)'
  <2>1. ASSUME ~Overlap PROVE \E v \in User : ActiveAdmin(v)'
    <3>1. PICK v \in User : ActiveAdmin(v)
      BY <2>1 DEF AccountInv, AdministratorsRemain
    <3>2. v # u
      BY <3>1, GoneAndUnborn DEF ActiveAdmin
    <3>3. account'[v] = account[v]
      BY <3>2 DEF AccountInv, Types
    <3>4. QED
      BY <3>1, <3>3 DEF ActiveAdmin
  <2>2. QED
    BY <2>1
<1>9. session' \in [Sid -> Session \cup {NoSession}]
  BY SessionsKept DEF AccountInv, Types
<1>10. \A s \in Sid : session'[s] # NoSession =>
         session'[s].user \in User /\ Exists(session'[s].user)
         /\ (session'[s].user = u => y \notin {Gone, Unborn})
  BY <1>7, SessionUsers DEF AccountInv, NoOrphanSessions
<1>11. account' = [account EXCEPT ![u] = y]
  BY <1>1
<1>12. ~Overlap => (y.on => y.secret # None) /\ \E v \in User : ActiveAdmin(v)'
  BY <1>6, <1>8
<1>13. QED
  BY <1>6, <1>7, <1>9, <1>10, <1>11, <1>12, AccountChange

\* The UPDATE of an account that is there.
LEMMA UpdateStep ==
  ASSUME AccountInv, NEW r \in Req, pc[r] = "write", NEW u \in User, u = row[r].user,
         Exists(u), ~Inserts(r), row[r].kind # "delete",
         account' = [account EXCEPT ![u] = Written(r, account[u])], UNCHANGED <<session, clock>>,
         GoesOn(r) \/ End(r)
  PROVE  AccountInv'
<1>1. PICK y, k, w, d : y = Written(r, account[u]) /\ k = row[r].kind /\ w = row[r].want /\ d = row[r].acct.role
  OBVIOUS
<1>2. row[r] \in Row /\ k \in Changes \ {"create", "delete"} /\ SomeAccount(row[r].acct)
  BY <1>1, RequestFacts DEF PlaceFits, ChangePlaces, Inserts
<1>3. account[u] \in Account /\ account[u].role \in Roles
  BY RequestFacts DEF Exists, SomeAccount
<1>4. k = "recover" => row[r].acct \notin {Gone, Unborn} /\ d \in Roles
  BY <1>1, <1>2 DEF Inserts, SomeAccount
<1>5. /\ y \in Account /\ y.role \in Roles
      /\ k = "update" => y.role = w.role /\ y.enabled = w.enabled
      /\ k = "recover" => y.role \in {"admin", d} /\ y.enabled
      /\ k \notin {"update", "recover"} => y.role = account[u].role /\ y.enabled = account[u].enabled
      /\ y.on /\ (account[u].on \/ k = "confirm" => account[u].secret # None) => y.secret # None
  BY <1>1, <1>2, <1>3, <1>4, WrittenIs
<1>6. SomeAccount(y) /\ y \notin {Gone, Unborn}
  BY <1>5, GoneAndUnborn DEF SomeAccount, Roles, None
<1>7. account' = [account EXCEPT ![u] = y]
  BY <1>1
<1>8. ASSUME ~Overlap PROVE (y.on => y.secret # None) /\ \E v \in User : ActiveAdmin(v)'
  <2>1. /\ \E v \in User : ActiveAdmin(v)
        /\ \A v \in User : account[v].on => account[v].secret # None
        /\ Takes(row[r]) => \E v \in User \ {u} : ActiveAdmin(v)
        /\ k = "recover" => d = account[u].role
        /\ k = "confirm" => account[u].secret # None
    BY <1>1, <1>4, <1>8 DEF AccountInv, AdministratorsRemain, StillTrue
  <2>2. y.on => y.secret # None
    BY <1>5, <2>1
  <2>3. \A v \in User \ {u} : ActiveAdmin(v) => ActiveAdmin(v)'
    BY <1>7 DEF ActiveAdmin, AccountInv, Types
  <2>4. ActiveAdmin(u)' <=> y.role = "admin" /\ y.enabled
    BY <1>7 DEF ActiveAdmin, AccountInv, Types
  <2>5. CASE k = "update"
    <3>1. CASE Takes(row[r])
      BY <2>1, <2>2, <2>3, <3>1
    <3>2. CASE ~Takes(row[r])
      <4>1. y.role = "admin" /\ y.enabled
        BY <1>1, <1>5, <2>5, <3>2 DEF Takes
      <4>2. QED
        BY <2>2, <2>4, <4>1
    <3>3. QED
      BY <3>1, <3>2
  <2>6. CASE k # "update"
    <3>1. ActiveAdmin(u) => ActiveAdmin(u)'
      BY <1>5, <2>1, <2>4, <2>6 DEF ActiveAdmin
    <3>2. QED
      BY <2>1, <2>2, <2>3, <3>1
  <2>7. QED
    BY <2>5, <2>6
<1>9. session' \in [Sid -> Session \cup {NoSession}]
  BY DEF AccountInv, Types
<1>10. \A s \in Sid : session'[s] # NoSession =>
         session'[s].user \in User /\ Exists(session'[s].user)
         /\ (session'[s].user = u => y \notin {Gone, Unborn})
  BY <1>6, SessionUsers DEF AccountInv, NoOrphanSessions
<1>11. QED
  BY <1>5, <1>6, <1>7, <1>8, <1>9, <1>10, AccountChange

\* A deletion takes the sessions along.
LEMMA DeleteStep ==
  ASSUME AccountInv, NEW r \in Req, pc[r] = "write", NEW u \in User, u = row[r].user,
         row[r].kind = "delete", account' = [account EXCEPT ![u] = Gone],
         session' = Without(SessionsOf(u)), clock' = clock,
         GoesOn(r) \/ End(r)
  PROVE  AccountInv'
<1>1. Gone \in Account /\ ~Gone.on /\ SomeAccount(Gone)
  BY GoneAndUnborn DEF SomeAccount
<1>2. ASSUME ~Overlap PROVE \E v \in User : ActiveAdmin(v)'
  <2>1. PICK v \in User \ {u} : ActiveAdmin(v)
    BY <1>2 DEF AccountInv, AdministratorsRemain, StillTrue, Takes
  <2>2. account'[v] = account[v]
    BY <2>1 DEF AccountInv, Types
  <2>3. QED
    BY <2>1, <2>2 DEF ActiveAdmin
<1>3. /\ session' \in [Sid -> Session \cup {NoSession}]
      /\ \A s \in Sid : session'[s] # NoSession => session'[s] = session[s] /\ session[s].user # u
  BY DEF AccountInv, Types, Without, SessionsOf
<1>4. \A s \in Sid : session'[s] # NoSession =>
        session'[s].user \in User /\ Exists(session'[s].user)
        /\ (session'[s].user = u => Gone \notin {Gone, Unborn})
  BY <1>3, SessionUsers DEF AccountInv, NoOrphanSessions
<1>5. ~Overlap => (Gone.on => Gone.secret # None) /\ \E v \in User : ActiveAdmin(v)'
  BY <1>1, <1>2
<1>6. session' \in [Sid -> Session \cup {NoSession}]
  BY <1>3
<1>7. QED
  BY <1>1, <1>4, <1>5, <1>6, AccountChange

\* A change goes on, or ends, over accounts and sessions as they are.
LEMMA WriteOfNothing ==
  ASSUME AccountInv, NEW r \in Req, pc[r] = "write", UNCHANGED <<account, session, clock>>,
         GoesOn(r) \/ End(r)
  PROVE  AccountInv'
<1>1. ASSUME NEW p \in {"revoke", "report"}, Goto(r, p), UNCHANGED row PROVE AccountInv'
  <2>1. /\ row[r] \in Row /\ SomeAccount(row[r].acct) /\ row' = [row EXCEPT ![r] = row[r]]
    BY <1>1, RequestFacts
  <2>2. pc[r] \in ChangePlaces /\ p \in ChangePlaces
    BY DEF ChangePlaces
  <2>3. StillTrue(p, row[r])
    BY DEF StillTrue
  <2>4. QED
    BY <1>1, <2>1, <2>2, <2>3, ChangeGoesOn
<1>2. QED
  BY <1>1, SessionsKept, EndStep DEF GoesOn

LEMMA WriteStep ==
  ASSUME AccountInv, NEW r \in Req, Write(r)
  PROVE  AccountInv'
<1>1. PICK u : u = row[r].user
  OBVIOUS
<1>2. /\ pc[r] = "write" /\ clock' = clock
      /\ GoesOn(r) \/ End(r)
      /\ \/ /\ account[u] = Unborn
            /\ account' = [account EXCEPT ![u] = Inserted(r)] /\ UNCHANGED session
         \/ /\ ~Inserts(r) /\ row[r].kind # "delete" /\ UNCHANGED session
            /\ account' = IF Exists(u) THEN [account EXCEPT ![u] = Written(r, @)] ELSE account
         \/ /\ row[r].kind = "delete"
            /\ account' = [account EXCEPT ![u] = Gone]
            /\ session' = Without(SessionsOf(u))
  BY <1>1 DEF Write, GoesOn
<1>3. u \in User
  BY <1>1, <1>2, RequestFacts DEF PlaceFits, ChangePlaces
<1>4. CASE /\ account[u] = Unborn
           /\ account' = [account EXCEPT ![u] = Inserted(r)] /\ UNCHANGED session
  BY <1>1, <1>2, <1>3, <1>4, InsertStep
<1>5. CASE /\ ~Inserts(r) /\ row[r].kind # "delete" /\ UNCHANGED session
           /\ account' = IF Exists(u) THEN [account EXCEPT ![u] = Written(r, @)] ELSE account
  <2>1. CASE Exists(u)
    BY <1>1, <1>2, <1>3, <1>5, <2>1, UpdateStep
  <2>2. CASE ~Exists(u)
    BY <1>2, <1>5, <2>2, WriteOfNothing
  <2>3. QED
    BY <2>1, <2>2
<1>6. CASE /\ row[r].kind = "delete"
           /\ account' = [account EXCEPT ![u] = Gone]
           /\ session' = Without(SessionsOf(u))
  BY <1>1, <1>2, <1>3, <1>6, DeleteStep
<1>7. QED
  BY <1>2, <1>4, <1>5, <1>6

LEMMA RevokeStep ==
  ASSUME AccountInv, NEW r \in Req, Revoke(r)
  PROVE  AccountInv'
<1>1. /\ pc[r] = "revoke" /\ Goto(r, "report") /\ row' = [row EXCEPT ![r] = row[r]]
      /\ UNCHANGED <<account, clock>> /\ session' = Without(SessionsOf(row[r].user))
  BY RequestFacts DEF Revoke
<1>2. row[r] \in Row /\ SomeAccount(row[r].acct) /\ PlaceFits("report", row[r]) /\ "report" \in Places
  BY <1>1, RequestFacts DEF PlaceFits, LoginPlaces, ChangePlaces, Places
<1>3. StillTrue("report", row[r])
  BY DEF StillTrue
<1>4. row[r].kind \in Changes
  BY <1>1, RequestFacts DEF PlaceFits, ChangePlaces
<1>5. QED
  BY <1>1, <1>2, <1>3, <1>4, SessionsKept, MoveStep

LEMMA ReportStep ==
  ASSUME AccountInv, NEW r \in Req, Report(r)
  PROVE  AccountInv'
<1>1. End(r) /\ UNCHANGED <<account, session, clock>>
  BY DEF Report
<1>2. QED
  BY <1>1, SessionsKept, EndStep

-----------------------------------------------------------------------------
(* The whole system.                                                       *)

LEMMA BeginStep ==
  ASSUME AccountInv, NEW r \in Req, Begin(r)
  PROVE  AccountInv'
<1>1. ASSUME NEW u \in User, NEW p \in Tries[r], NEW code \in {None, "totp"} \cup account[u].codes,
             Login(r, u, p, code)
      PROVE  AccountInv'
  <2>1. p \in Word
    BY AccountAssumption
  <2>2. QED
    BY <1>1, <2>1, LoginStep
<1>2. ASSUME NEW what \in Offered[r] \ {"login", "logout", "recover"}, NEW s \in Sid,
             NEW via \in {"cookie", "reload"}, NEW u \in User, NEW want \in Wants(what),
             NEW p \in WordsFor(what), Authenticate(r, s, via, what, u, p, want)
      PROVE  AccountInv'
  <2>1. p \in Word \cup {None}
    BY DEF WordsFor
  <2>2. QED
    BY <1>2, <2>1, AuthenticateStep
<1>3. ASSUME NEW s \in Sid, Logout(r, s)
      PROVE  AccountInv'
  BY <1>3, LogoutStep
<1>4. ASSUME NEW u \in User, NEW want \in Wants("recover"), Recover(r, u, want)
      PROVE  AccountInv'
  BY <1>4, RecoverStep
<1>5. QED
  BY <1>1, <1>2, <1>3, <1>4 DEF Begin

LEMMA ContinueStep ==
  ASSUME AccountInv, NEW r \in Req, Continue(r)
  PROVE  AccountInv'
<1>1. CASE NameInUse(r)
  <2>1. End(r) /\ UNCHANGED <<account, session, clock>>
    BY <1>1 DEF NameInUse
  <2>2. QED
    BY <2>1, SessionsKept, EndStep
<1>2. QED
  BY <1>1, VerifyStep, AcceptStep, ClearPairStep, CreateSessionStep, CreateTokenStep, TouchStep, DropStep,
     LookStep, CountStep, LookAgainStep, WriteStep, RevokeStep,
     ReportStep DEF Continue

LEMMA RestartStep ==
  ASSUME AccountInv, Restart
  PROVE  AccountInv'
<1>1. PICK S : S = {s \in Sid : session[s] # NoSession /\ Expired(s)}
  OBVIOUS
<1>2. /\ pc' = [r \in Req |-> IF InProgress(r) THEN "lost" ELSE pc[r]]
      /\ row' = [r \in Req |-> NoRow] /\ session' = Without(S) /\ UNCHANGED <<account, clock>>
  BY <1>1 DEF Restart
<1>3. /\ \A r \in Req : pc'[r] \in {"new", "done", "lost"} /\ row'[r] = NoRow
      /\ pc' \in [Req -> Places] /\ row' \in [Req -> Row]
  BY <1>2, NoRowFits DEF AccountInv, Types, InProgress, Places
<1>4. Types'
  BY <1>2, <1>3, SessionsKept DEF AccountInv, Types
<1>5. RowsSound'
  BY <1>2, <1>3, NoRowFits DEF AccountInv, RowsSound
<1>6. RequestsSound'
  BY <1>3, NoRowFits DEF RequestsSound
<1>7. NoOrphanSessions'
  BY <1>2, SessionsKept DEF NoOrphanSessions, Exists
<1>8. ChangesApart'
  BY <1>3, NoRowFits DEF ChangesApart, Kinds
<1>9. AdministratorsRemain'
  <2>1. \A r \in Req : StillTrue(pc[r], row[r])'
    BY <1>3 DEF StillTrue
  <2>2. QED
    BY <1>2, <2>1 DEF AccountInv, AdministratorsRemain, ActiveAdmin
<1>10. QED
  BY <1>4, <1>5, <1>6, <1>7, <1>8, <1>9 DEF AccountInv

\* Whatever leaves accounts, sessions and requests alone, the clock apart.
LEMMA StandStill ==
  ASSUME AccountInv, UNCHANGED <<account, session, pc, row>>, clock' \in Nat
  PROVE  AccountInv'
<1>1. Types' /\ RowsSound' /\ RequestsSound' /\ NoOrphanSessions' /\ ChangesApart'
  BY DEF AccountInv, Types, RowsSound, RequestsSound, NoOrphanSessions, ChangesApart, Exists
<1>2. AdministratorsRemain'
  BY DEF AccountInv, AdministratorsRemain, StillTrue, ActiveAdmin
<1>3. QED
  BY <1>1, <1>2 DEF AccountInv

LEMMA NextPreserves == AccountInv /\ [Next]_vars => AccountInv'
<1> SUFFICES ASSUME AccountInv, [Next]_vars PROVE AccountInv'
  OBVIOUS
<1>1. ASSUME NEW r \in Req, Step(r) PROVE AccountInv'
  BY <1>1, BeginStep, ContinueStep DEF Step
<1>2. CASE Tick
  BY <1>2, StandStill DEF Tick, AccountInv, Types
<1>3. CASE UNCHANGED vars
  BY <1>3, StandStill DEF vars, AccountInv, Types
<1>4. QED
  BY <1>1, <1>2, <1>3, RestartStep DEF Next

\* The rows, the requests and the sessions stay sound, whatever the requests do.
THEOREM AccountInvariant == Spec => []AccountInv
BY InitEstablishes, NextPreserves, PTL DEF Spec

\* A session never outlives its account, also when a login that was verified
\* before the account was deleted creates it afterwards.
THEOREM SessionsHaveAccounts == Spec => []NoOrphanSessions
<1>1. AccountInv => NoOrphanSessions
  BY DEF AccountInv
<1>2. QED
  BY <1>1, AccountInvariant, PTL

\* As long as changes of accounts do not overlap, there is always an
\* administrator who can sign in.
THEOREM SomebodyAdministers == Spec => []AdministratorCanSignIn
<1>1. AccountInv => AdministratorCanSignIn
  BY DEF AccountInv, AdministratorsRemain, AdministratorCanSignIn
<1>2. QED
  BY <1>1, AccountInvariant, PTL

-----------------------------------------------------------------------------
(* What a change leaves of the sign-ins of before.  A session that is out  *)
(* of date, or the sign-in that is about to create one, has an account     *)
(* whose sessions some change is still to revoke.                          *)

Revoking(u) == \E q \in Req : pc[q] = "revoke" /\ row[q].user = u
Verified == {"accept", "clear", "session"}
Early == {"new", "verify"} \cup Verified

OutdatedSound ==
  /\ outdated \subseteq Sid
  /\ \A s \in outdated : session[s] # NoSession => Revoking(session[s].user)
  /\ \A r \in Req \cap outdated : pc[r] \in Verified => Revoking(row[r].user)
  /\ \A r \in Req : pc[r] \in Early => session[r] = NoSession

\* A step of r that creates no session and leaves what r verified as it is.
Quiet(r) ==
  /\ \A o \in Req \ {r} : pc'[o] = pc[o] /\ row'[o] = row[o]
  /\ outdated' \subseteq outdated
  /\ \A s \in Sid : session'[s] # NoSession =>
       session[s] # NoSession /\ session'[s].user = session[s].user
  /\ pc'[r] \in Early => pc[r] \in Early
  /\ r \in outdated' /\ pc'[r] \in Verified => pc[r] \in Verified /\ row'[r].user = row[r].user

LEMMA QuietKeeps ==
  ASSUME AccountInv, OutdatedSound, NEW r \in Req, Quiet(r), pc[r] # "revoke"
  PROVE  OutdatedSound'
<1>1. ASSUME NEW u, Revoking(u) PROVE Revoking(u)'
  BY <1>1 DEF Revoking, Quiet
<1>2. outdated' \subseteq Sid
  BY DEF OutdatedSound, Quiet
<1>3. \A s \in outdated' : session'[s] # NoSession => Revoking(session[s].user)'
  BY <1>1, <1>2 DEF OutdatedSound, Quiet
<1>4. ASSUME NEW o \in Req \cap outdated', pc'[o] \in Verified
      PROVE  Revoking(row[o].user)'
  <2>1. o \in outdated /\ pc[o] \in Verified /\ row'[o].user = row[o].user
    BY <1>4 DEF Quiet
  <2>2. Revoking(row[o].user)
    BY <1>4, <2>1 DEF OutdatedSound
  <2>3. QED
    BY <1>1, <2>1, <2>2
<1>5. \A o \in Req : pc'[o] \in Early => session'[o] = NoSession
  BY DEF OutdatedSound, Quiet, Sid
<1>6. QED
  BY <1>2, <1>3, <1>4, <1>5 DEF OutdatedSound

LEMMA BeginIsQuiet ==
  ASSUME AccountInv, NEW r \in Req, Begin(r)
  PROVE  Quiet(r) /\ pc[r] # "revoke"
<1> USE DEF AccountInv, Types, Goto, Ask, Verified, Early, history
<1>1. ASSUME NEW u, NEW p, NEW code, Login(r, u, p, code)
      PROVE  Quiet(r) /\ pc[r] # "revoke"
  <2>1. PICK x : x = [NoRow EXCEPT !.kind = "login", !.user = u, !.word = p, !.code = code]
    OBVIOUS
  <2>2. /\ pc[r] = "new" /\ UNCHANGED <<session, outdated>>
        /\ row' = row \/ row' = [row EXCEPT ![r] = x]
        /\ \E q \in {"verify", "done"} : Goto(r, q)
    BY <1>1, <2>1 DEF Login
  <2>3. QED
    BY <2>2 DEF Quiet
<1>2. ASSUME NEW what, NEW s \in Sid, NEW via, NEW u \in User, NEW want, NEW p,
             Authenticate(r, s, via, what, u, p, want)
      PROVE  Quiet(r) /\ pc[r] # "revoke"
  <2>1. /\ pc[r] = "new" /\ UNCHANGED <<session, outdated>>
        /\ \E x : row' = row \/ row' = [row EXCEPT ![r] = x]
        /\ \E q \in {"drop", "done", "touch", "look"} : Goto(r, q)
    BY <1>2 DEF Authenticate
  <2>2. QED
    BY <2>1 DEF Quiet
<1>3. ASSUME NEW s \in Sid, Logout(r, s)
      PROVE  Quiet(r) /\ pc[r] # "revoke"
  BY <1>3 DEF Logout, Quiet, Without
<1>4. ASSUME NEW u \in User, NEW want, Recover(r, u, want)
      PROVE  Quiet(r) /\ pc[r] # "revoke"
  <2>1. PICK x : x = [NoRow EXCEPT !.kind = "recover", !.user = u, !.want = want]
    OBVIOUS
  <2>2. /\ pc[r] = "new" /\ UNCHANGED <<session, outdated>>
        /\ row' = [row EXCEPT ![r] = x] /\ Goto(r, "look")
    BY <1>4, <2>1 DEF Recover
  <2>3. QED
    BY <2>2 DEF Quiet
<1>5. QED
  BY <1>1, <1>2, <1>3, <1>4 DEF Begin

\* The steps of a sign-in that create no session, and those of the requests of
\* a session that neither write an account nor revoke.
LEMMA SignInIsQuiet ==
  ASSUME AccountInv, NEW r \in Req,
         Verify(r) \/ Accept(r) \/ ClearPair(r) \/ CreateToken(r)
  PROVE  Quiet(r) /\ pc[r] # "revoke"
<1> USE DEF AccountInv, Types, Goto, Verified, Early, history
<1>1. CASE Verify(r)
  <2>1. PICK x : row' = [row EXCEPT ![r] = x]
    BY <1>1 DEF Verify, End
  <2>2. pc[r] = "verify" /\ outdated' = outdated \ {r} /\ session' = session
        /\ \E q \in {"accept", "done"} : Goto(r, q)
    BY <1>1 DEF Verify, End
  <2>3. QED
    BY <2>1, <2>2 DEF Quiet
<1>2. CASE Accept(r)
  <2>1. PICK x : x = [NoRow EXCEPT !.kind = "login", !.user = row[r].user]
    OBVIOUS
  <2>2. x.user = row[r].user
    BY <2>1 DEF NoRow
  <2>3. /\ pc[r] = "accept" /\ UNCHANGED <<session, outdated>>
        /\ row' = [row EXCEPT ![r] = x] /\ Goto(r, "clear")
    BY <1>2, <2>1 DEF Accept
  <2>4. QED
    BY <2>2, <2>3 DEF Quiet
<1>3. CASE ClearPair(r)
  BY <1>3 DEF ClearPair, Quiet
<1>4. CASE CreateToken(r)
  <2>1. /\ pc[r] = "token" /\ UNCHANGED outdated /\ Goto(r, "done")
        /\ row' = [row EXCEPT ![r] = NoRow]
    BY <1>4 DEF CreateToken, End
  <2>2. \A s \in Sid : session'[s] # NoSession =>
          session[s] # NoSession /\ session'[s].user = session[s].user
    BY <1>4 DEF CreateToken, Session, NoSession
  <2>3. QED
    BY <2>1, <2>2 DEF Quiet
<1>5. QED
  BY <1>1, <1>2, <1>3, <1>4

LEMMA OtherIsQuiet ==
  ASSUME AccountInv, NEW r \in Req,
         \/ Touch(r) \/ Drop(r) \/ Look(r) \/ Count(r) \/ LookAgain(r)
         \/ NameInUse(r) \/ Report(r)
  PROVE  Quiet(r) /\ pc[r] # "revoke"
<1> USE DEF AccountInv, Types, Goto, Verified, Early, history
<1>1. CASE Touch(r)
  <2>1. /\ pc[r] = "touch" /\ UNCHANGED outdated
        /\ \E q \in {"done", "look"} : pc' = [pc EXCEPT ![r] = q]
    BY <1>1 DEF Touch, End
  <2>2. \A s \in Sid : session'[s] # NoSession =>
          session[s] # NoSession /\ session'[s].user = session[s].user
    <3>1. PICK t, now, y : t = row[r].sid /\ now = row[r].now /\ y = [session[t] EXCEPT !.seen = now]
      OBVIOUS
    <3>2. CASE session' = session
      BY <3>2
    <3>3. CASE session[t] # NoSession /\ session' = [session EXCEPT ![t] = y]
      <4>1. ASSUME NEW s \in Sid, s = t PROVE y.user = session[s].user
        BY <3>1, <3>3, <4>1 DEF Session
      <4>2. QED
        BY <3>3, <4>1
    <3>4. session' = session \/ (session[t] # NoSession /\ session' = [session EXCEPT ![t] = y])
      BY <1>1, <3>1 DEF Touch, Touched
    <3>5. QED
      BY <3>2, <3>3, <3>4
  <2>3. \A o \in Req \ {r} : row'[o] = row[o]
    BY <1>1, ZenonT(40) DEF Touch, End
  <2>4. QED
    BY <2>1, <2>2, <2>3 DEF Quiet
<1>2. CASE Drop(r)
  <2>1. /\ pc[r] = "drop" /\ UNCHANGED outdated /\ row' = [row EXCEPT ![r] = NoRow]
        /\ Goto(r, "done")
    BY <1>2 DEF Drop, End
  <2>2. \A s \in Sid : session'[s] # NoSession => session'[s] = session[s]
    BY <1>2 DEF Drop, Without
  <2>3. QED
    BY <2>1, <2>2 DEF Quiet
<1>3. CASE Look(r) \/ Count(r) \/ LookAgain(r) \/ NameInUse(r) \/ Report(r)
  <2>1. pc[r] \in {"look", "count", "look-again", "write", "report"} /\ UNCHANGED <<session, outdated>>
    BY <1>3 DEF Look, Count, LookAgain, NameInUse, Report
  <2>2. \E q \in {"done", "count", "look-again", "write"} : Goto(r, q)
    BY <1>3 DEF Look, Count, LookAgain, NameInUse, Report, End
  <2>3. row' = row \/ \E x : row' = [row EXCEPT ![r] = x]
    BY <1>3 DEF Look, Count, LookAgain, NameInUse, Report, End
  <2>4. QED
    BY <2>1, <2>2, <2>3 DEF Quiet
<1>4. QED
  BY <1>1, <1>2, <1>3

\* The session of a sign-in that is out of date has a revocation ahead.
LEMMA CreateSessionSound ==
  ASSUME AccountInv, OutdatedSound, NEW r \in Req, CreateSession(r)
  PROVE  OutdatedSound'
<1> USE DEF AccountInv, Types
<1>1. CASE session' = session
  <2>1. /\ pc[r] = "session" /\ UNCHANGED outdated
        /\ \E q \in {"token", "done"} : Goto(r, q)
        /\ row' = row \/ row' = [row EXCEPT ![r] = NoRow]
    BY DEF CreateSession, End, history
  <2>2. Quiet(r)
    BY <1>1, <2>1 DEF Quiet, Goto, Verified, Early
  <2>3. QED
    BY <2>1, <2>2, QuietKeeps
<1>2. CASE session' # session
  <2>1. PICK u, y : u = row[r].user /\ y = [user |-> u, expires |-> clock + TTL, seen |-> clock, token |-> FALSE]
    OBVIOUS
  <2>2. /\ pc[r] = "session" /\ UNCHANGED <<outdated, row>>
        /\ session' = [session EXCEPT ![r] = y] /\ Goto(r, "token")
    BY <1>2, <2>1 DEF CreateSession, history
  <2>3. ASSUME NEW v, Revoking(v) PROVE Revoking(v)'
    BY <2>2, <2>3 DEF Revoking, Goto
  <2>4. r \in outdated => Revoking(u)
    BY <2>1, <2>2 DEF OutdatedSound, Verified
  <2>5. \A s \in outdated' : session'[s] # NoSession => Revoking(session[s].user)'
    BY <2>1, <2>2, <2>3, <2>4 DEF OutdatedSound
  <2>6. \A o \in Req \cap outdated' : pc'[o] \in Verified => Revoking(row[o].user)'
    BY <2>2, <2>3 DEF OutdatedSound, Goto, Verified
  <2>7. \A o \in Req : pc'[o] \in Early => session'[o] = NoSession
    BY <2>2 DEF OutdatedSound, Goto, Early, Verified, Sid
  <2>8. QED
    BY <2>2, <2>5, <2>6, <2>7 DEF OutdatedSound
<1>3. QED
  BY <1>1, <1>2

\* A change that puts sign-ins out of date goes on to revoke.
LEMMA WriteSound ==
  ASSUME AccountInv, OutdatedSound, NEW r \in Req, Write(r)
  PROVE  OutdatedSound'
<1> USE DEF AccountInv, Types
<1>1. PICK u : u = row[r].user
  OBVIOUS
<1>2. /\ pc[r] = "write"
      /\ (GoesOn(r) /\ (EndsSessions(r) => Goto(r, "revoke") /\ UNCHANGED row))
         \/ (End(r) /\ ~Exists(u))
      /\ outdated' = IF Outdates(r) /\ Exists(u) THEN outdated \cup SessionsOf(u) \cup SigningIn(u)
                     ELSE outdated
      /\ \A s \in Sid : session'[s] # NoSession => session'[s] = session[s]
  BY <1>1 DEF Write, Without, GoesOn
<1>3. CASE ~(Outdates(r) /\ Exists(u))
  <2>1. /\ \E q \in {"done", "revoke", "report"} : Goto(r, q)
        /\ row' = row \/ row' = [row EXCEPT ![r] = NoRow]
    BY <1>2 DEF GoesOn, End
  <2>2. Quiet(r)
    BY <1>2, <1>3, <2>1 DEF Quiet, Goto, Verified, Early
  <2>3. QED
    BY <1>2, <2>2, QuietKeeps
<1>4. CASE Outdates(r) /\ Exists(u)
  <2>1. Goto(r, "revoke") /\ UNCHANGED row
    BY <1>2, <1>4 DEF Outdates, EndsSessions
  <2>2. Revoking(u)'
    BY <1>1, <2>1 DEF Revoking, Goto
  <2>3. ASSUME NEW v, Revoking(v) PROVE Revoking(v)'
    BY <1>2, <2>1, <2>3 DEF Revoking, Goto
  <2>4. outdated' = outdated \cup SessionsOf(u) \cup SigningIn(u)
    BY <1>2, <1>4
  <2>5. outdated' \subseteq Sid
    BY <2>4 DEF OutdatedSound, SessionsOf, SigningIn, Sid
  <2>6. ASSUME NEW s \in outdated', session'[s] # NoSession
        PROVE  Revoking(session[s].user)'
    <3>1. s \in Sid /\ session'[s] = session[s] /\ session[s] # NoSession
      BY <1>2, <2>5, <2>6
    <3>2. CASE s \in outdated
      BY <2>3, <3>1, <3>2 DEF OutdatedSound
    <3>3. CASE session[s].user = u
      BY <2>2, <3>1, <3>3
    <3>4. s \notin SigningIn(u)
      BY <3>1 DEF SigningIn, OutdatedSound, Early, Verified
    <3>5. QED
      BY <2>4, <3>2, <3>3, <3>4 DEF SessionsOf
  <2>7. ASSUME NEW o \in Req \cap outdated', pc'[o] \in Verified
        PROVE  Revoking(row[o].user)'
    <3>1. o # r /\ pc[o] \in Verified /\ row'[o] = row[o]
      BY <1>2, <2>1, <2>7 DEF Goto, Verified
    <3>2. CASE o \in outdated
      BY <2>3, <3>1, <3>2 DEF OutdatedSound
    <3>3. CASE o \in SessionsOf(u)
      <4>1. session[o].user = u /\ session[o] = NoSession
        BY <3>1, <3>3 DEF SessionsOf, OutdatedSound, Early
      <4>2. u \in User
        BY <1>1, <1>2, RequestFacts DEF PlaceFits, ChangePlaces
      <4>3. QED
        BY <4>1, <4>2, AccountAssumption DEF NoSession
    <3>4. CASE o \in SigningIn(u)
      BY <2>2, <3>1, <3>4 DEF SigningIn
    <3>5. QED
      BY <2>4, <2>7, <3>2, <3>3, <3>4
  <2>8. \A o \in Req : pc'[o] \in Early => session'[o] = NoSession
    BY <1>2, <2>1 DEF OutdatedSound, Goto, Early, Verified, Sid
  <2>9. QED
    BY <2>5, <2>6, <2>7, <2>8 DEF OutdatedSound
<1>5. QED
  BY <1>3, <1>4

\* A revocation leaves of its account no session, and forgets who signs in.
LEMMA RevokeSound ==
  ASSUME AccountInv, OutdatedSound, NEW r \in Req, Revoke(r)
  PROVE  OutdatedSound'
<1> USE DEF AccountInv, Types
<1>1. PICK u : u = row[r].user
  OBVIOUS
<1>2. /\ pc[r] = "revoke" /\ Goto(r, "report") /\ UNCHANGED row
      /\ session' = Without(SessionsOf(u)) /\ outdated' = outdated \ SigningIn(u)
  BY <1>1 DEF Revoke
<1>3. ASSUME NEW v, v # u, Revoking(v) PROVE Revoking(v)'
  BY <1>1, <1>2, <1>3 DEF Revoking, Goto
<1>4. \A s \in Sid : session'[s] # NoSession => session'[s] = session[s] /\ session[s].user # u
  BY <1>2 DEF Without, SessionsOf
<1>5. outdated' \subseteq Sid
  BY <1>2 DEF OutdatedSound
<1>6. \A s \in outdated' : session'[s] # NoSession => Revoking(session[s].user)'
  BY <1>2, <1>3, <1>4, <1>5 DEF OutdatedSound
<1>7. ASSUME NEW o \in Req \cap outdated', pc'[o] \in Verified
      PROVE  Revoking(row[o].user)'
  <2>1. pc[o] \in Verified /\ row'[o] = row[o] /\ o \in outdated
    BY <1>2, <1>7 DEF Goto, Verified
  <2>2. row[o].user # u
    BY <1>2, <1>7, <2>1 DEF SigningIn, Verified
  <2>3. QED
    BY <1>3, <2>1, <2>2 DEF OutdatedSound
<1>8. \A o \in Req : pc'[o] \in Early => session'[o] = NoSession
  BY <1>2, <1>4 DEF OutdatedSound, Goto, Early, Verified, Sid
<1>9. QED
  BY <1>5, <1>6, <1>7, <1>8 DEF OutdatedSound

LEMMA OutdatedAtFirst == Init => OutdatedSound
<1> SUFFICES ASSUME Init PROVE OutdatedSound
  OBVIOUS
<1>1. outdated = {}
  BY DEF Init
<1>2. PICK start \in Starts : session = [s \in Sid |-> IF s \in DOMAIN start.session THEN start.session[s] ELSE NoSession]
  BY DEF Init
<1>3. \A r \in Req : session[r] = NoSession
  BY <1>2, AccountAssumption DEF Sid
<1>4. QED
  BY <1>1, <1>3 DEF OutdatedSound

LEMMA OutdatedPreserved == AccountInv /\ OutdatedSound /\ [Next]_vars => OutdatedSound'
<1> SUFFICES ASSUME AccountInv, OutdatedSound, [Next]_vars PROVE OutdatedSound'
  OBVIOUS
<1>1. ASSUME NEW r \in Req, Step(r) PROVE OutdatedSound'
  BY <1>1, BeginIsQuiet, SignInIsQuiet, OtherIsQuiet, QuietKeeps, CreateSessionSound, WriteSound,
     RevokeSound DEF Step, Continue
<1>2. CASE Tick \/ UNCHANGED vars
  <2>1. UNCHANGED <<outdated, session, pc, row>>
    BY <1>2 DEF Tick, vars, history
  <2>2. QED
    BY <2>1 DEF OutdatedSound, Revoking
<1>3. CASE Restart
  <2>1. outdated' = {} /\ \A r \in Req : pc'[r] \in Early => pc[r] = "new"
    BY <1>3 DEF Restart, InProgress, Early, Verified, AccountInv, Types
  <2>2. \A r \in Req : session[r] = NoSession => session'[r] = NoSession
    BY <1>3 DEF Restart, Without, Sid
  <2>3. QED
    BY <2>1, <2>2 DEF OutdatedSound, Early
<1>4. QED
  BY <1>1, <1>2, <1>3 DEF Next

\* A session of before a change that takes access away is there only as long as
\* the change has its revocation ahead, however sign-ins interleave with it; but
\* for those still at work when the sessions are revoked.
THEOREM ChangesEndSessions == Spec => []ChangeEndsSessions
<1>1. OutdatedSound => ChangeEndsSessions
  BY DEF OutdatedSound, ChangeEndsSessions, Revoking
<1>2. Spec => []OutdatedSound
  BY AccountInvariant, OutdatedAtFirst, OutdatedPreserved, PTL DEF Spec
<1>3. QED
  BY <1>1, <1>2, PTL

-----------------------------------------------------------------------------
(* The budget of one bucket.                                               *)

\* Logins that come in two parts are at most those of both.
LEMMA TwoParts ==
  ASSUME NEW S, NEW T, IsFiniteSet(S), IsFiniteSet(T)
  PROVE  /\ IsFiniteSet(S \cup T)
         /\ Cardinality(S \cup T) <= Cardinality(S) + Cardinality(T)
<1>1. IsFiniteSet(S \cap T) /\ IsFiniteSet(S \cup T)
  BY FS_Subset, FS_Union
<1>2. /\ Cardinality(S) \in Nat /\ Cardinality(T) \in Nat
      /\ Cardinality(S \cap T) \in Nat
  BY <1>1, FS_CardinalityType
<1>3. Cardinality(S \cup T) = Cardinality(S) + Cardinality(T) - Cardinality(S \cap T)
  BY FS_Union
<1>4. QED
  BY <1>1, <1>2, <1>3

\* Some of the logins of A are finitely many, and one more login is one more at
\* most.
LEMMA Counting ==
  ASSUME NEW A, Logins(A), NEW S \in SUBSET A
  PROVE  /\ IsFiniteSet(S) /\ Cardinality(S) \in Nat /\ (S = {} => Cardinality(S) = 0)
         /\ \A T \in SUBSET S : Cardinality(T) <= Cardinality(S)
         /\ \A l : Cardinality(S \cup {l}) <= Cardinality(S) + 1 /\ Cardinality(S \cup {l}) \in Nat
         /\ \A l : IsFiniteSet(S \cup {l})
<1>1. IsFiniteSet(S)
  BY FS_Subset DEF Logins
<1>2. Cardinality(S) \in Nat /\ (S = {} => Cardinality(S) = 0)
  BY <1>1, FS_CardinalityType, FS_EmptySet
<1>3. \A T \in SUBSET S : Cardinality(T) <= Cardinality(S)
  BY <1>1, FS_Subset
<1>4. ASSUME NEW l
      PROVE  /\ Cardinality(S \cup {l}) <= Cardinality(S) + 1 /\ Cardinality(S \cup {l}) \in Nat
             /\ IsFiniteSet(S \cup {l})
  <2>1. /\ IsFiniteSet(S \cup {l})
        /\ Cardinality(S \cup {l}) = IF l \in S THEN Cardinality(S) ELSE Cardinality(S) + 1
    BY <1>1, FS_AddElement
  <2>2. Cardinality(S \cup {l}) \in {Cardinality(S), Cardinality(S) + 1}
    BY <2>1
  <2>3. QED
    BY <1>2, <2>1, <2>2
<1>5. QED
  BY <1>1, <1>2, <1>3, <1>4

\* Time passes.
LEMMA CoveredLater ==
  ASSUME NEW A, NEW s \in Int, NEW a \in Nat, NEW L \in Nat \ {0}, NEW c \in Nat, NEW d \in Nat,
         A \subseteq Req \X Nat, Covered(A, s, a, L, c), c <= d
  PROVE  Covered(A, s, a, L, d)
<1>1. \A l \in A : l[2] \in Nat
  OBVIOUS
<1>2. \A l \in A : l[2] <= d
  BY <1>1 DEF Covered
<1>3. QED
  BY <1>2 DEF Covered

LEMMA WindowIsTime == Window \in Nat \ {0} /\ Block \in Nat \ {0}
BY TimeAssumption

\* No login, no window.
LEMMA NothingIsCovered ==
  ASSUME NEW L \in Nat \ {0}, NEW c \in Nat
  PROVE  Covered({}, -Window, 0, L, c)
<1>1. \A t, u : Since({}, t) = {} /\ Between({}, t, u) = {}
  BY DEF Since, Between
<1>2. Cardinality({}) = 0
  BY FS_EmptySet
<1>3. -Window <= c /\ 0 <= L - 1 /\ 0 <= 2 * L - 1 /\ 0 <= L
  BY WindowIsTime
<1>4. /\ Cardinality(Since({}, -Window)) <= 0
      /\ ~(Since({}, -Window + 1) # {})
      /\ Cardinality(Between({}, -Window - Window + 1, -Window - 1)) <= L - 1
      /\ \A t \in Nat : Cardinality(Between({}, t, t + Window - 1)) <= 2 * L - 1
  <2>1. \A t, u : Cardinality(Since({}, t)) = 0 /\ Cardinality(Between({}, t, u)) = 0
    BY <1>1, <1>2, Zenon
  <2>2. ~(Since({}, -Window + 1) # {})
    BY <1>1
  <2>3. QED
    BY <1>3, <2>1, <2>2
<1>5. QED
  BY <1>3, <1>4 DEF Covered

\* An attempt in the window in force, let through or refused by the other bucket.
LEMMA CountedInWindow ==
  ASSUME NEW A, Logins(A), NEW s \in Int, NEW a \in Nat, NEW L \in Nat \ {0}, NEW c \in Nat,
         Covered(A, s, a, L, c), c - s < Window, a < L,
         NEW r \in Req, NEW B, B = A \/ B = A \cup {<<r, c>>}
  PROVE  Covered(B, s, a + 1, L, c)
<1> DEFINE l == <<r, c>>
<1>1. /\ l[2] = c /\ \A k \in A : k[2] \in Nat /\ k[2] <= c /\ k[2] < s + Window
      /\ s <= c /\ a \in Nat \ {0}
  BY WindowIsTime DEF Logins, Covered
<1>2. \A T \in SUBSET A : IsFiniteSet(T) /\ Cardinality(T) \in Nat
  BY Counting
<1>3. \A T \in SUBSET B : Cardinality(T) \in Nat /\ Cardinality(T) <= Cardinality(T \cap A) + 1
  <2>1. ASSUME NEW T \in SUBSET B
        PROVE  Cardinality(T) \in Nat /\ Cardinality(T) <= Cardinality(T \cap A) + 1
    <3>1. PICK U \in SUBSET A : U = T \cap A
      OBVIOUS
    <3>2. T = U \/ T = U \cup {l}
      BY <3>1
    <3>3. /\ Cardinality(U) \in Nat /\ Cardinality(U \cup {l}) \in Nat
          /\ Cardinality(U \cup {l}) <= Cardinality(U) + 1
      BY Counting
    <3>4. Cardinality(T) \in Nat /\ Cardinality(T) <= Cardinality(U) + 1
      <4>1. CASE T = U
        BY <3>3, <4>1
      <4>2. CASE T = U \cup {l}
        BY <3>3, <4>2
      <4>3. QED
        BY <3>2, <4>1, <4>2
    <3>5. QED
      BY <3>1, <3>4
  <2>2. QED
    BY <2>1
<1>4. \A k \in B : k[2] \in Nat /\ k[2] <= c /\ k[2] < s + Window
  BY <1>1, WindowIsTime
<1>5. Since(B, s) \in SUBSET B /\ Since(B, s) \cap A = Since(A, s)
      /\ Since(B, s + 1) \in SUBSET B /\ Since(B, s + 1) \cap A = Since(A, s + 1)
  BY DEF Since
<1>6. Cardinality(Since(B, s)) <= a + 1 /\ Cardinality(Since(B, s)) \in Nat
  <2>1. Cardinality(Since(A, s)) <= a /\ Since(A, s) \in SUBSET A
    BY DEF Covered, Since
  <2>2. QED
    BY <1>2, <1>3, <1>5, <2>1
<1>7. Cardinality(Since(B, s + 1)) <= a
  <2>1. CASE Since(A, s + 1) # {}
    <3>1. Cardinality(Since(A, s + 1)) <= a - 1 /\ Since(A, s + 1) \in SUBSET A
      BY <2>1 DEF Covered, Since
    <3>2. QED
      BY <1>1, <1>2, <1>3, <1>5, <3>1
  <2>2. CASE Since(A, s + 1) = {}
    BY <1>1, <1>3, <1>5, <2>2, FS_EmptySet
  <2>3. QED
    BY <2>1, <2>2
<1>8. Between(B, s - Window + 1, s - 1) = Between(A, s - Window + 1, s - 1)
  BY <1>1, WindowIsTime DEF Between
<1>9. ASSUME NEW t \in Nat
      PROVE  Cardinality(Between(B, t, t + Window - 1)) <= 2 * L - 1
  <2> DEFINE N == Between(B, t, t + Window - 1)
  <2>1. CASE c \notin t..(t + Window - 1)
    <3>1. N = Between(A, t, t + Window - 1)
      BY <1>1, <2>1 DEF Between
    <3>2. QED
      BY <3>1 DEF Covered
  <2>2. CASE c \in t..(t + Window - 1) /\ t > s
    <3>1. N \subseteq Since(B, s + 1)
      BY <1>4, <2>2, WindowIsTime DEF Between, Since
    <3>2. IsFiniteSet(Since(B, s + 1))
      <4>1. Since(B, s + 1) \in SUBSET (A \cup {l}) /\ IsFiniteSet(A \cup {l})
        BY Counting DEF Since
      <4>2. QED
        BY <4>1, FS_Subset
    <3>3. Cardinality(N) <= Cardinality(Since(B, s + 1))
      BY <3>1, <3>2, FS_Subset
    <3>4. Cardinality(N) \in Nat /\ Cardinality(Since(B, s + 1)) \in Nat
      <4>1. N \in SUBSET B
        BY DEF Between
      <4>2. QED
        BY <1>3, <1>5, <4>1
    <3>5. QED
      BY <1>7, <3>3, <3>4
  <2>3. CASE c \in t..(t + Window - 1) /\ t <= s
    <3> DEFINE before == Between(A, s - Window + 1, s - 1)
    <3>1. N \subseteq before \cup Since(B, s)
      BY <1>1, <1>4, <2>3, WindowIsTime DEF Between, Since
    <3>2. IsFiniteSet(before) /\ Cardinality(before) \in Nat /\ Cardinality(before) <= L - 1
      <4>1. before \in SUBSET A
        BY DEF Between
      <4>2. QED
        BY <1>2, <4>1 DEF Covered
    <3>3. IsFiniteSet(Since(B, s))
      <4>1. Since(B, s) \in SUBSET (A \cup {l}) /\ IsFiniteSet(A \cup {l})
        BY Counting DEF Since
      <4>2. QED
        BY <4>1, FS_Subset
    <3>4. /\ IsFiniteSet(before \cup Since(B, s))
          /\ Cardinality(before \cup Since(B, s)) <= Cardinality(before) + Cardinality(Since(B, s))
      BY <3>2, <3>3, TwoParts
    <3>5. Cardinality(N) <= Cardinality(before \cup Since(B, s))
      BY <3>1, <3>4, FS_Subset
    <3>6. Cardinality(N) \in Nat /\ Cardinality(before \cup Since(B, s)) \in Nat
      <4>1. N \in SUBSET B
        BY DEF Between
      <4>2. QED
        BY <1>3, <3>4, <4>1, FS_CardinalityType
    <3>7. QED
      BY <1>6, <3>2, <3>4, <3>5, <3>6
  <2>4. QED
    BY <2>1, <2>2, <2>3
<1>10. QED
  BY <1>1, <1>4, <1>6, <1>7, <1>8, <1>9 DEF Covered

\* An attempt that begins a new window.
LEMMA CountedAnew ==
  ASSUME NEW A, Logins(A), NEW s \in Int, NEW a \in Nat, NEW L \in Nat \ {0}, NEW c \in Nat,
         Covered(A, s, a, L, c), c - s >= Window,
         NEW r \in Req, NEW B, B = A \/ B = A \cup {<<r, c>>}
  PROVE  Covered(B, c, 1, L, c)
<1> DEFINE l == <<r, c>>
<1>1. l[2] = c /\ \A k \in A : k[2] \in Nat /\ k[2] < c
  BY WindowIsTime DEF Logins, Covered
<1>2. \A T \in SUBSET A : IsFiniteSet(T) /\ Cardinality(T) \in Nat
  BY Counting
<1>3. \A k \in B : k[2] \in Nat /\ k[2] <= c /\ k[2] < c + Window
  BY <1>1, WindowIsTime
<1>4. Cardinality(Since(B, c)) <= 1
  <2>1. Since(B, c) \in SUBSET {l}
    BY <1>1 DEF Since
  <2>2. IsFiniteSet({l}) /\ Cardinality({l}) = 1
    BY FS_Singleton
  <2>3. QED
    BY <2>1, <2>2, FS_Subset
<1>5. Since(B, c + 1) = {}
  BY <1>3 DEF Since
<1>6. /\ Between(B, c - Window + 1, c - 1) = Between(A, c - Window + 1, c - 1)
      /\ Cardinality(Between(A, c - Window + 1, c - 1)) <= L - 1
      /\ Between(A, c - Window + 1, c - 1) \in SUBSET A
  <2>1. Between(B, c - Window + 1, c - 1) = Between(A, c - Window + 1, c - 1)
    BY <1>1 DEF Between
  <2>2. Between(A, c - Window + 1, c - 1) \subseteq Since(A, s + 1)
    BY <1>1, WindowIsTime DEF Between, Since
  <2>3. Since(A, s + 1) \in SUBSET A
    BY DEF Since
  <2>4. /\ Cardinality(Between(A, c - Window + 1, c - 1)) <= Cardinality(Since(A, s + 1))
        /\ Cardinality(Between(A, c - Window + 1, c - 1)) \in Nat
        /\ Cardinality(Since(A, s + 1)) \in Nat
    BY <1>2, <2>2, <2>3, FS_Subset
  <2>5. CASE Since(A, s + 1) = {}
    <3>1. Cardinality(Since(A, s + 1)) = 0
      BY <2>5, FS_EmptySet
    <3>2. QED
      BY <2>1, <2>2, <2>3, <2>4, <3>1
  <2>6. CASE Since(A, s + 1) # {}
    <3>1. Cardinality(Since(A, s + 1)) <= a - 1 /\ a <= L
      BY <2>6 DEF Covered
    <3>2. QED
      BY <2>1, <2>2, <2>3, <2>4, <3>1
  <2>7. QED
    BY <2>1, <2>2, <2>3, <2>5, <2>6
<1>7. ASSUME NEW t \in Nat
      PROVE  Cardinality(Between(B, t, t + Window - 1)) <= 2 * L - 1
  <2> DEFINE N == Between(B, t, t + Window - 1)
  <2>1. CASE c \notin t..(t + Window - 1)
    <3>1. N = Between(A, t, t + Window - 1)
      BY <1>1, <2>1 DEF Between
    <3>2. QED
      BY <3>1 DEF Covered
  <2>2. CASE c \in t..(t + Window - 1)
    <3> DEFINE before == Between(A, c - Window + 1, c - 1)
    <3>1. N \subseteq before \cup {l}
      BY <1>1, <2>2, WindowIsTime DEF Between
    <3>2. /\ IsFiniteSet(before \cup {l}) /\ Cardinality(before \cup {l}) <= Cardinality(before) + 1
          /\ Cardinality(before \cup {l}) \in Nat /\ Cardinality(before) \in Nat
      BY <1>6, Counting
    <3>3. Cardinality(N) <= Cardinality(before \cup {l}) /\ IsFiniteSet(N)
      BY <3>1, <3>2, FS_Subset
    <3>4. Cardinality(N) \in Nat
      BY <3>3, FS_CardinalityType
    <3> HIDE DEF N, before
    <3>5. Cardinality(before) <= L - 1
      BY <1>6 DEF before
    <3>6. Cardinality(N) <= 2 * L - 1
      BY <3>2, <3>3, <3>4, <3>5
    <3>7. QED
      BY <3>6 DEF N
  <2>3. QED
    BY <2>1, <2>2
<1>8. QED
  BY <1>3, <1>4, <1>5, <1>6, <1>7 DEF Covered

-----------------------------------------------------------------------------
(* The budget of the logins.                                               *)

BucketRow == [start : Int, attempts : Nat, until : Int]

LEMMA LimitsCount == \A b \in Bucket : LimitOf(b) \in Nat \ {0}
BY TimeAssumption DEF LimitOf

\* consume_login_attempt leaves a bucket covered, the login let through or not.
LEMMA ConsumedIsCovered ==
  ASSUME BudgetInv, NEW r \in Req, NEW b \in Bucket, NEW B,
         \/ B = admitted[b]
         \/ B = admitted[b] \cup {<<r, clock>>} /\ ~Blocked(b) /\ ~Exhausted(b)
  PROVE  /\ Consumed(b) \in BucketRow
         /\ Covered(B, Consumed(b).start, Consumed(b).attempts, LimitOf(b), clock)
<1>1. PICK A, s, a, L, c : /\ A = admitted[b] /\ s = bucket[b].start /\ a = bucket[b].attempts
                           /\ L = LimitOf(b) /\ c = clock
  OBVIOUS
<1>2. /\ Logins(A) /\ s \in Int /\ a \in Nat /\ L \in Nat \ {0} /\ c \in Nat
      /\ bucket[b] \in BucketRow
  BY <1>1, LimitsCount DEF BudgetInv, BudgetTypes, Logins, BucketRow
<1>3. Covered(A, s, a, L, c)
  BY <1>1 DEF BudgetInv, BudgetCovered
<1>4. /\ NewWindow(b) <=> c - s >= Window
      /\ Attempts(b) = IF c - s >= Window THEN 0 ELSE a
      /\ Exhausted(b) <=> Attempts(b) >= L
  BY <1>1 DEF NewWindow, Attempts, Exhausted
<1>5. CASE Blocked(b)
  <2>1. Consumed(b) = bucket[b] /\ B = A
    BY <1>1, <1>5 DEF Consumed
  <2>2. QED
    BY <1>1, <1>2, <1>3, <2>1
<1>6. CASE ~Blocked(b) /\ Exhausted(b)
  <2>1. c - s < Window /\ Attempts(b) = a
    BY <1>2, <1>4, <1>6, WindowIsTime
  <2>2. Consumed(b) = [start |-> s, attempts |-> a, until |-> c + Block]
    BY <1>1, <1>2, <1>4, <1>6, <2>1, WindowIsTime DEF Consumed
  <2>3. B = A
    BY <1>1, <1>6
  <2>4. c + Block \in Int
    BY <1>2, WindowIsTime
  <2>5. QED
    BY <1>1, <1>2, <1>3, <2>2, <2>3, <2>4 DEF BucketRow
<1>7. CASE ~Blocked(b) /\ ~Exhausted(b)
  <2>1. B = A \/ B = A \cup {<<r, c>>}
    BY <1>1
  <2>2. CASE c - s < Window
    <3>1. Attempts(b) = a /\ ~NewWindow(b) /\ a < L
      BY <1>2, <1>4, <1>7, <2>2, WindowIsTime
    <3>2. Consumed(b) = [start |-> s, attempts |-> a + 1, until |-> 0]
      BY <1>1, <1>7, <3>1 DEF Consumed
    <3>3. Covered(B, s, a + 1, L, c)
      BY <1>2, <1>3, <2>1, <2>2, <3>1, CountedInWindow
    <3>4. QED
      BY <1>1, <1>2, <3>2, <3>3 DEF BucketRow
  <2>3. CASE c - s >= Window
    <3>1. Attempts(b) = 0 /\ NewWindow(b)
      BY <1>4, <2>3
    <3>2. Consumed(b) = [start |-> c, attempts |-> 1, until |-> 0]
      BY <1>1, <1>7, <3>1 DEF Consumed
    <3>3. Covered(B, c, 1, L, c)
      BY <1>2, <1>3, <2>1, <2>3, CountedAnew
    <3>4. QED
      BY <1>1, <1>2, <3>2, <3>3 DEF BucketRow
  <2>4. QED
    BY <1>2, <2>2, <2>3, WindowIsTime
<1>8. QED
  BY <1>5, <1>6, <1>7

LEMMA BudgetLogin ==
  ASSUME BudgetInv, NEW r \in Req, NEW u \in User, NEW word, NEW code, Login(r, u, word, code)
  PROVE  BudgetInv'
<1>1. PICK P : P = {Source, u}
  OBVIOUS
<1>2. PICK allowed \in BOOLEAN : allowed = \A b \in P : ~Blocked(b) /\ ~Exhausted(b)
  OBVIOUS
<1>3. /\ bucket' = [b \in Bucket |-> IF b \in P THEN Consumed(b) ELSE bucket[b]] /\ clock' = clock
      /\ \/ /\ allowed
            /\ admitted' = [b \in Bucket |-> admitted[b] \cup (IF b \in P THEN {<<r, clock>>} ELSE {})]
         \/ UNCHANGED admitted
  BY <1>1, <1>2 DEF Login
<1>4. clock \in Nat
  BY DEF BudgetInv, BudgetTypes
<1>5. ASSUME NEW b \in Bucket
      PROVE  /\ bucket'[b] \in BucketRow /\ admitted'[b] \in SUBSET (Req \X Nat)
             /\ IsFiniteSet(admitted'[b])
             /\ Covered(admitted'[b], bucket'[b].start, bucket'[b].attempts, LimitOf(b), clock)
  <2>1. /\ bucket[b] \in BucketRow /\ admitted[b] \in SUBSET (Req \X Nat) /\ IsFiniteSet(admitted[b])
        /\ Covered(admitted[b], bucket[b].start, bucket[b].attempts, LimitOf(b), clock)
    BY DEF BudgetInv, BudgetTypes, BudgetCovered, BucketRow
  <2>2. \/ admitted'[b] = admitted[b]
        \/ b \in P /\ allowed /\ admitted'[b] = admitted[b] \cup {<<r, clock>>}
    BY <1>3 DEF BudgetInv, BudgetTypes
  <2>3. admitted'[b] \in SUBSET (Req \X Nat) /\ IsFiniteSet(admitted'[b])
    <3>1. PICK A : A = admitted[b]
      OBVIOUS
    <3>2. A \in SUBSET (Req \X Nat) /\ IsFiniteSet(A)
      BY <2>1, <3>1
    <3>3. IsFiniteSet(A \cup {<<r, clock>>})
      BY <3>2, FS_AddElement
    <3>4. A \cup {<<r, clock>>} \in SUBSET (Req \X Nat)
      BY <1>4, <3>2
    <3>5. admitted'[b] = A \/ admitted'[b] = A \cup {<<r, clock>>}
      BY <2>2, <3>1
    <3>6. QED
      BY <3>2, <3>3, <3>4, <3>5
  <2>4. CASE b \in P
    <3>1. bucket'[b] = Consumed(b)
      BY <1>3, <2>4
    <3>2. \/ admitted'[b] = admitted[b]
          \/ admitted'[b] = admitted[b] \cup {<<r, clock>>} /\ ~Blocked(b) /\ ~Exhausted(b)
      BY <1>2, <2>2
    <3>3. PICK B : B = admitted'[b]
      OBVIOUS
    <3>4. /\ Consumed(b) \in BucketRow
          /\ Covered(B, Consumed(b).start, Consumed(b).attempts, LimitOf(b), clock)
      BY <3>2, <3>3, ConsumedIsCovered
    <3>5. QED
      BY <2>3, <3>1, <3>3, <3>4
  <2>5. CASE b \notin P
    BY <1>3, <2>1, <2>2, <2>5
  <2>6. QED
    BY <2>4, <2>5
<1>6. BudgetTypes'
  <2>1. bucket' = [b \in Bucket |-> bucket'[b]]
    BY <1>3
  <2>2. admitted' = [b \in Bucket |-> admitted'[b]]
    BY <1>3 DEF BudgetInv, BudgetTypes
  <2>3. QED
    BY <1>3, <1>4, <1>5, <2>1, <2>2 DEF BudgetTypes, BucketRow
<1>7. BudgetCovered'
  BY <1>3, <1>5 DEF BudgetCovered, LimitOf
<1>8. QED
  BY <1>6, <1>7 DEF BudgetInv

\* reset_login_rate_limit forgets a pair of address and name.
LEMMA BudgetReset ==
  ASSUME BudgetInv, NEW r \in Req, ClearPair(r)
  PROVE  BudgetInv'
<1>1. PICK u : u = row[r].user
  OBVIOUS
<1>2. /\ bucket' = [bucket EXCEPT ![u] = NoBucket] /\ admitted' = [admitted EXCEPT ![u] = {}]
      /\ clock' = clock
  BY <1>1 DEF ClearPair
<1>3. /\ NoBucket \in BucketRow /\ NoBucket.start = -Window /\ NoBucket.attempts = 0
  BY WindowIsTime DEF NoBucket, BucketRow
<1>4. BudgetTypes'
  BY <1>2, <1>3, FS_EmptySet DEF BudgetInv, BudgetTypes, BucketRow
<1>5. ASSUME NEW b \in Bucket
      PROVE  Covered(admitted'[b], bucket'[b].start, bucket'[b].attempts, LimitOf(b), clock)
  <2>1. CASE b = u
    <3>1. Covered({}, -Window, 0, LimitOf(b), clock)
      BY LimitsCount, NothingIsCovered DEF BudgetInv, BudgetTypes
    <3>2. QED
      BY <1>2, <1>3, <2>1, <3>1 DEF BudgetInv, BudgetTypes
  <2>2. CASE b # u
    BY <1>2, <2>2 DEF BudgetInv, BudgetTypes, BudgetCovered
  <2>3. QED
    BY <2>1, <2>2
<1>6. BudgetCovered'
  BY <1>2, <1>5 DEF BudgetCovered, LimitOf
<1>7. QED
  BY <1>4, <1>6 DEF BudgetInv

\* No other step touches the buckets, and time does not uncover them.
LEMMA BudgetStays ==
  ASSUME BudgetInv, UNCHANGED <<bucket, admitted>>, clock' \in {clock, clock + 1}
  PROVE  BudgetInv'
<1>1. clock \in Nat /\ clock' \in Nat /\ clock <= clock'
  BY DEF BudgetInv, BudgetTypes
<1>2. BudgetTypes'
  BY <1>1 DEF BudgetInv, BudgetTypes
<1>3. PICK d : d = clock'
  OBVIOUS
<1>4. ASSUME NEW b \in Bucket
      PROVE  Covered(admitted[b], bucket[b].start, bucket[b].attempts, LimitOf(b), d)
  <2>1. /\ bucket[b].start \in Int /\ bucket[b].attempts \in Nat /\ admitted[b] \subseteq Req \X Nat
        /\ LimitOf(b) \in Nat \ {0}
        /\ Covered(admitted[b], bucket[b].start, bucket[b].attempts, LimitOf(b), clock)
    BY LimitsCount DEF BudgetInv, BudgetTypes, BudgetCovered
  <2>2. QED
    BY <1>1, <1>3, <2>1, CoveredLater
<1>5. BudgetCovered'
  BY <1>3, <1>4 DEF BudgetCovered, LimitOf
<1>6. QED
  BY <1>2, <1>5 DEF BudgetInv

LEMMA BudgetAtFirst == Init => BudgetInv
<1> SUFFICES ASSUME Init PROVE BudgetInv
  OBVIOUS
<1>1. bucket = [b \in Bucket |-> NoBucket] /\ clock = 0 /\ admitted = [b \in Bucket |-> {}]
  BY DEF Init
<1>2. /\ NoBucket \in BucketRow /\ NoBucket.start = -Window /\ NoBucket.attempts = 0
  BY WindowIsTime DEF NoBucket, BucketRow
<1>3. BudgetTypes
  BY <1>1, <1>2, FS_EmptySet DEF BudgetTypes, BucketRow
<1>4. \A b \in Bucket : Covered({}, -Window, 0, LimitOf(b), 0)
  BY LimitsCount, NothingIsCovered
<1>5. BudgetCovered
  BY <1>1, <1>2, <1>4 DEF BudgetCovered
<1>6. QED
  BY <1>3, <1>5 DEF BudgetInv

\* Only a login and the end of one that succeeds touch the buckets.
LEMMA OnlyLoginsCount ==
  ASSUME [Next]_vars
  PROVE  \/ UNCHANGED <<bucket, admitted, paused>> /\ clock' \in {clock, clock + 1}
         \/ \E r \in Req : \/ ClearPair(r)
                         \/ \E u \in User : \E word, code : Login(r, u, word, code)
<1> DEFINE Stays == UNCHANGED <<bucket, admitted, paused>> /\ clock' \in {clock, clock + 1}
<1>1. ASSUME NEW r \in Req, Begin(r)
      PROVE  Stays \/ \E u \in User : \E word, code : Login(r, u, word, code)
  <2>1. ASSUME NEW what, NEW s \in Sid, NEW via, NEW u \in User, NEW want, NEW p,
               Authenticate(r, s, via, what, u, p, want)
        PROVE  Stays
    BY <2>1 DEF Authenticate, history
  <2>2. ASSUME NEW s \in Sid, Logout(r, s)
        PROVE  Stays
    BY <2>2 DEF Logout, history
  <2>3. ASSUME NEW u \in User, NEW want, Recover(r, u, want)
        PROVE  Stays
    BY <2>3 DEF Recover, history
  <2>4. QED
    BY <1>1, <2>1, <2>2, <2>3 DEF Begin
<1>2. ASSUME NEW r \in Req, Continue(r) PROVE Stays \/ ClearPair(r)
  <2>1. CASE Verify(r) \/ Accept(r) \/ CreateSession(r) \/ CreateToken(r) \/ Touch(r) \/ Drop(r)
    BY <2>1 DEF Verify, Accept, CreateSession, CreateToken, Touch, Drop, history
  <2>2. CASE Look(r) \/ Count(r) \/ LookAgain(r) \/ NameInUse(r) \/ Revoke(r) \/ Report(r)
    BY <2>2 DEF Look, Count, LookAgain, NameInUse, Revoke, Report, history
  <2>3. CASE Write(r)
    BY <2>3 DEF Write
  <2>4. QED
    BY <1>2, <2>1, <2>2, <2>3 DEF Continue
<1>3. CASE Tick \/ Restart \/ UNCHANGED vars
  BY <1>3 DEF Tick, Restart, vars, history
<1>4. QED
  BY <1>1, <1>2, <1>3 DEF Next, Step

LEMMA BudgetPreserved == BudgetInv /\ [Next]_vars => BudgetInv'
BY OnlyLoginsCount, BudgetLogin, BudgetReset, BudgetStays

(***************************************************************************)
(* The pause.  What a login that was refused is told is what the row of the*)
(* bucket holds, as long as that time is to come.                          *)
(***************************************************************************)
PauseSound ==
  /\ paused \in [Bucket -> Int]
  /\ \A b \in Bucket : paused[b] <= clock \/ bucket[b].until = paused[b]

LEMMA PausePreserved == BudgetInv /\ PauseSound /\ [Next]_vars => PauseSound'
<1> SUFFICES ASSUME BudgetInv, PauseSound, [Next]_vars PROVE PauseSound'
  OBVIOUS
<1>1. /\ clock \in Nat /\ Block \in Nat \ {0}
      /\ \A b \in Bucket : bucket[b] \in BucketRow /\ bucket[b].until \in Int
                      /\ bucket[b].attempts \in Nat /\ LimitOf(b) \in Nat
      /\ bucket = [b \in Bucket |-> bucket[b]] /\ paused = [b \in Bucket |-> paused[b]]
  BY WindowIsTime, LimitsCount DEF BudgetInv, BudgetTypes, BucketRow, PauseSound
<1>2. ASSUME UNCHANGED <<bucket, paused>>, clock' \in {clock, clock + 1} PROVE PauseSound'
  BY <1>1, <1>2 DEF PauseSound
<1>3. ASSUME NEW r \in Req, ClearPair(r) PROVE PauseSound'
  <2>1. PICK u : u = row[r].user
    OBVIOUS
  <2>2. /\ bucket' = [bucket EXCEPT ![u] = NoBucket] /\ paused' = [paused EXCEPT ![u] = 0]
        /\ clock' = clock
    BY <1>3, <2>1 DEF ClearPair
  <2>3. ASSUME NEW b \in Bucket
        PROVE  paused'[b] \in Int /\ (paused'[b] <= clock \/ bucket'[b].until = paused'[b])
    <3>1. CASE b = u
      BY <1>1, <2>2, <3>1
    <3>2. CASE b # u
      BY <1>1, <2>2, <3>2 DEF PauseSound
    <3>3. QED
      BY <3>1, <3>2
  <2>4. paused' = [b \in Bucket |-> paused'[b]]
    BY <1>1, <2>2
  <2>5. QED
    BY <2>2, <2>3, <2>4 DEF PauseSound
<1>4. ASSUME NEW r \in Req, NEW u \in User, NEW word, NEW code, Login(r, u, word, code)
      PROVE  PauseSound'
  <2>1. PICK P : P = {Source, u}
    OBVIOUS
  <2>2. /\ bucket' = [b \in Bucket |-> IF b \in P THEN Consumed(b) ELSE bucket[b]] /\ clock' = clock
        /\ paused' = [b \in Bucket |-> IF b \in P /\ RetryAt(b) > 0 THEN RetryAt(b) ELSE paused[b]]
    BY <1>4, <2>1 DEF Login
  <2>3. ASSUME NEW b \in Bucket
        PROVE  /\ RetryAt(b) \in Int
               /\ RetryAt(b) > 0 => Consumed(b).until = RetryAt(b)
               /\ RetryAt(b) <= 0 => paused[b] <= clock
    <3>1. CASE Blocked(b)
      BY <1>1, <3>1 DEF RetryAt, Consumed, Blocked
    <3>2. CASE ~Blocked(b) /\ Exhausted(b)
      BY <1>1, <3>2 DEF RetryAt, Consumed
    <3>3. CASE ~Blocked(b) /\ ~Exhausted(b)
      <4>1. bucket[b].until <= clock
        BY <1>1, <3>3 DEF Blocked
      <4>2. QED
        BY <1>1, <3>3, <4>1 DEF RetryAt, PauseSound
    <3>4. QED
      BY <3>1, <3>2, <3>3
  <2>4. ASSUME NEW b \in Bucket
        PROVE  paused'[b] \in Int /\ (paused'[b] <= clock \/ bucket'[b].until = paused'[b])
    <3>1. PICK t : t = RetryAt(b)
      OBVIOUS
    <3>2. t \in Int /\ (t > 0 => Consumed(b).until = t) /\ (t <= 0 => paused[b] <= clock)
      BY <2>3, <3>1
    <3>3. paused'[b] = IF b \in P /\ t > 0 THEN t ELSE paused[b]
      BY <2>2, <3>1
    <3>4. bucket'[b] = IF b \in P THEN Consumed(b) ELSE bucket[b]
      BY <2>2
    <3>5. paused[b] \in Int /\ (paused[b] <= clock \/ bucket[b].until = paused[b])
      BY DEF PauseSound
    <3>6. QED
      BY <3>2, <3>3, <3>4, <3>5
  <2>5. QED
    BY <2>2, <2>4 DEF PauseSound
<1>5. QED
  BY <1>2, <1>3, <1>4, OnlyLoginsCount

\* No login passes a bucket while it is blocked.
LEMMA PauseHolds ==
  ASSUME BudgetInv, PauseSound, [Next]_vars, NEW b \in Bucket, clock < paused[b]
  PROVE  admitted'[b] \subseteq admitted[b]
<1>1. /\ clock \in Nat /\ paused[b] \in Int /\ bucket[b].until = paused[b]
      /\ admitted = [c \in Bucket |-> admitted[c]]
  BY DEF PauseSound, BudgetInv, BudgetTypes
<1>2. Blocked(b)
  BY <1>1 DEF Blocked
<1>3. ASSUME NEW r \in Req, NEW u \in User, NEW word, NEW code, Login(r, u, word, code)
      PROVE  admitted'[b] \subseteq admitted[b]
  <2>1. PICK P : P = {Source, u}
    OBVIOUS
  <2>2. \/ admitted' = admitted
        \/ /\ \A c \in P : ~Blocked(c)
           /\ admitted' = [c \in Bucket |-> admitted[c] \cup (IF c \in P THEN {<<r, clock>>} ELSE {})]
    BY <1>3, <2>1 DEF Login
  <2>3. QED
    BY <1>2, <2>2
<1>4. ASSUME NEW r \in Req, ClearPair(r)
      PROVE  admitted'[b] \subseteq admitted[b]
  <2>1. PICK u : u = row[r].user
    OBVIOUS
  <2>2. admitted' = [admitted EXCEPT ![u] = {}]
    BY <1>4, <2>1 DEF ClearPair
  <2>3. QED
    BY <1>1, <2>2
<1>5. QED
  BY <1>3, <1>4, OnlyLoginsCount

LEMMA PauseAtFirst == Init => PauseSound
BY DEF Init, PauseSound

\* However logins interleave, no window of time holds more of them than the
\* budget says, for the address and for every account; and none passes before
\* the pause is over that a login was told of.
THEOREM LoginsAreLimited == Spec => LoginBudget
<1>1. BudgetInv =>
        \A b \in Bucket : \A t \in 0..clock :
          Cardinality({l \in admitted[b] : l[2] \in t..(t + Window - 1)}) <= 2 * LimitOf(b) - 1
  <2> SUFFICES ASSUME BudgetInv, NEW b \in Bucket, NEW t \in 0..clock
               PROVE  Cardinality({l \in admitted[b] : l[2] \in t..(t + Window - 1)}) <= 2 * LimitOf(b) - 1
    OBVIOUS
  <2>1. t \in Nat
    BY DEF BudgetInv, BudgetTypes
  <2>2. QED
    BY <2>1 DEF BudgetInv, BudgetCovered, Covered, Between
<1>2. BudgetInv /\ PauseSound /\ [Next]_vars =>
        [\A b \in Bucket : clock < paused[b] => admitted'[b] \subseteq admitted[b]]_vars
  BY PauseHolds
<1>3. Spec => []BudgetInv
  BY BudgetAtFirst, BudgetPreserved, PTL DEF Spec
<1>4. Spec => []PauseSound
  BY <1>3, PauseAtFirst, PausePreserved, PTL DEF Spec
<1>5. QED
  BY <1>1, <1>2, <1>3, <1>4, PTL DEF Spec, LoginBudget
=============================================================================

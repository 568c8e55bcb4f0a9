------------------------------ MODULE Accounts ------------------------------
(***************************************************************************)
(* User accounts: the logins of the auth service (password, Google, guest) *)
(* over its table of users, the user.created events it publishes, and the  *)
(* profile service, which makes a profile of each event and lets users     *)
(* change their own.                                                       *)
(***************************************************************************)
EXTENDS FiniteSets

CONSTANTS
  Email, NoId,
  Login,          \* the login requests of a behaviour; a new user's id is his login
  Change,         \* the profile updates of a behaviour
  AuthMayFail     \* the database and the publisher may answer with an error

ASSUME AccountsAssumption ==
  NoId \notin Login /\ Login \cap Email = {} /\ AuthMayFail \in BOOLEAN

VARIABLES
  login,      \* of each request: its pc, the email and how it proves it
  users,      \* table users of the auth service: id and secret by email
  token,      \* the id in the token answered to each request
  bus,        \* user.created events that are not consumed yet
  profile,    \* table users of the profile service, by id
  change,     \* of each update: its pc, whose, what it sets, what it has read
  acked       \* history: the fields that acknowledged updates have set

accountVars == <<login, users, token, bus, profile, change, acked>>

Field    == {"name", "bio"}
Value    == {"", "given", "own"}
NoUser   == [id |-> NoId, secret |-> FALSE]
NoRow    == [email |-> NoId, name |-> "", bio |-> ""]
AnyEmail == Email \cup Login      \* a guest's email is made of his id
Idle     == [pc |-> "new", id |-> NoId, sets |-> {}, exists |-> FALSE]

AccountsTypeOK ==
  /\ login \in [Login -> [pc: {"new", "create", "publish", "done"},
                          email: AnyEmail \cup {NoId}, google: BOOLEAN]]
  /\ users \in [Email -> [id: Login \cup {NoId}, secret: BOOLEAN]]
  /\ token \in [Login -> Login \cup {NoId}]
  /\ bus \subseteq [id: Login, email: AnyEmail, name: Value]
  /\ profile \in [Login -> [email: AnyEmail \cup {NoId}, name: Value, bio: Value]]
  /\ change \in [Change -> [pc: {"new", "write", "done"}, id: Login \cup {NoId},
                            sets: SUBSET Field, exists: BOOLEAN]]
  /\ acked \in [Login -> SUBSET Field]
  \* emails are unique in the table of profiles
  /\ \A i, j \in Login :
       i # j /\ profile[i].email = profile[j].email => profile[i].email = NoId

AccountsInit ==
  /\ login = [r \in Login |-> [pc |-> "new", email |-> NoId, google |-> FALSE]]
  /\ users = [e \in Email |-> NoUser] /\ token = [r \in Login |-> NoId]
  /\ bus = {} /\ profile = [r \in Login |-> NoRow]
  /\ change = [c \in Change |-> Idle] /\ acked = [r \in Login |-> {}]

-----------------------------------------------------------------------------
(* The auth service *)

Ends(r, id) ==
  /\ login' = [login EXCEPT ![r].pc = "done"]
  /\ token' = [token EXCEPT ![r] = id]

Begins(r, e, google, pc) ==
  login' = [login EXCEPT ![r] = [pc |-> pc, email |-> e, google |-> google]]

\* GoogleAuth up to GetByEmail: any Google token of an email will do.
GoogleAuth(r, e) ==
  /\ login[r].pc = "new"
  /\ \/ users[e] = NoUser /\ Begins(r, e, TRUE, "create") /\ UNCHANGED token
     \/ /\ users[e] # NoUser
        /\ Begins(r, e, TRUE, "done") /\ token' = [token EXCEPT ![r] = users[e].id]
     \/ AuthMayFail /\ Begins(r, e, TRUE, "done") /\ UNCHANGED token
  /\ UNCHANGED <<users, bus, profile, change, acked>>

\* PasswordAuth up to checkPassword: a user who came by Google has no password
\* to match.
PasswordAuth(r, e) ==
  /\ login[r].pc = "new"
  /\ \/ users[e] = NoUser /\ Begins(r, e, FALSE, "create") /\ UNCHANGED token
     \/ /\ users[e].secret
        /\ Begins(r, e, FALSE, "done") /\ token' = [token EXCEPT ![r] = users[e].id]
     \/ /\ users[e] # NoUser \/ AuthMayFail    \* the wrong one, or a failed look-up
        /\ Begins(r, e, FALSE, "done") /\ UNCHANGED token
  /\ UNCHANGED <<users, bus, profile, change, acked>>

\* Create: the email is unique; the second of two first logins gets an error.
CreateUser(r) ==
  /\ login[r].pc = "create"
  /\ \/ /\ users[login[r].email] = NoUser
        /\ users' = [users EXCEPT ![login[r].email] = [id |-> r, secret |-> ~login[r].google]]
        /\ login' = [login EXCEPT ![r].pc = "publish"]
        /\ UNCHANGED token
     \/ /\ users[login[r].email] # NoUser \/ AuthMayFail
        /\ Ends(r, NoId)
        /\ UNCHANGED users
  /\ UNCHANGED <<bus, profile, change, acked>>

\* A failed publication is only logged; a service that stops before it publishes
\* answers nothing.
PublishUser(r) ==
  /\ login[r].pc = "publish"
  /\ \/ /\ bus' = bus \cup {[id |-> r, email |-> login[r].email,
                             name |-> IF login[r].google THEN "given" ELSE ""]}
        /\ Ends(r, r)
     \/ AuthMayFail /\ UNCHANGED bus /\ \E id \in {r, NoId} : Ends(r, id)
  /\ UNCHANGED <<users, profile, change, acked>>

\* A guest is nowhere but in his token and in the event.
GuestLogin(r) ==
  /\ login[r].pc = "new"
  /\ login' = [login EXCEPT ![r].pc = "done", ![r].email = r]
  /\ token' = [token EXCEPT ![r] = r]
  /\ \/ bus' = bus \cup {[id |-> r, email |-> r, name |-> "given"]}
     \/ AuthMayFail /\ UNCHANGED bus
  /\ UNCHANGED <<users, profile, change, acked>>

-----------------------------------------------------------------------------
(* The profile service *)

EmailFree(id, e) == \A j \in Login \ {id} : profile[j].email # e

\* (mutant of HandleUserCreated) a row that is there is written over.
HandleAndOverwrite(e) ==
  /\ e \in bus
  /\ bus' \in {bus, bus \ {e}}
  /\ profile' = IF EmailFree(e.id, e.email)
                  THEN [profile EXCEPT ![e.id] = [email |-> e.email, name |-> e.name, bio |-> ""]]
                  ELSE profile
  /\ UNCHANGED <<login, users, token, change, acked>>

\* ON CONFLICT (id) DO NOTHING; the event may be delivered again, but one that
\* failed is not tried again.
HandleUserCreated(e) ==
  /\ e \in bus
  /\ bus' \in {bus, bus \ {e}}
  /\ \/ AuthMayFail /\ UNCHANGED profile
     \/ profile' = IF profile[e.id] = NoRow /\ EmailFree(e.id, e.email)
                     THEN [profile EXCEPT ![e.id] = [email |-> e.email, name |-> e.name, bio |-> ""]]
                     ELSE profile
  /\ UNCHANGED <<login, users, token, change, acked>>

\* UpdateNX, as far as the question whether the row exists.
BeginChange(c, r) ==
  /\ change[c].pc = "new" /\ token[r] # NoId
  /\ \E sets \in SUBSET Field :
       change' = [change EXCEPT ![c] = [pc |-> "write", id |-> token[r], sets |-> sets,
                                        exists |-> profile[token[r]] # NoRow]]
  /\ UNCHANGED <<login, users, token, bus, profile, acked>>

EmailOf(id) == login[id].email

\* The row is inserted, or the fields of the request are set; an insert fails if
\* the row has come meanwhile.
EndChange(c) ==
  /\ change[c].pc = "write"
  /\ LET id == change[c].id
         own(f, old) == IF f \in change[c].sets THEN "own" ELSE old
         new == IF change[c].exists THEN profile[id] ELSE [NoRow EXCEPT !.email = EmailOf(id)]
     IN \/ /\ change[c].exists \/ (profile[id] = NoRow /\ EmailFree(id, EmailOf(id)))
           /\ profile' = [profile EXCEPT ![id] =
                            [new EXCEPT !.name = own("name", @), !.bio = own("bio", @)]]
           /\ acked' = [acked EXCEPT ![id] = @ \cup change[c].sets]
        \/ /\ \/ AuthMayFail
              \/ ~change[c].exists /\ ~(profile[id] = NoRow /\ EmailFree(id, EmailOf(id)))
           /\ UNCHANGED <<profile, acked>>
  /\ change' = [change EXCEPT ![c].pc = "done"]
  /\ UNCHANGED <<login, users, token, bus>>

AccountsNext ==
  \/ \E r \in Login : \/ \E e \in Email : GoogleAuth(r, e) \/ PasswordAuth(r, e)
                      \/ CreateUser(r) \/ PublishUser(r) \/ GuestLogin(r)
  \/ \E e \in bus : HandleUserCreated(e)
  \/ \E c \in Change : EndChange(c) \/ \E r \in Login : BeginChange(c, r)

AccountsSpec == AccountsInit /\ [][AccountsNext]_accountVars

-----------------------------------------------------------------------------
(* Properties *)

\* What a user was told is saved stays: no user.created event, late or repeated,
\* and no later update of another field takes it back.
AcknowledgedUpdateKept ==
  \A r \in Login : \A f \in acked[r] : profile[r][f] = "own"

=============================================================================

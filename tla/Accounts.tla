------------------------------ MODULE Accounts ------------------------------
(***************************************************************************)
(* Accounts and their one-time tokens: register, e-mail verification,      *)
(* password reset, profile update and account deletion (AuthService,       *)
(* UserService and the /users routes).                                     *)
(*                                                                         *)
(* A request loads a row of users once and works on that copy: SQLAlchemy  *)
(* returns the same object to every later SELECT of the session, and at a  *)
(* flush writes the columns whose value differs from the one it loaded.    *)
(* The flushed columns stay private, under a row lock, until get_db        *)
(* commits, after the response has been sent.  Requests interleave at each *)
(* await, one action per await.                                            *)
(*                                                                         *)
(* Sessions are RefreshSessions' subject: their Redis commands and rows,   *)
(* which delete-account and reset-password also change, are left out here. *)
(* So is what login does to them, and the columns of the avatar, which are *)
(* in Avatars.                                                             *)
(***************************************************************************)
EXTENDS Naturals

CONSTANTS Users,      \* rows of users that can be inserted: a bound
          Emails, Names, Passwords,
          Tokens,     \* one-time tokens that can be generated: a bound
          Requests,   \* the requests that can be in flight at once: a bound
          Nil         \* None

ASSUME AccountsAssumption ==
  /\ Nil \notin Users \cup Emails \cup Names \cup Passwords \cup Tokens
  /\ "deleted" \notin Emails \cup Names

VARIABLES
  row,     \* PostgreSQL, committed: row[u] of table users, Nil if there is none
  kind,    \* "verify" or "reset" once token t is generated, "none" before
  key,     \* Redis: lr:auth:verify:email / lr:auth:reset:pwd:{t} -> user, or Nil
  issuedTo,\* history: the user token t was stored for
  smtp,    \* configuration: settings.smtp_host is set (its default is "")
  mailed,  \* the tokens handed to the SMTP server
  logged,  \* the tokens written to the log, when there is no SMTP server
  uses,    \* history: how often token t has reset a password, counted to 2
  pc, op, uid, tok,
  loaded,  \* the row as the request's session has loaded it, Nil if it has not
  draft,   \* the same object with the attributes assigned since
  dirty,   \* the columns it has flushed and not committed, under a row lock
  overlapped  \* history: have two requests been in flight together?

dbVars  == <<row, uses>>
outVars == <<smtp, mailed, logged>>
mailVars == <<kind, key, issuedTo, outVars>>
vars == <<dbVars, mailVars, overlapped, pc, op, uid, tok, loaded, draft, dirty>>

Columns == {"email", "verified", "username", "display", "active", "password"}

Row == [email : Emails \cup {"deleted"}, verified : BOOLEAN,
        username : Names \cup {Nil}, display : Names \cup {Nil},
        active : BOOLEAN, password : Passwords]

\* None is not a row.
ASSUME NoRowAssumption == Nil \notin Row

PcValues == {"idle", "load", "delKey", "checkName", "flush", "setKey", "mail",
             "respond", "commit"}
Ops == {"none", "register", "resend", "login", "forgot", "verify", "reset",
        "update_me", "delete_account"}

TypeOK ==
  /\ row \in [Users -> Row \cup {Nil}]
  /\ kind \in [Tokens -> {"none", "verify", "reset"}]
  /\ key \in [Tokens -> Users \cup {Nil}]
  /\ issuedTo \in [Tokens -> Users \cup {Nil}]
  /\ smtp \in BOOLEAN /\ mailed \subseteq Tokens /\ logged \subseteq Tokens
  /\ uses \in [Tokens -> 0..2]
  /\ pc \in [Requests -> PcValues] /\ op \in [Requests -> Ops]
  /\ uid \in [Requests -> Users \cup {Nil}]
  /\ tok \in [Requests -> Tokens \cup {Nil}]
  /\ loaded \in [Requests -> Row \cup {Nil}]
  /\ draft \in [Requests -> Row \cup {Nil}]
  /\ dirty \in [Requests -> SUBSET (Columns \cup {"last_login_at"})]
  /\ overlapped \in BOOLEAN

Init ==
  /\ row = [u \in Users |-> Nil]
  /\ kind = [t \in Tokens |-> "none"]
  /\ key = [t \in Tokens |-> Nil]
  /\ issuedTo = [t \in Tokens |-> Nil]
  /\ smtp \in BOOLEAN /\ mailed = {} /\ logged = {}
  /\ uses = [t \in Tokens |-> 0]
  /\ pc = [r \in Requests |-> "idle"] /\ op = [r \in Requests |-> "none"]
  /\ uid = [r \in Requests |-> Nil] /\ tok = [r \in Requests |-> Nil]
  /\ loaded = [r \in Requests |-> Nil] /\ draft = [r \in Requests |-> Nil]
  /\ dirty = [r \in Requests |-> {}]
  /\ overlapped = FALSE

-----------------------------------------------------------------------------
(* Helpers                                                                 *)

Exists(u) == row[u] # Nil

Active(u) == Exists(u) /\ row[u].active

ByEmail(e) == {u \in Users : Exists(u) /\ row[u].email = e}

ByName(n) == {u \in Users : Exists(u) /\ row[u].username = n}

Step(r, from, to) == pc[r] = from /\ pc' = [pc EXCEPT ![r] = to]

\* A request about user u enters the event loop, with the row it has loaded
\* and what it means to write.
Begin(r, o, u, t, old, new, to) ==
  /\ Step(r, "idle", to)
  /\ overlapped' = (overlapped \/ \E q \in Requests : pc[q] # "idle")
  /\ op' = [op EXCEPT ![r] = o] /\ uid' = [uid EXCEPT ![r] = u]
  /\ tok' = [tok EXCEPT ![r] = t]
  /\ loaded' = [loaded EXCEPT ![r] = old] /\ draft' = [draft EXCEPT ![r] = new]
  /\ UNCHANGED <<dirty, dbVars>>

\* A uuid4 nobody has seen.
Fresh(u) ==
  /\ ~Exists(u)
  /\ \A q \in Requests : uid[q] # u
  /\ \A t \in Tokens : issuedTo[t] # u

\* generate_opaque_token
Generate(t, k) ==
  /\ kind[t] = "none"
  /\ kind' = [kind EXCEPT ![t] = k]
  /\ UNCHANGED <<key, issuedTo, outVars>>

End(r) ==
  /\ pc' = [pc EXCEPT ![r] = "idle"] /\ op' = [op EXCEPT ![r] = "none"]
  /\ uid' = [uid EXCEPT ![r] = Nil] /\ tok' = [tok EXCEPT ![r] = Nil]
  /\ loaded' = [loaded EXCEPT ![r] = Nil] /\ draft' = [draft EXCEPT ![r] = Nil]
  /\ dirty' = [dirty EXCEPT ![r] = {}]

\* An exception reaches get_db.  What was done in Redis stays done.
Rollback(r) == End(r) /\ UNCHANGED <<dbVars, mailVars, overlapped>>

-----------------------------------------------------------------------------
(* Requests that mail a token: SETEX, then SMTP or the log                 *)

\* register has not found the address; the INSERT follows at the flush.
Register(r, e, p, u, t) ==
  /\ ByEmail(e) = {}
  /\ Fresh(u)
  /\ Generate(t, "verify")
  /\ Begin(r, "register", u, t, Nil,
           [email |-> e, verified |-> FALSE, username |-> Nil, display |-> Nil,
            active |-> TRUE, password |-> p], "flush")

Resend(r, u, t) ==
  /\ Active(u) /\ ~row[u].verified
  /\ Generate(t, "verify")
  /\ Begin(r, "resend", u, t, row[u], row[u], "setKey")

ForgotPassword(r, e, t) ==
  \E u \in ByEmail(e) :
    /\ Generate(t, "reset")
    /\ Begin(r, "forgot", u, t, row[u], row[u], "setKey")

\* Mutation: the key holds the address instead of the user id.
SetKeyAddress(r) ==
  /\ Step(r, "setKey", "mail")
  /\ key' = [key EXCEPT ![tok[r]] = draft[r].email]
  /\ issuedTo' = [issuedTo EXCEPT ![tok[r]] = uid[r]]
  /\ UNCHANGED <<dbVars, overlapped, kind, outVars, op, uid, tok, loaded, draft, dirty>>

SetKey(r) ==
  /\ Step(r, "setKey", "mail")
  /\ key' = [key EXCEPT ![tok[r]] = uid[r]]
  /\ issuedTo' = [issuedTo EXCEPT ![tok[r]] = uid[r]]
  /\ UNCHANGED <<dbVars, overlapped, kind, outVars, op, uid, tok, loaded, draft, dirty>>

\* Mutation: an SMTP error is logged and swallowed.
MailSwallowed(r) ==
  /\ Step(r, "mail", "respond")
  /\ \/ smtp /\ mailed' \in {mailed, mailed \cup {tok[r]}} /\ UNCHANGED logged
     \/ ~smtp /\ logged' = logged \cup {tok[r]} /\ UNCHANGED mailed
  /\ UNCHANGED <<dbVars, overlapped, kind, key, issuedTo, smtp, op, uid, tok, loaded,
                 draft, dirty>>

\* Without SMTP the mail is not sent: its text goes to the log, and the
\* request goes on as if it had been.
Mail(r) ==
  /\ Step(r, "mail", "respond")
  /\ \/ smtp /\ mailed' = mailed \cup {tok[r]} /\ UNCHANGED logged
     \/ ~smtp /\ logged' = logged \cup {tok[r]} /\ UNCHANGED mailed
  /\ UNCHANGED <<dbVars, overlapped, kind, key, issuedTo, smtp, op, uid, tok, loaded,
                 draft, dirty>>

-----------------------------------------------------------------------------
(* Requests that spend a token: GET, SELECT, DEL                           *)

\* By whoever reads the mail, or the log.
SpendToken(r, t) ==
  /\ t \in mailed \cup logged /\ key[t] # Nil
  /\ Begin(r, kind[t], key[t], t, Nil, Nil, "load")
  /\ UNCHANGED mailVars

\* verify_email refuses an inactive account, reset_password does not.
Load(r) ==
  LET u == uid[r] IN
  \/ /\ Step(r, "load", "delKey")
     /\ IF op[r] = "verify" THEN Active(u) ELSE Exists(u)
     /\ loaded' = [loaded EXCEPT ![r] = row[u]]
     /\ \/ /\ op[r] = "verify"
           /\ draft' = [draft EXCEPT ![r] = [row[u] EXCEPT !.verified = TRUE]]
        \/ /\ op[r] = "reset"
           /\ \E p \in Passwords :
                draft' = [draft EXCEPT ![r] = [row[u] EXCEPT !.password = p]]
     /\ UNCHANGED <<dbVars, overlapped, mailVars, op, uid, tok, dirty>>
  \/ /\ pc[r] = "load"
     /\ ~IF op[r] = "verify" THEN Active(u) ELSE Exists(u)
     /\ Rollback(r)

\* Mutation: the token is left to expire.
DeleteTokenForgotten(r) ==
  /\ Step(r, "delKey", IF op[r] = "reset" THEN "flush" ELSE "respond")
  /\ UNCHANGED <<dbVars, overlapped, mailVars, op, uid, tok, loaded, draft, dirty>>

\* The UPDATE of the sessions flushes the password; a verified flag waits for
\* the flush of the commit.
DeleteToken(r) ==
  /\ Step(r, "delKey", IF op[r] = "reset" THEN "flush" ELSE "respond")
  /\ key' = [key EXCEPT ![tok[r]] = Nil]
  /\ UNCHANGED <<dbVars, overlapped, kind, issuedTo, outVars, op, uid, tok, loaded, draft, dirty>>

-----------------------------------------------------------------------------
(* Requests of a logged-in user                                            *)

\* login stamps last_login_at on the row it has checked; the flush is that of
\* the commit.
Login(r, u, p) ==
  /\ Active(u) /\ row[u].password = p
  /\ Begin(r, "login", u, Nil, row[u], row[u], "respond")
  /\ UNCHANGED mailVars

\* The attributes that the body names; a user name is looked for first.
UpdateMe(r, u, n, d) ==
  /\ Active(u)
  /\ Begin(r, "update_me", u, Nil, row[u],
           [row[u] EXCEPT !.username = IF n = Nil THEN @ ELSE n,
                          !.display = IF d = Nil THEN @ ELSE d],
           IF n = Nil THEN "flush" ELSE "checkName")
  /\ UNCHANGED mailVars

CheckName(r) ==
  \/ /\ Step(r, "checkName", "flush")
     /\ ByName(draft[r].username) \subseteq {uid[r]}
     /\ UNCHANGED <<dbVars, overlapped, mailVars, op, uid, tok, loaded, draft, dirty>>
  \/ /\ pc[r] = "checkName"
     /\ ~(ByName(draft[r].username) \subseteq {uid[r]})
     /\ Rollback(r)

\* Mutation: the user name is not cleared.
DeleteAccountKeepsName(r, u, p) ==
  /\ Active(u) /\ row[u].password = p
  /\ Begin(r, "delete_account", u, Nil, row[u],
           [row[u] EXCEPT !.active = FALSE, !.email = "deleted", !.verified = FALSE,
                          !.display = Nil], "flush")
  /\ UNCHANGED mailVars

\* The password is checked against the row loaded by get_current_user; the
\* sessions are revoked before the flush.
DeleteAccount(r, u, p) ==
  /\ Active(u) /\ row[u].password = p
  /\ Begin(r, "delete_account", u, Nil, row[u],
           [row[u] EXCEPT !.active = FALSE, !.email = "deleted",
                          !.username = Nil, !.display = Nil, !.verified = FALSE],
           "flush")
  /\ UNCHANGED mailVars

-----------------------------------------------------------------------------
(* Flush, response and commit                                              *)

\* Mutation: the UPDATE writes the whole object.
ChangedAll(r) == Columns

\* The columns a flush writes: all of a new row, the changed ones of another.
\* A new hash differs from the old one even for the same password: it is salted.
Changed(r) ==
  IF loaded[r] = Nil THEN Columns
  ELSE IF op[r] = "login" THEN {"last_login_at"}
  ELSE {c \in Columns : draft[r][c] # loaded[r][c] \/ (op[r] = "reset" /\ c = "password")}

\* The row of u as the transaction of r sees it.
Merged(r, u) ==
  IF loaded[r] = Nil THEN draft[r]
  ELSE [c \in Columns |-> IF c \in Changed(r) THEN draft[r][c] ELSE row[u][c]]

Unique == {"email", "username"}

Claims(r, c) == c \in Changed(r) /\ draft[r][c] \notin {Nil, "deleted"}

\* Row lock, and the wait of a unique index for a transaction that has written
\* or is giving up the same key.
Waits(r) ==
  \E q \in Requests \ {r} :
    /\ dirty[q] # {} /\ Changed(r) # {}
    /\ \/ uid[q] = uid[r]
       \/ \E c \in Unique \cap dirty[q] :
            /\ Claims(r, c)
            /\ \/ draft[q][c] = draft[r][c]
               \/ Exists(uid[q]) /\ row[uid[q]][c] = draft[r][c]

\* Mutation: the columns have no unique constraint.
TakenNever(r) == FALSE

Taken(r) ==
  \E c \in Unique, w \in Users \ {uid[r]} :
    Claims(r, c) /\ Exists(w) /\ row[w][c] = draft[r][c]

\* update_me answers with UserPublic, whose EmailStr rejects deleted_...@
\* deleted.local; the row is refreshed under the lock taken by the flush.
Unserialisable(r) == op[r] = "update_me" /\ Merged(r, uid[r]).email = "deleted"

\* An IntegrityError or a ValidationError is a 500.
Flush(r) ==
  /\ pc[r] = "flush" /\ ~Waits(r)
  /\ \/ /\ ~Taken(r) /\ ~Unserialisable(r)
        /\ pc' = [pc EXCEPT ![r] = CASE op[r] = "register" -> "setKey"
                                     [] op[r] \in {"verify", "login"} -> "commit"
                                     [] OTHER -> "respond"]
        /\ dirty' = [dirty EXCEPT ![r] = Changed(r)]
        /\ UNCHANGED <<dbVars, overlapped, mailVars, op, uid, tok, loaded, draft>>
     \/ /\ Taken(r) \/ Unserialisable(r)
        /\ Rollback(r)

\* The response leaves; get_db is resumed and commits.
Respond(r) ==
  /\ Step(r, "respond", IF op[r] \in {"verify", "login"} THEN "flush" ELSE "commit")
  /\ UNCHANGED <<dbVars, overlapped, mailVars, op, uid, tok, loaded, draft, dirty>>

Commit(r) ==
  /\ pc[r] = "commit"
  /\ row' = IF dirty[r] = {} THEN row ELSE [row EXCEPT ![uid[r]] = Merged(r, uid[r])]
  /\ uses' = IF op[r] = "reset" /\ uses[tok[r]] < 2
             THEN [uses EXCEPT ![tok[r]] = @ + 1] ELSE uses
  /\ End(r)
  /\ UNCHANGED <<mailVars, overlapped>>

\* SMTP, Redis or the database fails, the worker dies.
Fail(r) == pc[r] # "idle" /\ Rollback(r)

\* The lifetime of a one-time token is over.
Expire(t) ==
  /\ key[t] # Nil
  /\ key' = [key EXCEPT ![t] = Nil]
  /\ UNCHANGED <<dbVars, overlapped, kind, issuedTo, outVars, pc, op, uid, tok,
                 loaded, draft, dirty>>

-----------------------------------------------------------------------------
Handle(r) ==
  \/ SetKey(r) \/ Mail(r) \/ Load(r) \/ DeleteToken(r) \/ CheckName(r)
  \/ Flush(r) \/ Respond(r) \/ Commit(r)

Arrive(r) ==
  \/ \E e \in Emails, p \in Passwords, u \in Users, t \in Tokens : Register(r, e, p, u, t)
  \/ \E u \in Users, t \in Tokens : Resend(r, u, t)
  \/ \E e \in Emails, t \in Tokens : ForgotPassword(r, e, t)
  \/ \E t \in Tokens : SpendToken(r, t)
  \/ \E u \in Users, n, d \in Names \cup {Nil} : UpdateMe(r, u, n, d)
  \/ \E u \in Users, p \in Passwords : Login(r, u, p) \/ DeleteAccount(r, u, p)

Next ==
  \/ \E r \in Requests : Arrive(r) \/ Handle(r) \/ Fail(r)
  \/ \E t \in Tokens : Expire(t)

Spec == Init /\ [][Next]_vars

-----------------------------------------------------------------------------
(* Properties that hold whatever overlaps and whatever fails               *)

\* Two accounts never hold the same e-mail address or the same user name,
\* though register and update_me look first and write later.
KeysUnique ==
  \A u, w \in Users : u # w /\ Exists(u) /\ Exists(w) =>
    /\ row[u].email = row[w].email => row[u].email = "deleted"
    /\ row[u].username = row[w].username => row[u].username = Nil

\* With SMTP configured, an account exists only if a token for it was mailed to
\* the owner of its address: register commits after the mail, or not at all.
\* Without SMTP, the default, the token has only been written to the log.
RegisteredMailed ==
  \A u \in Users : Exists(u) =>
    \E t \in IF smtp THEN mailed ELSE logged : kind[t] = "verify" /\ issuedTo[t] = u

StateOf(u) ==
  IF ~Exists(u) THEN "none"
  ELSE IF ~row[u].active THEN "closed"
  ELSE IF row[u].verified THEN "verified" ELSE "unverified"

Lifecycle == INSTANCE AccountLifecycle WITH
  state <- [u \in Users |-> StateOf(u)],
  address <- [u \in Users |-> IF Active(u) THEN row[u].email ELSE Nil]

\* Accounts go from unverified to verified to closed and never back, although
\* each request commits changes to a row it read long before: a stale copy
\* neither reopens a deleted account nor undoes a verification.
ImplementsLifecycle == Lifecycle!Spec

-----------------------------------------------------------------------------
(* Properties about requests that may have overlapped                      *)

\* A reset token resets a password once at most (GET, then DEL), as long as no
\* two requests have overlapped.
ResetTokenSingleUse == ~overlapped => \A t \in Tokens : uses[t] <= 1

\* Of the columns that deactivate_account clears, the address of a closed
\* account is gone whatever overlaps; its names and its verified flag are gone
\* as long as no two requests have overlapped (a stale update_me or verify-email
\* that commits between the load and the commit of the deletion survives it).
\* The code keeps the rest: password_hash, last_login_at, and ip_address and
\* device_info in user_sessions.
ClosedAnonymised ==
  \A u \in Users : Exists(u) /\ ~row[u].active =>
    /\ row[u].email = "deleted"
    /\ ~overlapped => ~row[u].verified /\ row[u].username = Nil /\ row[u].display = Nil
=============================================================================

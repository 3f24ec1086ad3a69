-------------------------- MODULE AccountsProofs --------------------------
(***************************************************************************)
(* Proofs about Accounts, for every set of rows, addresses, names, tokens  *)
(* and requests, with overlapping requests and failures at any await.      *)
(***************************************************************************)
EXTENDS Accounts, TLAPS

-----------------------------------------------------------------------------
(* The inductive invariant                                                 *)

Issuing == {"register", "resend", "forgot"}
Spending == {"verify", "reset"}

\* Where a request is tells what its local variables hold.
Control ==
  \A r \in Requests :
    /\ pc[r] = "idle" => op[r] = "none" /\ uid[r] = Nil /\ draft[r] = Nil
    /\ pc[r] # "idle" => op[r] # "none" /\ uid[r] # Nil
    /\ pc[r] \in {"idle", "load"} => loaded[r] = Nil
    /\ pc[r] \in {"load", "delKey"} => op[r] \in Spending
    /\ pc[r] = "checkName" => op[r] = "update_me"
    /\ pc[r] \in {"setKey", "mail"} => op[r] \in Issuing
    /\ op[r] \in Issuing \cup Spending => tok[r] # Nil
    /\ pc[r] \notin {"idle", "load"} => draft[r] # Nil /\ (op[r] = "register" <=> loaded[r] = Nil)
    /\ loaded[r] # Nil => Exists(uid[r])
    /\ pc[r] \in {"idle", "load", "delKey", "checkName", "flush"} => dirty[r] = {}
    /\ pc[r] = "respond" /\ op[r] \in {"verify", "login"} => dirty[r] = {}

\* What each operation makes of the row it has loaded.
Intent ==
  \A r \in Requests : pc[r] \notin {"idle", "load"} =>
    /\ op[r] = "register" =>
         draft[r].active /\ ~draft[r].verified /\ draft[r].email \in Emails
    /\ op[r] \in {"resend", "forgot", "login"} => draft[r] = loaded[r]
    /\ op[r] = "verify" =>
         draft[r].verified /\ \A c \in Columns \ {"verified"} : draft[r][c] = loaded[r][c]
    /\ op[r] = "reset" => \A c \in Columns \ {"password"} : draft[r][c] = loaded[r][c]
    /\ op[r] = "update_me" =>
         /\ loaded[r].active
         /\ \A c \in Columns \ {"username", "display"} : draft[r][c] = loaded[r][c]
    /\ op[r] = "delete_account" =>
         /\ loaded[r].active
         /\ ~draft[r].active /\ draft[r].email = "deleted" /\ ~draft[r].verified
         /\ draft[r].username = Nil /\ draft[r].display = Nil

\* The tokens that somebody outside can know.
Out == mailed \cup logged

\* A token belongs to the request that generated it until it is out, by mail or
\* in the log but never both ways, and register goes on only when its token is.
Mailing ==
  /\ (smtp => logged = {}) /\ (~smtp => mailed = {})
  /\ \A t \in Out : kind[t] # "none"
  /\ \A r \in Requests : op[r] \in Issuing =>
       /\ kind[tok[r]] # "none"
       /\ pc[r] \in {"flush", "setKey"} => tok[r] \notin Out
       /\ \A q \in Requests : op[q] \in Issuing /\ tok[q] = tok[r] => q = r
  /\ \A r \in Requests : op[r] = "register" =>
       /\ kind[tok[r]] = "verify"
       /\ pc[r] \in {"mail", "respond", "commit"} => issuedTo[tok[r]] = uid[r]
       /\ pc[r] \in {"respond", "commit"} => tok[r] \in Out
  /\ \A r \in Requests : op[r] \in Spending => tok[r] \in Out
  /\ RegisteredMailed

\* The row of a registration is not there, and nobody else will insert it.
Enrolled ==
  \A r \in Requests : op[r] = "register" =>
    /\ ~Exists(uid[r])
    /\ \A q \in Requests : op[q] = "register" /\ uid[q] = uid[r] => q = r

\* What a transaction has written is under its row lock, and no committed row
\* and no other transaction claims the same address or name.
Exclusive ==
  \A r \in Requests : dirty[r] # {} =>
    /\ dirty[r] = Changed(r)
    /\ \A c \in Unique, w \in Users \ {uid[r]} :
         Claims(r, c) /\ Exists(w) => row[w][c] # draft[r][c]
    /\ \A q \in Requests \ {r} : dirty[q] # {} =>
         /\ uid[q] # uid[r]
         /\ \A c \in Unique : Claims(q, c) /\ Claims(r, c) => draft[q][c] # draft[r][c]

Anonymous(x) ==
  x.email = "deleted" /\ ~x.verified /\ x.username = Nil /\ x.display = Nil

\* Without overlap the row is as the request has loaded it, and the key of a
\* reset token is gone before the reset counts.
Alone ==
  ~overlapped =>
    /\ \A q, r \in Requests : pc[q] # "idle" /\ pc[r] # "idle" => q = r
    /\ \A r \in Requests : loaded[r] # Nil => loaded[r] = row[uid[r]]
    /\ \A r \in Requests : draft[r] # Nil /\ ~draft[r].active => Anonymous(draft[r])
    /\ \A u \in Users : Exists(u) /\ ~row[u].active => Anonymous(row[u])

SingleUse ==
  ~overlapped =>
    /\ \A t \in Tokens : uses[t] # 0 => uses[t] = 1 /\ t \in Out /\ key[t] = Nil
    /\ \A r \in Requests : op[r] = "reset" =>
         /\ uses[tok[r]] = 0
         /\ pc[r] \notin {"load", "delKey"} => key[tok[r]] = Nil

IInv ==
  /\ TypeOK /\ Control /\ Intent /\ Mailing /\ Enrolled
  /\ Exclusive /\ KeysUnique /\ Alone /\ SingleUse

-----------------------------------------------------------------------------
(* The initial states                                                      *)

LEMMA InvInit == Init => IInv
<1> SUFFICES ASSUME Init PROVE IInv
  OBVIOUS
<1> USE AccountsAssumption DEF Init
<1>1. TypeOK
  <2>1. overlapped \in BOOLEAN
    OBVIOUS
  <2> QED
    BY <2>1 DEF TypeOK, Ops, PcValues
<1>2. Control
  BY DEF Control, Exists, Issuing, Spending
<1>3. Intent
  BY DEF Intent
<1>4. Mailing
  BY DEF Mailing, Out, RegisteredMailed, Exists, Issuing, Spending
<1>5. Enrolled
  BY DEF Enrolled
<1>6. Exclusive
  BY DEF Exclusive
<1>7. KeysUnique
  BY DEF KeysUnique, Exists
<1>8. Alone
  BY DEF Alone, Exists
<1>9. SingleUse
  BY DEF SingleUse
<1> QED
  BY <1>1, <1>2, <1>3, <1>4, <1>5, <1>6, <1>7, <1>8, <1>9 DEF IInv

-----------------------------------------------------------------------------
(* What the operations make of a row                                       *)

Renamed(x, n, d) ==
  [x EXCEPT !.username = IF n = Nil THEN @ ELSE n, !.display = IF d = Nil THEN @ ELSE d]

Closed(x) ==
  [x EXCEPT !.active = FALSE, !.email = "deleted",
            !.username = Nil, !.display = Nil, !.verified = FALSE]

\* update_me changes names and nothing else.
LEMMA RenamedRow ==
  ASSUME NEW x \in Row, NEW n \in Names \cup {Nil}, NEW d \in Names \cup {Nil}
  PROVE  /\ Renamed(x, n, d) \in Row
         /\ \A c \in Columns \ {"username", "display"} : Renamed(x, n, d)[c] = x[c]
<1>1. PICK a \in Names \cup {Nil}, b \in Names \cup {Nil} :
        Renamed(x, n, d) = [x EXCEPT !.username = a, !.display = b]
  BY DEF Row, Renamed
<1>2. [x EXCEPT !.username = a, !.display = b] \in Row
  BY DEF Row
<1>3. \A c \in Columns \ {"username", "display"} :
        [x EXCEPT !.username = a, !.display = b][c] = x[c]
  BY DEF Row, Columns
<1> QED
  BY <1>1, <1>2, <1>3

\* What deactivate_account assigns.
LEMMA ClosedRow ==
  ASSUME NEW x \in Row
  PROVE  Closed(x) \in Row /\ ~Closed(x).active /\ Anonymous(Closed(x))
<1>1. Closed(x) \in Row
  BY DEF Row, Closed
<1>2. ~Closed(x).active /\ Anonymous(Closed(x))
  BY DEF Row, Closed, Anonymous
<1> QED
  BY <1>1, <1>2

\* An UPDATE of some columns leaves a row.
LEMMA MergedRow ==
  ASSUME NEW x \in Row, NEW y \in Row, NEW S, NEW z,
         z = [c \in Columns |-> IF c \in S THEN x[c] ELSE y[c]]
  PROVE  z \in Row /\ \A c \in Columns : z[c] = IF c \in S THEN x[c] ELSE y[c]
<1>1. z \in Row
  BY DEF Row, Columns
<1>2. \A c \in Columns : z[c] = IF c \in S THEN x[c] ELSE y[c]
  OBVIOUS
<1> QED
  BY <1>1, <1>2

\* What a commit writes is the changed columns over the committed row.
LEMMA Committed ==
  ASSUME IInv, NEW r \in Requests, pc[r] = "commit"
  PROVE  /\ uid[r] \in Users /\ draft[r] \in Row
         /\ loaded[r] = Nil <=> op[r] = "register"
         /\ loaded[r] # Nil => row[uid[r]] \in Row /\ loaded[r] \in Row
         /\ Merged(r, uid[r]) \in Row
         /\ \A c \in Columns : Merged(r, uid[r])[c] =
              IF c \in Changed(r) THEN draft[r][c] ELSE row[uid[r]][c]
<1>1. uid[r] \in Users /\ draft[r] \in Row
  BY DEF IInv, TypeOK, Control
<1>2. loaded[r] = Nil <=> op[r] = "register"
  BY DEF IInv, Control
<1>3. loaded[r] # Nil => row[uid[r]] \in Row /\ loaded[r] \in Row
  BY <1>1 DEF IInv, TypeOK, Control, Exists
<1>4. CASE loaded[r] = Nil
  BY <1>1, <1>2, <1>4 DEF Merged, Changed
<1>5. CASE loaded[r] # Nil
  <2>1. Merged(r, uid[r]) = [c \in Columns |->
          IF c \in Changed(r) THEN draft[r][c] ELSE row[uid[r]][c]]
    BY <1>5 DEF Merged
  <2>2. draft[r] \in Row /\ row[uid[r]] \in Row
    BY <1>1, <1>3, <1>5
  <2> DEFINE z == Merged(r, uid[r])
             S == Changed(r)
  <2>3. z = [c \in Columns |-> IF c \in S THEN draft[r][c] ELSE row[uid[r]][c]]
    BY <2>1
  <2> HIDE DEF z, S
  <2>4. z \in Row /\ \A c \in Columns : z[c] = IF c \in S THEN draft[r][c] ELSE row[uid[r]][c]
    BY <2>2, <2>3, MergedRow
  <2>5. /\ Merged(r, uid[r]) \in Row
        /\ \A c \in Columns : Merged(r, uid[r])[c] =
             IF c \in Changed(r) THEN draft[r][c] ELSE row[uid[r]][c]
    BY <2>4 DEF z, S
  <2> QED
    BY <1>1, <1>2, <1>3, <2>5
<1> QED
  BY <1>4, <1>5

-----------------------------------------------------------------------------
(* Locks and unique indexes                                                *)

\* A step that writes no row and leaves alone what others have written.
LEMMA Undisturbed ==
  ASSUME Exclusive, UNCHANGED row,
         \A q \in Requests :
           dirty'[q] = {} \/ (/\ dirty'[q] = dirty[q] /\ draft'[q] = draft[q]
                            /\ loaded'[q] = loaded[q] /\ op'[q] = op[q] /\ uid'[q] = uid[q])
  PROVE  Exclusive'
<1>1. \A q \in Requests : dirty'[q] # {} =>
        /\ Changed(q)' = Changed(q)
        /\ \A c \in Unique : Claims(q, c)' <=> Claims(q, c)
  BY DEF Changed, Claims
<1> QED
  BY <1>1 DEF Exclusive, Exists

LEMMA InvRollback == ASSUME IInv, NEW r \in Requests, Rollback(r) PROVE IInv'
<1> USE AccountsAssumption, NoRowAssumption
    DEF IInv, TypeOK, Control, Intent, Mailing, Out, Enrolled, KeysUnique, Alone, SingleUse,
        RegisteredMailed, Anonymous, Exists, Active, Columns, Issuing, Spending, Ops, PcValues,
        dbVars, mailVars, outVars, Step, Begin, End
<1>1. TypeOK'
  BY DEF Rollback
<1>2. Control'
  BY DEF Rollback
<1>3. Intent'
  BY DEF Rollback
<1>4. Mailing'
  BY DEF Rollback
<1>5. Enrolled'
  BY DEF Rollback
<1>6. Exclusive'
  BY Undisturbed DEF Rollback
<1>7. KeysUnique'
  BY DEF Rollback
<1>8. Alone'
  BY DEF Rollback
<1>9. SingleUse'
  BY DEF Rollback
<1> QED
  BY <1>1, <1>2, <1>3, <1>4, <1>5, <1>6, <1>7, <1>8, <1>9

\* If a request that begins overlaps nothing, what it means to write decides.
LEMMA Beginning ==
  ASSUME IInv, NEW r \in Requests, NEW o, NEW u \in Users, NEW t, NEW old, NEW new, NEW to,
         Begin(r, o, u, t, old, new, to),
         old \in {Nil, row[u]},
         ~overlapped /\ new # Nil /\ ~new.active => Anonymous(new)
  PROVE  Alone'
<1> SUFFICES ASSUME ~overlapped' PROVE Alone'
  BY DEF Alone
<1> USE DEF IInv, TypeOK, Begin, Step, dbVars
<1>1. ~overlapped /\ \A q \in Requests : pc[q] = "idle" /\ loaded[q] = Nil /\ draft[q] = Nil
  BY DEF Control
<1>2. \A q \in Requests \ {r} : pc'[q] = "idle" /\ loaded'[q] = Nil /\ draft'[q] = Nil
  BY <1>1
<1>3. loaded'[r] = old /\ draft'[r] = new /\ uid'[r] = u /\ row' = row
  OBVIOUS
<1>4. \A q, z \in Requests : pc'[q] # "idle" /\ pc'[z] # "idle" => q = z
  BY <1>2
<1>5. \A q \in Requests : loaded'[q] # Nil => loaded'[q] = row'[uid'[q]]
  BY <1>2, <1>3
<1>6. \A q \in Requests : draft'[q] # Nil /\ ~draft'[q].active => Anonymous(draft'[q])
  BY <1>1, <1>2, <1>3
<1>7. \A w \in Users : Exists(w)' /\ ~row'[w].active => Anonymous(row'[w])
  BY <1>1, <1>3 DEF Alone, Exists
<1> QED
  BY <1>4, <1>5, <1>6, <1>7 DEF Alone, Anonymous

LEMMA InvStep == IInv /\ [Next]_vars => IInv'
<1> SUFFICES ASSUME IInv, [Next]_vars PROVE IInv'
  OBVIOUS
<1> USE AccountsAssumption, NoRowAssumption
    DEF IInv, TypeOK, Control, Intent, Mailing, Out, Enrolled, KeysUnique, Alone, SingleUse,
        RegisteredMailed, Anonymous, Exists, Active, Columns, Issuing, Spending, Ops, PcValues,
        dbVars, mailVars, outVars, Step, Begin, End
<1>1. ASSUME NEW r \in Requests, NEW e \in Emails, NEW p \in Passwords, NEW u \in Users, NEW t \in Tokens, Register(r, e, p, u, t) PROVE IInv'
  <2>1. TypeOK'
    BY <1>1 DEF Register, Generate, Fresh, Row
  <2>2. Control'
    <3> DEFINE new == [email |-> e, verified |-> FALSE, username |-> Nil, display |-> Nil,
                       active |-> TRUE, password |-> p]
    <3>1. new \in Row
      BY DEF Row
    <3>2. Begin(r, "register", u, t, Nil, new, "flush")
      BY <1>1 DEF Register
    <3> HIDE DEF new
    <3> QED
      BY <3>1, <3>2
  <2>3. Intent'
    BY <1>1 DEF Register, Generate, Fresh, Row
  <2>4. Mailing'
    BY <1>1 DEF Register, Generate, Fresh, Row
  <2>5. Enrolled'
    BY <1>1 DEF Register, Generate, Fresh, Row
  <2>6. Exclusive'
    BY <1>1, Undisturbed DEF Register, Generate, Fresh, Row
  <2>7. KeysUnique'
    BY <1>1 DEF Register, Generate, Fresh, Row
  <2>8. Alone'
    <3> DEFINE new == [email |-> e, verified |-> FALSE, username |-> Nil, display |-> Nil,
                       active |-> TRUE, password |-> p]
    <3>1. Begin(r, "register", u, t, Nil, new, "flush") /\ new.active
      BY <1>1 DEF Register
    <3> HIDE DEF new
    <3> QED
      BY <3>1, Beginning
  <2>9. SingleUse'
    BY <1>1 DEF Register, Generate, Fresh, Row
  <2> QED
    BY <2>1, <2>2, <2>3, <2>4, <2>5, <2>6, <2>7, <2>8, <2>9
<1>2. ASSUME NEW r \in Requests, NEW u \in Users, NEW t \in Tokens, Resend(r, u, t) PROVE IInv'
  <2>1. TypeOK'
    BY <1>2 DEF Resend, Generate
  <2>2. Control'
    BY <1>2 DEF Resend, Generate
  <2>3. Intent'
    BY <1>2 DEF Resend, Generate
  <2>4. Mailing'
    BY <1>2 DEF Resend, Generate
  <2>5. Enrolled'
    BY <1>2 DEF Resend, Generate
  <2>6. Exclusive'
    BY <1>2, Undisturbed DEF Resend, Generate
  <2>7. KeysUnique'
    BY <1>2 DEF Resend, Generate
  <2>8. Alone'
    BY <1>2, Beginning DEF Resend
  <2>9. SingleUse'
    BY <1>2 DEF Resend, Generate
  <2> QED
    BY <2>1, <2>2, <2>3, <2>4, <2>5, <2>6, <2>7, <2>8, <2>9
<1>3. ASSUME NEW r \in Requests, NEW e \in Emails, NEW t \in Tokens, ForgotPassword(r, e, t) PROVE IInv'
  <2>1. TypeOK'
    BY <1>3 DEF ForgotPassword, Generate, ByEmail
  <2>2. Control'
    BY <1>3 DEF ForgotPassword, Generate, ByEmail
  <2>3. Intent'
    BY <1>3 DEF ForgotPassword, Generate, ByEmail
  <2>4. Mailing'
    BY <1>3 DEF ForgotPassword, Generate, ByEmail
  <2>5. Enrolled'
    BY <1>3 DEF ForgotPassword, Generate, ByEmail
  <2>6. Exclusive'
    BY <1>3, Undisturbed DEF ForgotPassword, Generate, ByEmail
  <2>7. KeysUnique'
    BY <1>3 DEF ForgotPassword, Generate, ByEmail
  <2>8. Alone'
    <3>1. PICK u \in ByEmail(e) : Begin(r, "forgot", u, t, row[u], row[u], "setKey")
      BY <1>3 DEF ForgotPassword
    <3>2. u \in Users /\ (~overlapped /\ row[u] # Nil /\ ~row[u].active => Anonymous(row[u]))
      BY DEF ByEmail
    <3> QED
      BY <3>1, <3>2, Beginning
  <2>9. SingleUse'
    BY <1>3 DEF ForgotPassword, Generate, ByEmail
  <2> QED
    BY <2>1, <2>2, <2>3, <2>4, <2>5, <2>6, <2>7, <2>8, <2>9
<1>4. ASSUME NEW r \in Requests, NEW t \in Tokens, SpendToken(r, t) PROVE IInv'
  <2>1. TypeOK'
    BY <1>4 DEF SpendToken
  <2>2. Control'
    BY <1>4 DEF SpendToken
  <2>3. Intent'
    BY <1>4 DEF SpendToken
  <2>4. Mailing'
    BY <1>4 DEF SpendToken
  <2>5. Enrolled'
    BY <1>4 DEF SpendToken
  <2>6. Exclusive'
    BY <1>4, Undisturbed DEF SpendToken
  <2>7. KeysUnique'
    BY <1>4 DEF SpendToken
  <2>8. Alone'
    <3>1. Begin(r, kind[t], key[t], t, Nil, Nil, "load") /\ key[t] \in Users
      BY <1>4 DEF SpendToken
    <3> QED
      BY <3>1, Beginning
  <2>9. SingleUse'
    BY <1>4 DEF SpendToken
  <2> QED
    BY <2>1, <2>2, <2>3, <2>4, <2>5, <2>6, <2>7, <2>8, <2>9
<1>5. ASSUME NEW r \in Requests, NEW u \in Users, NEW n \in Names \cup {Nil}, NEW d \in Names \cup {Nil}, UpdateMe(r, u, n, d) PROVE IInv'
  <2> DEFINE new == Renamed(row[u], n, d)
  <2>a. Active(u) /\ Begin(r, "update_me", u, Nil, row[u], new, IF n = Nil THEN "flush" ELSE "checkName") /\ UNCHANGED mailVars
    BY <1>5 DEF UpdateMe, Renamed
  <2>z. row[u] \in Row
    BY <2>a
  <2>b. new \in Row
    BY <2>z, RenamedRow
  <2>c. new.active = row[u].active
          /\ \A c \in Columns \ {"username", "display"} : new[c] = row[u][c]
    BY <2>z, RenamedRow
  <2> HIDE DEF new
  <2>1. TypeOK'
    BY <2>a, <2>b
  <2>2. Control'
    BY <2>a, <2>b
  <2>3. Intent'
    BY <2>a, <2>c
  <2>4. Mailing'
    BY <1>5 DEF UpdateMe, Row
  <2>5. Enrolled'
    BY <1>5 DEF UpdateMe, Row
  <2>6. Exclusive'
    BY <1>5, Undisturbed DEF UpdateMe, Row
  <2>7. KeysUnique'
    BY <1>5 DEF UpdateMe, Row
  <2>8. Alone'
    BY <2>a, <2>c, Beginning, ZenonT(40)
  <2>9. SingleUse'
    BY <1>5 DEF UpdateMe, Row
  <2> QED
    BY <2>1, <2>2, <2>3, <2>4, <2>5, <2>6, <2>7, <2>8, <2>9
<1>6. ASSUME NEW r \in Requests, NEW u \in Users, NEW p \in Passwords, Login(r, u, p) PROVE IInv'
  <2>1. TypeOK'
    BY <1>6 DEF Login
  <2>2. Control'
    BY <1>6 DEF Login
  <2>3. Intent'
    BY <1>6 DEF Login
  <2>4. Mailing'
    BY <1>6 DEF Login
  <2>5. Enrolled'
    BY <1>6 DEF Login
  <2>6. Exclusive'
    BY <1>6, Undisturbed DEF Login
  <2>7. KeysUnique'
    BY <1>6 DEF Login
  <2>8. Alone'
    <3>1. Begin(r, "login", u, Nil, row[u], row[u], "respond")
      BY <1>6 DEF Login
    <3>2. row[u].active = TRUE
      BY <1>6 DEF Login
    <3>3. row[u] \in {Nil, row[u]} /\ (row[u] # Nil /\ ~row[u].active => Anonymous(row[u]))
      BY <3>2
    <3> HIDE DEF IInv, TypeOK, Begin, Anonymous
    <3> QED
      BY <3>1, <3>3, Beginning
  <2>9. SingleUse'
    BY <1>6 DEF Login
  <2> QED
    BY <2>1, <2>2, <2>3, <2>4, <2>5, <2>6, <2>7, <2>8, <2>9
<1>7. ASSUME NEW r \in Requests, NEW u \in Users, NEW p \in Passwords, DeleteAccount(r, u, p) PROVE IInv'
  <2> DEFINE new == Closed(row[u])
  <2>a. Active(u) /\ Begin(r, "delete_account", u, Nil, row[u], new, "flush") /\ UNCHANGED mailVars
    BY <1>7 DEF DeleteAccount, Closed
  <2>z. row[u] \in Row
    BY <2>a
  <2>b. new \in Row
    BY <2>z, ClosedRow
  <2>c. ~new.active /\ Anonymous(new)
    BY <2>z, ClosedRow
  <2> HIDE DEF new
  <2>1. TypeOK'
    BY <2>a, <2>b
  <2>2. Control'
    BY <2>a, <2>b
  <2>3. Intent'
    BY <2>a, <2>c
  <2>4. Mailing'
    BY <1>7 DEF DeleteAccount, Row
  <2>5. Enrolled'
    BY <1>7 DEF DeleteAccount, Row
  <2>6. Exclusive'
    BY <1>7, Undisturbed DEF DeleteAccount, Row
  <2>7. KeysUnique'
    BY <1>7 DEF DeleteAccount, Row
  <2>8. Alone'
    BY <2>a, <2>c, Beginning, ZenonT(40)
  <2>9. SingleUse'
    BY <1>7 DEF DeleteAccount, Row
  <2> QED
    BY <2>1, <2>2, <2>3, <2>4, <2>5, <2>6, <2>7, <2>8, <2>9
<1>8. ASSUME NEW r \in Requests, SetKey(r) PROVE IInv'
  <2>1. TypeOK'
    BY <1>8 DEF SetKey
  <2>2. Control'
    BY <1>8 DEF SetKey
  <2>3. Intent'
    BY <1>8 DEF SetKey
  <2>4. Mailing'
    BY <1>8 DEF SetKey
  <2>5. Enrolled'
    BY <1>8 DEF SetKey
  <2>6. Exclusive'
    BY <1>8, Undisturbed DEF SetKey
  <2>7. KeysUnique'
    BY <1>8 DEF SetKey
  <2>8. Alone'
    BY <1>8 DEF SetKey
  <2>9. SingleUse'
    BY <1>8 DEF SetKey
  <2> QED
    BY <2>1, <2>2, <2>3, <2>4, <2>5, <2>6, <2>7, <2>8, <2>9
<1>9. ASSUME NEW r \in Requests, Mail(r) PROVE IInv'
  <2>1. TypeOK'
    BY <1>9 DEF Mail
  <2>2. Control'
    BY <1>9 DEF Mail
  <2>3. Intent'
    BY <1>9 DEF Mail
  <2>4. Mailing'
    BY <1>9 DEF Mail
  <2>5. Enrolled'
    BY <1>9 DEF Mail
  <2>6. Exclusive'
    BY <1>9, Undisturbed DEF Mail
  <2>7. KeysUnique'
    BY <1>9 DEF Mail
  <2>8. Alone'
    BY <1>9 DEF Mail
  <2>9. SingleUse'
    BY <1>9 DEF Mail
  <2> QED
    BY <2>1, <2>2, <2>3, <2>4, <2>5, <2>6, <2>7, <2>8, <2>9
<1>10. ASSUME NEW r \in Requests, Load(r) PROVE IInv'
  <2>1. CASE Rollback(r)
    BY <2>1, InvRollback
  <2>2. CASE ~Rollback(r)
    <3>a. PICK new :
            /\ new \in Row
            /\ op[r] \in Spending /\ Exists(uid[r])
            /\ pc[r] = "load" /\ pc' = [pc EXCEPT ![r] = "delKey"]
            /\ loaded' = [loaded EXCEPT ![r] = row[uid[r]]]
            /\ draft' = [draft EXCEPT ![r] = new]
            /\ UNCHANGED <<dbVars, overlapped, mailVars, op, uid, tok, dirty>>
      <4>1. \A x \in Row : /\ [x EXCEPT !.verified = TRUE] \in Row
                          /\ \A p \in Passwords : [x EXCEPT !.password = p] \in Row
        BY DEF Row
      <4>2. /\ Step(r, "load", "delKey")
            /\ IF op[r] = "verify" THEN Active(uid[r]) ELSE Exists(uid[r])
            /\ loaded' = [loaded EXCEPT ![r] = row[uid[r]]]
            /\ \/ /\ op[r] = "verify"
                  /\ draft' = [draft EXCEPT ![r] = [row[uid[r]] EXCEPT !.verified = TRUE]]
               \/ /\ op[r] = "reset"
                  /\ \E p \in Passwords :
                       draft' = [draft EXCEPT ![r] = [row[uid[r]] EXCEPT !.password = p]]
            /\ UNCHANGED <<dbVars, overlapped, mailVars, op, uid, tok, dirty>>
        BY <1>10, <2>2 DEF Load
      <4>3. Exists(uid[r]) /\ row[uid[r]] \in Row
        BY <4>2
      <4>4. PICK new \in Row : draft' = [draft EXCEPT ![r] = new]
        BY <4>1, <4>2, <4>3
      <4> QED
        BY <4>2, <4>3, <4>4
    <3>1. TypeOK'
      BY <3>a
    <3>2. Control'
      BY <3>a
    <3>3. Intent'
      BY <1>10, <2>2 DEF Load, Row
    <3>4. Mailing'
      BY <1>10, <2>2 DEF Load, Row
    <3>5. Enrolled'
      BY <1>10, <2>2 DEF Load, Row
    <3>6. Exclusive'
      BY <1>10, <2>2, Undisturbed DEF Load, Row
    <3>7. KeysUnique'
      BY <1>10, <2>2 DEF Load, Row
    <3>8. Alone'
      <4>1. pc[r] = "load" /\ Exists(uid[r])
        BY <1>10, <2>2 DEF Load
      <4>2. pc' = [pc EXCEPT ![r] = "delKey"] /\ UNCHANGED <<row, overlapped, uid>>
        BY <3>a
      <4>3. loaded' = [loaded EXCEPT ![r] = row[uid[r]]]
        BY <3>a
      <4>4. \A q \in Requests : draft'[q] # Nil /\ ~draft'[q].active /\ ~overlapped
                                  => Anonymous(draft'[q])
        <5> SUFFICES ASSUME NEW q \in Requests, draft'[q] # Nil, ~draft'[q].active, ~overlapped
                     PROVE  Anonymous(draft'[q])
          OBVIOUS
        <5>1. CASE q # r
          <6>1. draft'[q] = draft[q]
            BY <3>a, <5>1
          <6> QED
            BY <6>1 DEF Alone
        <5>2. CASE q = r
          <6>1. row[uid[r]].active = draft'[r].active
            BY <1>10, <2>2, <4>1 DEF Load, Row
          <6>2. op[r] = "reset"
            BY <1>10, <2>2, <4>1, <5>2, <6>1 DEF Load, Active
          <6>3. Anonymous(row[uid[r]])
            BY <4>1, <5>2, <6>1 DEF Alone
          <6>4. PICK p \in Passwords : draft'[r] = [row[uid[r]] EXCEPT !.password = p]
            BY <1>10, <2>2, <6>2 DEF Load
          <6>5. row[uid[r]] \in Row
            BY <4>1 DEF Exists
          <6> QED
            BY <5>2, <6>3, <6>4, <6>5 DEF Row
        <5> QED
          BY <5>1, <5>2
      <4>5. \A q \in Requests : loaded'[q] # Nil /\ ~overlapped => loaded'[q] = row[uid[q]]
        BY <4>3 DEF Alone
      <4>6. \A p, q \in Requests : pc'[p] # "idle" /\ pc'[q] # "idle" /\ ~overlapped => p = q
        BY <4>1, <4>2 DEF Alone
      <4> QED
        BY <4>2, <4>4, <4>5, <4>6 DEF Alone
    <3>9. SingleUse'
      BY <1>10, <2>2 DEF Load, Row
    <3> QED
      BY <3>1, <3>2, <3>3, <3>4, <3>5, <3>6, <3>7, <3>8, <3>9
  <2> QED
    BY <2>1, <2>2
<1>11. ASSUME NEW r \in Requests, DeleteToken(r) PROVE IInv'
  <2>1. TypeOK'
    BY <1>11 DEF DeleteToken
  <2>2. Control'
    BY <1>11 DEF DeleteToken
  <2>3. Intent'
    BY <1>11 DEF DeleteToken
  <2>4. Mailing'
    BY <1>11 DEF DeleteToken
  <2>5. Enrolled'
    BY <1>11 DEF DeleteToken
  <2>6. Exclusive'
    BY <1>11, Undisturbed DEF DeleteToken
  <2>7. KeysUnique'
    BY <1>11 DEF DeleteToken
  <2>8. Alone'
    BY <1>11 DEF DeleteToken
  <2>9. SingleUse'
    BY <1>11 DEF DeleteToken
  <2> QED
    BY <2>1, <2>2, <2>3, <2>4, <2>5, <2>6, <2>7, <2>8, <2>9
<1>12. ASSUME NEW r \in Requests, CheckName(r) PROVE IInv'
  <2>1. CASE Rollback(r)
    BY <2>1, InvRollback
  <2>2. CASE ~Rollback(r)
    <3>1. TypeOK'
      BY <1>12, <2>2 DEF CheckName
    <3>2. Control'
      BY <1>12, <2>2 DEF CheckName
    <3>3. Intent'
      BY <1>12, <2>2 DEF CheckName
    <3>4. Mailing'
      BY <1>12, <2>2 DEF CheckName
    <3>5. Enrolled'
      BY <1>12, <2>2 DEF CheckName
    <3>6. Exclusive'
      BY <1>12, <2>2, Undisturbed DEF CheckName
    <3>7. KeysUnique'
      BY <1>12, <2>2 DEF CheckName
    <3>8. Alone'
      BY <1>12, <2>2 DEF CheckName
    <3>9. SingleUse'
      BY <1>12, <2>2 DEF CheckName
    <3> QED
      BY <3>1, <3>2, <3>3, <3>4, <3>5, <3>6, <3>7, <3>8, <3>9
  <2> QED
    BY <2>1, <2>2
<1>13. ASSUME NEW r \in Requests, Flush(r) PROVE IInv'
  <2>1. CASE Rollback(r)
    BY <2>1, InvRollback
  <2>2. CASE ~Rollback(r)
    <3>1. TypeOK'
      <4>1. Changed(r) \subseteq Columns \cup {"last_login_at"}
        BY DEF Changed
      <4>2. /\ dirty' = [dirty EXCEPT ![r] = Changed(r)]
            /\ \E to \in {"setKey", "commit", "respond"} : pc' = [pc EXCEPT ![r] = to]
            /\ UNCHANGED <<dbVars, overlapped, mailVars, op, uid, tok, loaded, draft>>
        BY <1>13, <2>2 DEF Flush
      <4> QED
        BY <4>1, <4>2
    <3>2. Control'
      BY <1>13, <2>2 DEF Flush
    <3>3. Intent'
      BY <1>13, <2>2 DEF Flush
    <3>4. Mailing'
      BY <1>13, <2>2 DEF Flush
    <3>5. Enrolled'
      BY <1>13, <2>2 DEF Flush
    <3>6. Exclusive'
      <4>1. /\ pc[r] = "flush" /\ ~Waits(r) /\ ~Taken(r)
            /\ dirty' = [dirty EXCEPT ![r] = Changed(r)]
            /\ UNCHANGED <<row, op, uid, loaded, draft>>
        BY <1>13, <2>2 DEF Flush
      <4>2. /\ \A q \in Requests : Changed(q)' = Changed(q)
            /\ \A q \in Requests, c \in Unique : Claims(q, c)' <=> Claims(q, c)
        BY <4>1 DEF Changed, Claims
      <4>3. dirty'[r] = Changed(r) /\ \A q \in Requests \ {r} : dirty'[q] = dirty[q]
        BY <4>1
      <4>4. \A c \in Unique, w \in Users \ {uid[r]} :
              Claims(r, c) /\ Exists(w) => row[w][c] # draft[r][c]
        BY <4>1 DEF Taken
      <4>5. ASSUME NEW q \in Requests \ {r}, dirty[q] # {}, Changed(r) # {}
            PROVE  /\ uid[q] # uid[r]
                   /\ \A c \in Unique : Claims(q, c) /\ Claims(r, c) => draft[q][c] # draft[r][c]
        <5>1. \A c \in Unique : Claims(q, c) => c \in Unique \cap dirty[q]
          BY <4>5 DEF Claims, Exclusive
        <5> QED
          BY <4>1, <4>5, <5>1 DEF Waits
      <4> HIDE DEF IInv, TypeOK
      <4>6. ASSUME NEW q \in Requests, dirty'[q] # {}
            PROVE  /\ dirty'[q] = Changed(q)
                   /\ \A c \in Unique, w \in Users \ {uid[q]} :
                        Claims(q, c) /\ Exists(w) => row[w][c] # draft[q][c]
                   /\ \A z \in Requests \ {q} : dirty'[z] # {} =>
                        /\ uid[z] # uid[q]
                        /\ \A c \in Unique :
                             Claims(z, c) /\ Claims(q, c) => draft[z][c] # draft[q][c]
        <5>1. Exclusive
          BY DEF IInv
        <5>2. CASE q = r
          BY <4>3, <4>4, <4>5, <4>6, <5>2
        <5>3. CASE q # r
          BY <4>3, <4>5, <4>6, <5>1, <5>3 DEF Exclusive
        <5> QED
          BY <5>2, <5>3
      <4> QED
        BY <4>1, <4>2, <4>6 DEF Exclusive
    <3>7. KeysUnique'
      BY <1>13, <2>2 DEF Flush
    <3>8. Alone'
      BY <1>13, <2>2 DEF Flush
    <3>9. SingleUse'
      BY <1>13, <2>2 DEF Flush
    <3> QED
      BY <3>1, <3>2, <3>3, <3>4, <3>5, <3>6, <3>7, <3>8, <3>9
  <2> QED
    BY <2>1, <2>2
<1>14. ASSUME NEW r \in Requests, Respond(r) PROVE IInv'
  <2>1. TypeOK'
    BY <1>14 DEF Respond
  <2>2. Control'
    BY <1>14 DEF Respond
  <2>3. Intent'
    BY <1>14 DEF Respond
  <2>4. Mailing'
    BY <1>14 DEF Respond
  <2>5. Enrolled'
    BY <1>14 DEF Respond
  <2>6. Exclusive'
    BY <1>14, Undisturbed DEF Respond
  <2>7. KeysUnique'
    BY <1>14 DEF Respond
  <2>8. Alone'
    BY <1>14 DEF Respond
  <2>9. SingleUse'
    BY <1>14 DEF Respond
  <2> QED
    BY <2>1, <2>2, <2>3, <2>4, <2>5, <2>6, <2>7, <2>8, <2>9
<1>15. ASSUME NEW r \in Requests, Commit(r) PROVE IInv'
  <2> DEFINE u == uid[r]
             new == Merged(r, u)
  <2>a. /\ pc[r] = "commit" /\ End(r)
        /\ row' = IF dirty[r] = {} THEN row ELSE [row EXCEPT ![u] = new]
        /\ UNCHANGED <<mailVars, overlapped>>
    BY <1>15 DEF Commit
  <2>b. /\ u \in Users /\ draft[r] \in Row /\ new \in Row
        /\ loaded[r] # Nil => Exists(u)
        /\ \A c \in Columns : new[c] = IF c \in Changed(r) THEN draft[r][c] ELSE row[u][c]
    BY <2>a, Committed
  <2> HIDE DEF new
  <2>c. /\ row' \in [Users -> Row \cup {Nil}]
        /\ \A w \in Users \ {u} : row'[w] = row[w]
        /\ row'[u] = IF dirty[r] = {} THEN row[u] ELSE new
        /\ \A w \in Users : Exists(w) => Exists(w)'
    BY <2>a, <2>b
  <2>d. uses' \in [Tokens -> 0..2]
    BY <1>15 DEF Commit
  <2>e. \A q \in Requests \ {r} :
          /\ pc'[q] = pc[q] /\ op'[q] = op[q] /\ uid'[q] = uid[q] /\ tok'[q] = tok[q]
          /\ loaded'[q] = loaded[q] /\ draft'[q] = draft[q] /\ dirty'[q] = dirty[q]
    BY <2>a
  <2>f. /\ pc'[r] = "idle" /\ op'[r] = "none" /\ uid'[r] = Nil /\ tok'[r] = Nil
        /\ loaded'[r] = Nil /\ draft'[r] = Nil /\ dirty'[r] = {}
    BY <2>a
  <2>1. TypeOK'
    BY <2>a, <2>c, <2>d
  <2>2. Control'
    BY <2>c, <2>e, <2>f
  <2>3. Intent'
    BY <1>15 DEF Commit
  <2>4. Mailing'
    BY <1>15 DEF Commit
  <2>5. Enrolled'
    BY <1>15 DEF Commit
  <2>6. Exclusive'
    <3>1. CASE dirty[r] = {}
      BY <2>a, <2>e, <2>f, <3>1, Undisturbed
    <3>2. CASE dirty[r] # {}
      <4>1. \A q \in Requests \ {r} :
              Changed(q)' = Changed(q) /\ \A c \in Unique : Claims(q, c)' <=> Claims(q, c)
        <5> TAKE q \in Requests \ {r}
        <5>1. op'[q] = op[q] /\ loaded'[q] = loaded[q] /\ draft'[q] = draft[q]
          BY <2>e
        <5> HIDE DEF IInv, TypeOK
        <5>2. Changed(q)' = Changed(q)
          BY <5>1 DEF Changed
        <5> QED
          BY <5>1, <5>2 DEF Claims
      <4>2. ASSUME NEW q \in Requests \ {r}, dirty[q] # {}, NEW c \in Unique, Claims(q, c)
            PROVE  new[c] # draft[q][c]
        <5>1. uid[r] # uid[q] /\ (Claims(r, c) => draft[r][c] # draft[q][c])
          BY <3>2, <4>2 DEF Exclusive
        <5>2. draft[q][c] \notin {Nil, "deleted"} /\ c \in Columns
          BY <4>2 DEF Claims, Unique
        <5>3. CASE c \in Changed(r)
          BY <2>b, <5>1, <5>2, <5>3 DEF Claims
        <5>4. CASE c \notin Changed(r)
          <6>1. Exists(u)
            BY <2>b, <5>2, <5>4 DEF Changed
          <6>2. row[u][c] # draft[q][c]
            BY <2>b, <4>2, <5>1, <6>1 DEF Exclusive
          <6> QED
            BY <2>b, <5>2, <5>4, <6>2
        <5> QED
          BY <5>3, <5>4
      <4>3. ASSUME NEW q \in Requests, dirty'[q] # {}
            PROVE  /\ q # r /\ dirty[q] # {} /\ dirty'[q] = Changed(q)'
                   /\ \A c \in Unique, w \in Users \ {uid'[q]} :
                        Claims(q, c)' /\ Exists(w)' => row'[w][c] # draft'[q][c]
        <5>1. q # r /\ dirty[q] # {} /\ dirty'[q] = Changed(q)'
          BY <2>e, <2>f, <4>1, <4>3 DEF Exclusive
        <5>2. ASSUME NEW c \in Unique, NEW w \in Users \ {uid'[q]}, Claims(q, c)', Exists(w)'
              PROVE  row'[w][c] # draft'[q][c]
          <6>1. CASE w = u
            BY <2>c, <2>e, <3>2, <4>1, <4>2, <5>1, <5>2, <6>1
          <6>2. CASE w # u
            BY <2>c, <2>e, <4>1, <5>1, <5>2, <6>2 DEF Exclusive
          <6> QED
            BY <6>1, <6>2
        <5> QED
          BY <5>1, <5>2
      <4>4. ASSUME NEW q \in Requests, NEW z \in Requests \ {q}, dirty'[q] # {}, dirty'[z] # {}
            PROVE  /\ uid'[z] # uid'[q]
                   /\ \A c \in Unique :
                        Claims(z, c)' /\ Claims(q, c)' => draft'[z][c] # draft'[q][c]
        BY <2>e, <4>1, <4>3, <4>4 DEF Exclusive
      <4> HIDE DEF IInv, TypeOK
      <4> QED
        BY <4>3, <4>4 DEF Exclusive
    <3> QED
      BY <3>1, <3>2
  <2>7. KeysUnique'
    <3>1. CASE dirty[r] = {}
      BY <2>a, <3>1
    <3>2. CASE dirty[r] # {}
      <4>1. ASSUME NEW w \in Users \ {u}, Exists(w), NEW c \in Unique, new[c] = row[w][c]
            PROVE  new[c] \in {Nil, "deleted"}
        <5>1. c \in Columns
          BY DEF Unique
        <5>2. CASE c \in Changed(r)
          BY <2>b, <3>2, <4>1, <5>1, <5>2 DEF Exclusive, Claims
        <5>3. CASE c \notin Changed(r)
          <6>1. Exists(u) /\ new[c] = row[u][c]
            BY <2>b, <5>1, <5>3 DEF Changed
          <6>2. u # w /\ row[u][c] = row[w][c]
            BY <2>b, <4>1, <6>1
          <6>5. /\ row[u].email = row[w].email => row[u].email = "deleted"
                /\ row[u].username = row[w].username => row[u].username = Nil
            BY <2>b, <4>1, <6>1, <6>2
          <6> HIDE DEF IInv, TypeOK, KeysUnique
          <6>3. CASE c = "email"
            BY <6>1, <6>2, <6>3, <6>5
          <6>4. CASE c = "username"
            BY <6>1, <6>2, <6>4, <6>5
          <6> QED
            BY <6>3, <6>4 DEF Unique
        <5> QED
          BY <5>2, <5>3
      <4>2. /\ new.email \in {Nil, "deleted"} => new.email = "deleted"
            /\ new.username \in {Nil, "deleted"} => new.username = Nil
        BY <2>b DEF Row
      <4>3. ASSUME NEW w \in Users \ {u}, Exists(w)
            PROVE  /\ new.email = row[w].email => new.email = "deleted"
                   /\ new.username = row[w].username => new.username = Nil
        BY <4>1, <4>2, <4>3 DEF Unique
      <4> QED
        BY <2>c, <3>2, <4>3
    <3> QED
      BY <3>1, <3>2
  <2>8. Alone'
    <3> SUFFICES ASSUME ~overlapped PROVE Alone'
      BY <2>a
    <3>1. \A q \in Requests \ {r} : pc[q] = "idle"
      BY <2>a
    <3>2. \A q \in Requests : pc'[q] = "idle" /\ loaded'[q] = Nil /\ draft'[q] = Nil
      BY <2>e, <2>f, <3>1
    <3>3. \A c \in Columns : new[c] = draft[r][c]
      <4> SUFFICES ASSUME NEW c \in Columns, c \notin Changed(r) PROVE row[u][c] = draft[r][c]
        BY <2>b
      <4>1. loaded[r] # Nil
        BY DEF Changed
      <4>2. loaded[r] = row[u]
        BY <4>1
      <4>3. CASE op[r] = "login"
        BY <2>a, <4>2, <4>3
      <4>4. CASE op[r] # "login"
        BY <4>1, <4>2, <4>4 DEF Changed
      <4> QED
        BY <4>3, <4>4
    <3>4. ~new.active => Anonymous(new)
      <4>1. draft[r] # Nil
        BY <2>a
      <4>2. new.active = draft[r].active /\ new.email = draft[r].email
            /\ new.verified = draft[r].verified /\ new.username = draft[r].username
            /\ new.display = draft[r].display
        BY <3>3
      <4> QED
        BY <4>1, <4>2
    <3>5. \A w \in Users : Exists(w)' /\ ~row'[w].active => Anonymous(row'[w])
      BY <2>c, <3>4
    <3> QED
      BY <3>2, <3>5
  <2>9. SingleUse'
    BY <1>15 DEF Commit
  <2> QED
    BY <2>1, <2>2, <2>3, <2>4, <2>5, <2>6, <2>7, <2>8, <2>9
<1>16. ASSUME NEW r \in Requests, Fail(r) PROVE IInv'
  BY <1>16, InvRollback DEF Fail
<1>17. ASSUME NEW t \in Tokens, Expire(t) PROVE IInv'
  <2>1. TypeOK'
    BY <1>17 DEF Expire
  <2>2. Control'
    BY <1>17 DEF Expire
  <2>3. Intent'
    BY <1>17 DEF Expire
  <2>4. Mailing'
    BY <1>17 DEF Expire
  <2>5. Enrolled'
    BY <1>17 DEF Expire
  <2>6. Exclusive'
    BY <1>17, Undisturbed DEF Expire
  <2>7. KeysUnique'
    BY <1>17 DEF Expire
  <2>8. Alone'
    BY <1>17 DEF Expire
  <2>9. SingleUse'
    BY <1>17 DEF Expire
  <2> QED
    BY <2>1, <2>2, <2>3, <2>4, <2>5, <2>6, <2>7, <2>8, <2>9
<1>18. CASE UNCHANGED vars
  BY <1>18, Undisturbed DEF vars
<1> QED
  BY <1>1, <1>2, <1>3, <1>4, <1>5, <1>6, <1>7, <1>8, <1>9, <1>10, <1>11, <1>12, <1>13, <1>14, <1>15, <1>16, <1>17, <1>18 DEF Next, Arrive, Handle

LEMMA InvAlways == Spec => []IInv
  BY InvInit, InvStep, PTL DEF Spec

-----------------------------------------------------------------------------
(* Invariants                                                              *)

\* Every variable keeps its type (the rows, the tokens, the requests).
THEOREM AccountsTyped == Spec => []TypeOK
<1>1. IInv => TypeOK
  BY DEF IInv
<1> QED
  BY <1>1, InvAlways, PTL

\* No two accounts hold one address or one name, whatever overlaps.
THEOREM KeysAreUnique == Spec => []KeysUnique
<1>1. IInv => KeysUnique
  BY DEF IInv
<1> QED
  BY <1>1, InvAlways, PTL

\* An account exists only if a token for it has been mailed or, without SMTP,
\* logged.
THEOREM AccountsAreMailed == Spec => []RegisteredMailed
<1>1. IInv => RegisteredMailed
  BY DEF IInv, Mailing
<1> QED
  BY <1>1, InvAlways, PTL

\* While nothing overlaps, a reset token resets once.
THEOREM ResetOnce == Spec => []ResetTokenSingleUse
<1>1. IInv => ResetTokenSingleUse
  BY DEF IInv, SingleUse, ResetTokenSingleUse
<1> QED
  BY <1>1, InvAlways, PTL

-----------------------------------------------------------------------------
(* Closed accounts                                                         *)

\* A row, committed or loaded, is closed exactly when it has no address.
Addressed ==
  /\ \A u \in Users : Exists(u) => (row[u].active <=> row[u].email # "deleted")
  /\ \A r \in Requests : loaded[r] # Nil => (loaded[r].active <=> loaded[r].email # "deleted")

\* A commit writes the address and the activity of a row both, or neither.
LEMMA CommitAddressed ==
  ASSUME IInv, Addressed, NEW r \in Requests, Commit(r), dirty[r] # {}
  PROVE  Merged(r, uid[r]).active <=> Merged(r, uid[r]).email # "deleted"
<1>1. /\ pc[r] = "commit" /\ uid[r] \in Users /\ draft[r] \in Row
      /\ \A c \in Columns : Merged(r, uid[r])[c] = IF c \in Changed(r) THEN draft[r][c]
                                                  ELSE row[uid[r]][c]
  <2>1. pc[r] = "commit"
    BY DEF Commit
  <2> QED
    BY <2>1, Committed
<1>2. "active" \in Columns /\ "email" \in Columns
  BY DEF Columns
<1>3. CASE op[r] = "register"
  <2>1. loaded[r] = Nil /\ draft[r].active /\ draft[r].email \in Emails
    BY <1>1, <1>3 DEF IInv, Control, Intent
  <2>2. Merged(r, uid[r]) = draft[r]
    BY <2>1 DEF Merged
  <2> QED
    BY <2>1, <2>2, AccountsAssumption
<1>4. CASE op[r] = "delete_account"
  <2>1. loaded[r] # Nil /\ loaded[r].active /\ ~draft[r].active /\ draft[r].email = "deleted"
    BY <1>1, <1>4 DEF IInv, Control, Intent
  <2>2. loaded[r].email # "deleted"
    BY <2>1 DEF Addressed
  <2>3. "active" \in Changed(r) /\ "email" \in Changed(r)
    BY <1>2, <1>4, <2>1, <2>2 DEF Changed
  <2> QED
    BY <1>1, <1>2, <2>1, <2>3
<1>5. CASE op[r] \notin {"register", "delete_account"}
  <2>1. loaded[r] # Nil /\ draft[r].active = loaded[r].active /\ draft[r].email = loaded[r].email
    BY <1>1, <1>2, <1>5 DEF IInv, TypeOK, Control, Intent, Ops, Columns
  <2>2. "active" \notin Changed(r) /\ "email" \notin Changed(r) /\ Exists(uid[r])
    BY <1>5, <2>1 DEF Changed, IInv, Control
  <2> QED
    BY <1>1, <1>2, <2>1, <2>2 DEF Addressed
<1> QED
  BY <1>3, <1>4, <1>5

LEMMA AddressedStep == IInv /\ Addressed /\ [Next]_vars => Addressed'
<1> SUFFICES ASSUME IInv, Addressed, [Next]_vars PROVE Addressed'
  OBVIOUS
<1>1. ASSUME row' = row, NEW r \in Requests, NEW x, loaded' = [loaded EXCEPT ![r] = x],
             x # Nil => \E u \in Users : Exists(u) /\ x = row[u]
      PROVE  Addressed'
  <2>1. \A q \in Requests : loaded'[q] = IF q = r THEN x ELSE loaded[q]
    BY <1>1 DEF IInv, TypeOK
  <2>2. x # Nil => (x.active <=> x.email # "deleted")
    BY <1>1 DEF Addressed
  <2> QED
    BY <1>1, <2>1, <2>2 DEF Addressed, Exists
<1>2. ASSUME NEW r \in Requests, Arrive(r) PROVE Addressed'
  <2>1. PICK x : /\ row' = row /\ loaded' = [loaded EXCEPT ![r] = x]
                 /\ x # Nil => \E u \in Users : Exists(u) /\ x = row[u]
    <3>1. ASSUME NEW e \in Emails, NEW p \in Passwords, NEW u \in Users, NEW t \in Tokens,
                 Register(r, e, p, u, t)
          PROVE  row' = row /\ loaded' = [loaded EXCEPT ![r] = Nil]
      BY <3>1 DEF Register, Begin, dbVars
    <3>2. ASSUME NEW u \in Users, NEW t \in Tokens, Resend(r, u, t)
          PROVE  Exists(u) /\ row' = row /\ loaded' = [loaded EXCEPT ![r] = row[u]]
      BY <3>2 DEF Resend, Begin, dbVars, Active
    <3>3. ASSUME NEW e \in Emails, NEW t \in Tokens, ForgotPassword(r, e, t)
          PROVE  \E u \in Users : Exists(u) /\ row' = row /\ loaded' = [loaded EXCEPT ![r] = row[u]]
      BY <3>3 DEF ForgotPassword, ByEmail, Begin, dbVars
    <3>4. ASSUME NEW t \in Tokens, SpendToken(r, t)
          PROVE  row' = row /\ loaded' = [loaded EXCEPT ![r] = Nil]
      BY <3>4 DEF SpendToken, Begin, dbVars
    <3>5. ASSUME NEW u \in Users, NEW n \in Names \cup {Nil}, NEW d \in Names \cup {Nil},
                 UpdateMe(r, u, n, d)
          PROVE  Exists(u) /\ row' = row /\ loaded' = [loaded EXCEPT ![r] = row[u]]
      BY <3>5 DEF UpdateMe, Begin, dbVars, Active
    <3>6. ASSUME NEW u \in Users, NEW p \in Passwords, Login(r, u, p) \/ DeleteAccount(r, u, p)
          PROVE  Exists(u) /\ row' = row /\ loaded' = [loaded EXCEPT ![r] = row[u]]
      BY <3>6 DEF Login, DeleteAccount, Begin, dbVars, Active
    <3> QED
      BY <1>2, <3>1, <3>2, <3>3, <3>4, <3>5, <3>6 DEF Arrive
  <2> QED
    BY <1>1, <2>1
<1>3. ASSUME NEW r \in Requests, Rollback(r) PROVE Addressed'
  <2>1. row' = row /\ loaded' = [loaded EXCEPT ![r] = Nil]
    BY <1>3 DEF Rollback, End, dbVars
  <2> QED
    BY <1>1, <2>1
<1>4. ASSUME NEW r \in Requests, Load(r) PROVE Addressed'
  <2>1. CASE Rollback(r)
    BY <1>3, <2>1
  <2>2. CASE ~Rollback(r)
    <3>1. row' = row /\ loaded' = [loaded EXCEPT ![r] = row[uid[r]]] /\ Exists(uid[r])
      BY <1>4, <2>2 DEF Load, Active, dbVars
    <3>2. uid[r] \in Users
      BY <1>4 DEF Load, Step, IInv, TypeOK, Control
    <3> QED
      BY <1>1, <3>1, <3>2
  <2> QED
    BY <2>1, <2>2
<1>5. ASSUME NEW r \in Requests, Commit(r) PROVE Addressed'
  <2> DEFINE u == uid[r]
             new == Merged(r, u)
  <2>1. u \in Users /\ new \in Row /\ row \in [Users -> Row \cup {Nil}]
    BY <1>5, Committed DEF Commit, IInv, TypeOK
  <2>2. /\ row' = IF dirty[r] = {} THEN row ELSE [row EXCEPT ![u] = new]
        /\ loaded' = [loaded EXCEPT ![r] = Nil]
    BY <1>5 DEF Commit, End
  <2>3. CASE dirty[r] = {}
    BY <1>1, <2>2, <2>3
  <2>4. CASE dirty[r] # {}
    <3>1. new.active <=> new.email # "deleted"
      BY <1>5, <2>4, CommitAddressed
    <3> HIDE DEF new
    <3>2. \A w \in Users : row'[w] = IF w = u THEN new ELSE row[w]
      BY <2>1, <2>2, <2>4
    <3>3. \A q \in Requests : loaded'[q] = IF q = r THEN Nil ELSE loaded[q]
      BY <2>2 DEF IInv, TypeOK
    <3> QED
      BY <3>1, <3>2, <3>3 DEF Addressed, Exists
  <2> QED
    BY <2>3, <2>4
<1>6. ASSUME NEW r \in Requests,
             SetKey(r) \/ Mail(r) \/ DeleteToken(r) \/ CheckName(r) \/ Flush(r) \/ Respond(r)
      PROVE  Addressed'
  <2>1. CASE Rollback(r)
    BY <1>3, <2>1
  <2>2. CASE ~Rollback(r)
    <3>1. row' = row /\ loaded' = loaded
      BY <1>6, <2>2 DEF SetKey, Mail, DeleteToken, CheckName, Flush, Respond, dbVars
    <3> QED
      BY <3>1 DEF Addressed, Exists
  <2> QED
    BY <2>1, <2>2
<1>7. ASSUME NEW t \in Tokens, Expire(t) PROVE Addressed'
  BY <1>7 DEF Expire, dbVars, Addressed, Exists
<1>8. CASE UNCHANGED vars
  BY <1>8 DEF vars, dbVars, Addressed, Exists
<1> QED
  BY <1>2, <1>3, <1>4, <1>5, <1>6, <1>7, <1>8 DEF Next, Handle, Fail

\* A closed account has lost its address; while nothing overlaps, also its
\* names and its verified flag.
THEOREM ClosedAreAnonymous == Spec => []ClosedAnonymised
<1>1. Init => Addressed
  BY DEF Init, Addressed, Exists
<1>2. IInv /\ Addressed => ClosedAnonymised
  BY DEF IInv, Alone, Anonymous, Addressed, ClosedAnonymised
<1> QED
  BY <1>1, <1>2, AddressedStep, InvAlways, PTL DEF Spec

-----------------------------------------------------------------------------
(* Refinement                                                              *)

\* Only a commit moves an account.
LEMMA StillRows == UNCHANGED row => UNCHANGED Lifecycle!vars
<1> SUFFICES ASSUME UNCHANGED row PROVE UNCHANGED Lifecycle!vars
  OBVIOUS
<1>1. \A u \in Users : StateOf(u)' = StateOf(u) /\ (Active(u)' <=> Active(u)) /\ row'[u] = row[u]
  BY DEF StateOf, Active, Exists
<1> QED
  BY <1>1 DEF Lifecycle!vars, StateOf, Active, Exists

\* A registration opens an account under an address that is free.
LEMMA Enrolling ==
  ASSUME IInv, NEW r \in Requests, Commit(r), dirty[r] # {}, op[r] = "register"
  PROVE  Lifecycle!Next
<1>1. PICK u \in Users, new \in Row :
        /\ u = uid[r] /\ new = draft[r] /\ loaded[r] = Nil
        /\ row' = [row EXCEPT ![u] = new] /\ row \in [Users -> Row \cup {Nil}]
  <2>1. pc[r] = "commit" /\ row' = [row EXCEPT ![uid[r]] = Merged(r, uid[r])]
    BY DEF Commit
  <2>2. uid[r] \in Users /\ draft[r] \in Row /\ loaded[r] = Nil
    BY <2>1, Committed
  <2> QED
    BY <2>1, <2>2 DEF Merged, IInv, TypeOK
<1>2. ~Exists(u) /\ new.active = TRUE /\ new.verified = FALSE /\ new.email \in Emails
  <2>1. new.active \in BOOLEAN /\ new.verified \in BOOLEAN
    BY <1>1 DEF Row
  <2>2. pc[r] = "commit" /\ new.active /\ ~new.verified /\ new.email \in Emails
    BY <1>1 DEF Commit, IInv, Intent
  <2> QED
    BY <1>1, <2>1, <2>2 DEF IInv, Enrolled
<1>3. Claims(r, "email")
  BY <1>1, <1>2, AccountsAssumption DEF Claims, Changed, Columns
<1>4. \A w \in Users : Exists(w) => row[w].email # new.email
  BY <1>1, <1>2, <1>3 DEF IInv, Exclusive, Unique
<1>5. \A w \in Users \ {u} : row'[w] = row[w]
  BY <1>1
<1>6. row'[u] = new /\ new # Nil
  BY <1>1, NoRowAssumption
<1>7. \A w \in Users \ {u} : StateOf(w)' = StateOf(w) /\ (Active(w)' <=> Active(w))
  BY <1>5 DEF StateOf, Active, Exists
<1>8. StateOf(u) = "none" /\ StateOf(u)' = "unverified" /\ Active(u)'
  BY <1>2, <1>6 DEF StateOf, Active, Exists
<1>9. [w \in Users |-> StateOf(w)]' = [[w \in Users |-> StateOf(w)] EXCEPT ![u] = "unverified"]
  BY <1>7, <1>8
<1>10. [w \in Users |-> IF Active(w) THEN row[w].email ELSE Nil]'
         = [[w \in Users |-> IF Active(w) THEN row[w].email ELSE Nil] EXCEPT ![u] = new.email]
  BY <1>5, <1>6, <1>7, <1>8
<1>11. \A w \in Users : Lifecycle!Open(w) =>
         [z \in Users |-> IF Active(z) THEN row[z].email ELSE Nil][w] # new.email
  <2> SUFFICES ASSUME NEW w \in Users, Lifecycle!Open(w)
               PROVE  (IF Active(w) THEN row[w].email ELSE Nil) # new.email
    OBVIOUS
  <2>1. Exists(w) /\ Active(w)
    BY DEF Lifecycle!Open, StateOf, Active
  <2> QED
    BY <1>4, <2>1
<1>12. Lifecycle!Register(u, new.email)
  BY <1>1, <1>8, <1>9, <1>10, <1>11 DEF Lifecycle!Register
<1> QED
  BY <1>1, <1>2, <1>12 DEF Lifecycle!Next

\* What the commit of another request makes of the row: it closes the account,
\* or leaves its address and its activity alone and at most verifies it.
LEMMA Writing ==
  ASSUME IInv, NEW r \in Requests, pc[r] = "commit", op[r] # "register",
         NEW new, new = Merged(r, uid[r])
  PROVE  \/ new.active = FALSE
         \/ /\ new.active = row[uid[r]].active /\ new.email = row[uid[r]].email
            /\ new.verified \in {row[uid[r]].verified, TRUE}
<1> DEFINE old == row[uid[r]]
<1>1. /\ draft[r] \in Row /\ loaded[r] # Nil
      /\ \A c \in Columns : new[c] = IF c \in Changed(r) THEN draft[r][c] ELSE old[c]
  BY Committed
<1>2. /\ new.active = IF "active" \in Changed(r) THEN draft[r].active ELSE old.active
      /\ new.email = IF "email" \in Changed(r) THEN draft[r].email ELSE old.email
      /\ new.verified = IF "verified" \in Changed(r) THEN draft[r].verified ELSE old.verified
  BY <1>1 DEF Columns
<1>3. draft[r].active \in BOOLEAN /\ draft[r].verified \in BOOLEAN
  BY <1>1 DEF Row
<1> HIDE DEF old
<1>4. CASE op[r] = "delete_account"
  <2>1. loaded[r].active /\ ~draft[r].active
    BY <1>4 DEF IInv, Intent
  <2>2. "active" \in Changed(r)
    BY <1>1, <1>4, <2>1 DEF Changed, Columns
  <2> QED
    BY <1>2, <1>3, <2>1, <2>2
<1>5. CASE op[r] # "delete_account"
  <2>1. op[r] \in {"resend", "login", "forgot", "verify", "reset", "update_me"}
    BY <1>5 DEF IInv, TypeOK, Control, Ops
  <2>2. "active" \notin Changed(r) /\ "email" \notin Changed(r)
    BY <1>1, <2>1 DEF IInv, Intent, Changed, Columns
  <2>3. "verified" \in Changed(r) => draft[r].verified
    BY <1>1, <2>1 DEF IInv, Intent, Changed, Columns
  <2>4. "verified" \in Changed(r) => new.verified = TRUE
    BY <1>2, <1>3, <2>3
  <2>5. "verified" \notin Changed(r) => new.verified = old.verified
    BY <1>2
  <2> QED
    BY <1>2, <2>2, <2>4, <2>5 DEF old
<1> QED
  BY <1>4, <1>5

\* Every other commit closes an account, verifies it or is invisible.
LEMMA Moving ==
  ASSUME IInv, NEW r \in Requests, Commit(r), dirty[r] # {}, op[r] # "register"
  PROVE  [Lifecycle!Next]_(Lifecycle!vars)
<1> DEFINE address == [w \in Users |-> IF Active(w) THEN row[w].email ELSE Nil]
           state == [w \in Users |-> StateOf(w)]
<1>1. PICK u \in Users, new \in Row, old \in Row :
        /\ u = uid[r] /\ new = Merged(r, u) /\ old = row[u]
        /\ row' = [row EXCEPT ![u] = new] /\ row \in [Users -> Row \cup {Nil}]
  <2>1. pc[r] = "commit" /\ row' = [row EXCEPT ![uid[r]] = Merged(r, uid[r])]
    BY DEF Commit
  <2>2. uid[r] \in Users /\ Merged(r, uid[r]) \in Row /\ row[uid[r]] \in Row
    BY <2>1, Committed
  <2> QED
    BY <2>1, <2>2 DEF IInv, TypeOK
<1>2. \/ new.active = FALSE
      \/ new.active = old.active /\ new.email = old.email /\ new.verified \in {old.verified, TRUE}
  BY <1>1, Writing DEF Commit
<1>3. /\ new.active \in BOOLEAN /\ new.verified \in BOOLEAN
      /\ old.active \in BOOLEAN /\ old.verified \in BOOLEAN
  BY <1>1 DEF Row
<1>4. /\ \A w \in Users \ {u} : row'[w] = row[w]
      /\ row'[u] = new /\ new # Nil /\ row[u] = old /\ old # Nil
  BY <1>1, NoRowAssumption
<1>5. \A w \in Users \ {u} : StateOf(w)' = StateOf(w) /\ (Active(w)' <=> Active(w))
  BY <1>4 DEF StateOf, Active, Exists
<1>6. /\ StateOf(u) = IF ~old.active THEN "closed"
                     ELSE IF old.verified THEN "verified" ELSE "unverified"
      /\ StateOf(u)' = IF ~new.active THEN "closed"
                      ELSE IF new.verified THEN "verified" ELSE "unverified"
      /\ Active(u) <=> old.active
      /\ Active(u)' <=> new.active
  BY <1>4 DEF StateOf, Active, Exists
<1>7. /\ state' = [state EXCEPT ![u] = StateOf(u)']
      /\ address' = [address EXCEPT ![u] = IF new.active THEN new.email ELSE Nil]
      /\ state[u] = StateOf(u)
      /\ address[u] = IF old.active THEN old.email ELSE Nil
  BY <1>1, <1>4, <1>5, <1>6
<1>8. CASE ~old.active
  <2>1. state' = state /\ address' = address
    BY <1>2, <1>3, <1>6, <1>7, <1>8
  <2> QED
    BY <2>1 DEF Lifecycle!vars
<1>9. CASE old.active /\ ~new.active
  <2>1. Lifecycle!Close(u)
    BY <1>6, <1>7, <1>9 DEF Lifecycle!Close, Lifecycle!Open
  <2> QED
    BY <1>1, <2>1 DEF Lifecycle!Next
<1>10. CASE old.active /\ new.active /\ new.verified = old.verified
  <2>1. StateOf(u)' = StateOf(u)
    BY <1>6, <1>10
  <2>2. (IF new.active THEN new.email ELSE Nil) = (IF old.active THEN old.email ELSE Nil)
    BY <1>2, <1>3, <1>10
  <2>3. state' = state
    BY <1>7, <2>1
  <2>4. address' = address
    BY <1>7, <2>2
  <2> QED
    BY <2>3, <2>4 DEF Lifecycle!vars
<1>11. CASE old.active /\ new.active /\ new.verified # old.verified
  <2>1. new.email = old.email /\ ~old.verified /\ new.verified
    BY <1>2, <1>3, <1>11
  <2>2. address' = address
    BY <1>7, <1>11, <2>1
  <2>3. Lifecycle!Verify(u)
    BY <1>6, <1>7, <1>11, <2>1, <2>2 DEF Lifecycle!Verify
  <2> QED
    BY <1>1, <2>3 DEF Lifecycle!Next
<1> QED
  BY <1>8, <1>9, <1>10, <1>11

LEMMA LifeInit == Init => Lifecycle!Init
  BY DEF Init, Lifecycle!Init, StateOf, Active, Exists

LEMMA LifeStep == IInv /\ [Next]_vars => [Lifecycle!Next]_(Lifecycle!vars)
<1> SUFFICES ASSUME IInv, [Next]_vars PROVE [Lifecycle!Next]_(Lifecycle!vars)
  OBVIOUS
<1>1. CASE UNCHANGED row
  BY <1>1, StillRows
<1>2. CASE ~UNCHANGED row
  <2>1. PICK r \in Requests : Commit(r)
    <3> USE DEF dbVars, Begin, Rollback
    <3>1. \A r \in Requests : Arrive(r) => UNCHANGED row
      <4> TAKE r \in Requests
      <4>1. \A e \in Emails, p \in Passwords, u \in Users, t \in Tokens :
              Register(r, e, p, u, t) => UNCHANGED row
        BY DEF Register
      <4>2. \A u \in Users, t \in Tokens : Resend(r, u, t) => UNCHANGED row
        BY DEF Resend
      <4>3. \A e \in Emails, t \in Tokens : ForgotPassword(r, e, t) => UNCHANGED row
        BY DEF ForgotPassword
      <4>4. \A t \in Tokens : SpendToken(r, t) => UNCHANGED row
        BY DEF SpendToken
      <4>5. \A u \in Users, n, d \in Names \cup {Nil} : UpdateMe(r, u, n, d) => UNCHANGED row
        BY DEF UpdateMe
      <4>6. \A u \in Users, p \in Passwords :
              Login(r, u, p) \/ DeleteAccount(r, u, p) => UNCHANGED row
        BY DEF Login, DeleteAccount
      <4> HIDE DEF Begin
      <4> QED
        BY <4>1, <4>2, <4>3, <4>4, <4>5, <4>6 DEF Arrive
    <3>2. \A r \in Requests : Handle(r) => UNCHANGED row \/ Commit(r)
      BY DEF Handle, SetKey, Mail, Load, DeleteToken, CheckName, Flush, Respond
    <3>3. \A r \in Requests : Fail(r) => UNCHANGED row
      BY DEF Fail
    <3>4. \A t \in Tokens : Expire(t) => UNCHANGED row
      BY DEF Expire
    <3> QED
      BY <1>2, <3>1, <3>2, <3>3, <3>4 DEF Next, vars
  <2>2. dirty[r] # {}
    BY <1>2, <2>1 DEF Commit
  <2> QED
    BY <2>1, <2>2, Enrolling, Moving
<1> QED
  BY <1>1, <1>2

\* Accounts are opened under a free address, verified once and closed for good,
\* although each request commits changes to a row it read long before.
THEOREM AccountsFollowLifecycle == Spec => ImplementsLifecycle
  BY InvAlways, LifeInit, LifeStep, PTL DEF Spec, ImplementsLifecycle, Lifecycle!Spec

-----------------------------------------------------------------------------
(* What the lifecycle promises holds of the accounts                       *)

\* A closed account stays closed: no request that loaded the row before commits
\* one that is active again (verify-email, reset-password, update_me, login).
ClosedForGood == [][\A u \in Users : StateOf(u) = "closed" => StateOf(u)' = "closed"]_vars

\* Holds of the lifecycle, hence of every commit (LifeStep), for any requests
\* that overlap.
THEOREM ClosedStaysClosed == Spec => ClosedForGood
<1>1. IInv /\ [Next]_vars => \A u \in Users : StateOf(u) = "closed" => StateOf(u)' = "closed"
  <2> SUFFICES ASSUME IInv, [Next]_vars, NEW u \in Users, StateOf(u) = "closed"
               PROVE  StateOf(u)' = "closed"
    OBVIOUS
  <2> DEFINE S == [w \in Users |-> StateOf(w)]
  <2>1. [Lifecycle!Next]_(Lifecycle!vars)
    BY LifeStep
  <2>2. S[u] = "closed" /\ DOMAIN S = Users /\ S'[u] = StateOf(u)'
    OBVIOUS
  <2>3. CASE UNCHANGED Lifecycle!vars
    BY <2>2, <2>3 DEF Lifecycle!vars
  <2>4. ASSUME NEW w \in Users, Lifecycle!Verify(w) \/ Lifecycle!Close(w)
        PROVE  S'[u] = "closed"
    BY <2>2, <2>4 DEF Lifecycle!Verify, Lifecycle!Close, Lifecycle!Open
  <2>5. ASSUME NEW w \in Users, NEW e \in Emails, Lifecycle!Register(w, e)
        PROVE  S'[u] = "closed"
    BY <2>2, <2>5 DEF Lifecycle!Register
  <2> HIDE DEF S
  <2> QED
    BY <2>1, <2>2, <2>3, <2>4, <2>5 DEF Lifecycle!Next
<1> QED
  BY <1>1, InvAlways, PTL DEF Spec, ClosedForGood

-----------------------------------------------------------------------------
(* Who waits for whom                                                      *)

\* A request waits at its flush, for one that has flushed (Waits).  Whoever has
\* flushed is on its way to the commit and waits for nobody, so row locks and
\* unique indexes alone never make requests of this module wait for each other:
\* there is no deadlock for PostgreSQL to break, as there is in RefreshSessions.
HoldersNeverWait ==
  \A q \in Requests : dirty[q] # {} =>
    pc[q] \in {"setKey", "mail", "respond", "commit"}

\* Holds for any number of requests: dirty is empty wherever a request can wait.
THEOREM WaitsAreShort == Spec => []HoldersNeverWait
<1>1. IInv => HoldersNeverWait
  BY DEF IInv, TypeOK, PcValues, Control, HoldersNeverWait
<1> QED
  BY <1>1, InvAlways, PTL
=============================================================================

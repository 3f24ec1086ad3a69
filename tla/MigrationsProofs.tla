-------------------------- MODULE MigrationsProofs --------------------------
(***************************************************************************)
(* Proofs about Migrations, for every number of alembic commands that run  *)
(* side by side.                                                           *)
(***************************************************************************)
EXTENDS Migrations, FiniteSetTheorems, TLAPS

-----------------------------------------------------------------------------
(* A walk through the revisions, one revision at a time                    *)

UpNext(v, x) == IF x = Failed THEN Failed ELSE Up(v, x)
DownNext(v, x) == IF x = Failed THEN Failed ELSE Down(v, x)

\* The upgrades make the schemas their recursive definition says.
LEMMA UpDefined ==
  ASSUME NEW a \in 0..Head, NEW s
  PROVE  UpFrom(a, s) = [v \in a..Head |-> IF v = a THEN s ELSE UpNext(v, UpFrom(a, s)[v - 1])]
<1> DEFINE Body(f, n) == [v \in a..n |-> IF v = a THEN s ELSE UpNext(v, f[v - 1])]
           Ex(n) == \E g : g = Body(g, n)
<1>1. Ex(a)
  <2>1. [v \in a..a |-> s] = Body([v \in a..a |-> s], a)
    OBVIOUS
  <2> QED
    BY <2>1
<1>2. \A n \in Nat : n >= a /\ Ex(n) => Ex(n + 1)
  <2> SUFFICES ASSUME NEW n \in Nat, n >= a, NEW g, g = Body(g, n) PROVE Ex(n + 1)
    OBVIOUS
  <2>1. PICK h : h = [v \in a..(n + 1) |-> IF v \in a..n THEN g[v] ELSE UpNext(v, g[n])]
    OBVIOUS
  <2>2. ASSUME NEW v \in a..(n + 1)
        PROVE  h[v] = IF v = a THEN s ELSE UpNext(v, h[v - 1])
    <3> HIDE DEF Body
    <3>1. CASE v = a
      <4>1. h[v] = g[v] /\ v \in a..n
        BY <2>1, <3>1
      <4> QED
        BY <3>1, <4>1 DEF Body
    <3>2. CASE v # a /\ v \in a..n
      <4>1. h[v] = g[v] /\ h[v - 1] = g[v - 1]
        BY <2>1, <3>2
      <4> QED
        BY <3>2, <4>1 DEF Body
    <3>3. CASE v = n + 1
      <4>1. h[v] = UpNext(v, g[n]) /\ h[n] = g[n] /\ v - 1 = n /\ v # a
        BY <2>1, <3>3
      <4> QED
        BY <4>1
    <3> QED
      BY <3>1, <3>2, <3>3
  <2>3. h = Body(h, n + 1)
    BY <2>1, <2>2
  <2> QED
    BY <2>3
<1> HIDE DEF Ex
<1>3. Ex(10)
  BY <1>1, <1>2 DEF Head
<1>4. \E f : f = Body(f, 10)
  BY <1>3 DEF Ex
<1>5. UpFrom(a, s) = CHOOSE f : f = Body(f, 10)
  BY DEF UpFrom, UpNext, Head
<1>6. UpFrom(a, s) = Body(UpFrom(a, s), 10)
  BY <1>4, <1>5
<1> QED
  BY <1>6 DEF Head

\* And so do the downgrades.
LEMMA DownDefined ==
  ASSUME NEW a \in 0..Head, NEW s
  PROVE  DownFrom(a, s) = [v \in 0..a |-> IF v = a THEN s ELSE DownNext(v + 1, DownFrom(a, s)[v + 1])]
<1> DEFINE Body(f, n) == [v \in n..a |-> IF v = a THEN s ELSE DownNext(v + 1, f[v + 1])]
           Ex(n) == \E g : g = Body(g, n)
<1>1. Ex(a)
  <2>1. [v \in a..a |-> s] = Body([v \in a..a |-> s], a)
    OBVIOUS
  <2> QED
    BY <2>1
<1>2. \A n \in 1..a : Ex(n) => Ex(n - 1)
  <2> SUFFICES ASSUME NEW n \in 1..a, NEW g, g = Body(g, n) PROVE Ex(n - 1)
    OBVIOUS
  <2>1. PICK h : h = [v \in (n - 1)..a |-> IF v \in n..a THEN g[v] ELSE DownNext(n, g[n])]
    OBVIOUS
  <2>2. \A v \in (n - 1)..a : h[v] = IF v = a THEN s ELSE DownNext(v + 1, h[v + 1])
    BY <2>1
  <2>3. h = Body(h, n - 1)
    BY <2>1, <2>2
  <2> QED
    BY <2>3
<1> HIDE DEF Ex
<1>3. Ex(0)
  BY <1>1, <1>2 DEF Head
<1>4. \E f : f = Body(f, 0)
  BY <1>3 DEF Ex
<1>5. DownFrom(a, s) = CHOOSE f : f = Body(f, 0)
  BY DEF DownFrom, DownNext
<1>6. DownFrom(a, s) = Body(DownFrom(a, s), 0)
  BY <1>4, <1>5
<1> QED
  BY <1>6

-----------------------------------------------------------------------------
(* What the revisions add                                                  *)

LEMMA AddedIs ==
  /\ Added(1) = {<<"users", "created">>, <<"users", "idx_users_email">>,
                 <<"users", "idx_users_username">>}
  /\ Added(2) = {<<"user_sessions", "created">>, <<"user_sessions", "idx_user_sessions_user_id">>,
                 <<"user_sessions", "idx_user_sessions_jti">>}
  /\ Added(3) = {<<"llm_providers", "created">>, <<"llm_providers", "idx_llm_providers_user_id">>,
                 <<"agent_sessions", "created">>, <<"agent_sessions", "idx_agent_sessions_user_id">>,
                 <<"agent_messages", "created">>,
                 <<"agent_messages", "idx_agent_messages_session_id">>}
  /\ Added(4) = {<<"agent_messages", "sort_index">>,
                 <<"agent_messages", "idx_agent_messages_session_sort">>,
                 <<"agent_sessions", "deleted_at">>}
  /\ Added(5) = {<<"llm_providers", "encryption_key_id">>}
  /\ Added(6) = {<<"agent_sessions", "annotation_project_id">>,
                 <<"agent_sessions", "ix_agent_sessions_user_project_updated">>}
  /\ Added(7) = {<<"llm_providers", "supports_vision">>, <<"llm_providers", "vision_probed_at">>,
                 <<"llm_providers", "vision_probe_detail">>}
  /\ Added(8) = {<<"agent_sessions", "interaction_mode">>}
  /\ Added(9) = {<<"agent_messages", "interaction_mode">>}
  /\ Added(10) = {}
<1> USE DEF Added, Created, Messages, Sessions, Providers
<1>1. Added(1) = {<<"users", "created">>, <<"users", "idx_users_email">>,
                    <<"users", "idx_users_username">>}
  BY DEF UsersTable
<1>2. Added(2) = {<<"user_sessions", "created">>,
                    <<"user_sessions", "idx_user_sessions_user_id">>,
                    <<"user_sessions", "idx_user_sessions_jti">>}
  BY DEF UserSessionsTable
<1>3. Added(3) = {<<"llm_providers", "created">>,
                    <<"llm_providers", "idx_llm_providers_user_id">>,
                    <<"agent_sessions", "created">>,
                    <<"agent_sessions", "idx_agent_sessions_user_id">>,
                    <<"agent_messages", "created">>,
                    <<"agent_messages", "idx_agent_messages_session_id">>}
  BY DEF AgentTables
<1>4. Added(4) = {<<"agent_messages", "sort_index">>,
                    <<"agent_messages", "idx_agent_messages_session_sort">>,
                    <<"agent_sessions", "deleted_at">>}
  BY DEF SortIndex
<1>5. Added(5) = {<<"llm_providers", "encryption_key_id">>}
  BY DEF EncryptionKey
<1>6. Added(6) = {<<"agent_sessions", "annotation_project_id">>,
                    <<"agent_sessions", "ix_agent_sessions_user_project_updated">>}
  BY DEF AnnotationProject
<1>7. Added(7) = {<<"llm_providers", "supports_vision">>,
                    <<"llm_providers", "vision_probed_at">>,
                    <<"llm_providers", "vision_probe_detail">>}
  BY DEF VisionProbe
<1>8. Added(8) = {<<"agent_sessions", "interaction_mode">>}
  BY DEF SessionMode
<1>9. Added(9) = {<<"agent_messages", "interaction_mode">>}
  BY DEF MessageMode
<1>10. Added(10) = {}
  OBVIOUS
<1> HIDE DEF Added, Created
<1> QED
  BY <1>1, <1>2, <1>3, <1>4, <1>5, <1>6, <1>7, <1>8, <1>9, <1>10

\* No two revisions add the same item.
LEMMA AddedDisjoint ==
  \A v, w \in 1..10 : v # w => Added(v) \cap Added(w) = {}
<1> DEFINE Only(v) == \A w \in 1..10 : v # w => Added(v) \cap Added(w) = {}
<1> SUFFICES ASSUME NEW v \in 1..10 PROVE Only(v)
  OBVIOUS
<1> HIDE DEF Only
<1>1. CASE v = 1
  BY <1>1, AddedIs DEF Only
<1>2. CASE v = 2
  BY <1>2, AddedIs DEF Only
<1>3. CASE v = 3
  BY <1>3, AddedIs DEF Only
<1>4. CASE v = 4
  BY <1>4, AddedIs DEF Only
<1>5. CASE v = 5
  BY <1>5, AddedIs DEF Only
<1>6. CASE v = 6
  BY <1>6, AddedIs DEF Only
<1>7. CASE v = 7
  BY <1>7, AddedIs DEF Only
<1>8. CASE v = 8
  BY <1>8, AddedIs DEF Only
<1>9. CASE v = 9
  BY <1>9, AddedIs DEF Only
<1>10. CASE v = 10
  BY <1>10, AddedIs DEF Only
<1> QED
  BY <1>1, <1>2, <1>3, <1>4, <1>5, <1>6, <1>7, <1>8, <1>9, <1>10

\* The tables are created by revisions 1, 2 and 3, the column revision 6 looks
\* for by revision 6.
LEMMA CreatedOnce ==
  \A w \in 1..10 :
    /\ <<"users", "created">> \in Added(w) <=> w = 1
    /\ <<"user_sessions", "created">> \in Added(w) <=> w = 2
    /\ \A t \in Legacy : <<t, "created">> \in Added(w) <=> w = 3
    /\ <<Sessions, "annotation_project_id">> \in Added(w) <=> w = 6
<1>1. <<"users", "created">> \in Added(1)
  BY AddedIs
<1>2. <<"user_sessions", "created">> \in Added(2)
  BY AddedIs
<1>3. \A t \in Legacy : <<t, "created">> \in Added(3)
  BY AddedIs DEF Legacy, Messages, Sessions, Providers
<1>4. <<Sessions, "annotation_project_id">> \in Added(6)
  BY AddedIs DEF Sessions
<1>5. \A x : \A v, w \in 1..10 : x \in Added(v) /\ x \in Added(w) => v = w
  BY AddedDisjoint
<1> QED
  BY <1>1, <1>2, <1>3, <1>4, <1>5

\* From the third revision on only the tables the last one drops grow.
LEMMA AddedTo ==
  /\ \A w \in {1, 2} : \A x \in Added(w) : x[1] \notin Legacy
  /\ \A w \in 3..10 : \A x \in Added(w) : x[1] \in Legacy
<1> USE DEF Legacy, Messages, Sessions, Providers
<1>1. \A w \in {1, 2} : \A x \in Added(w) : x[1] \notin Legacy
  <2>1. \A x \in Added(1) : x[1] \notin Legacy
    BY AddedIs
  <2>2. \A x \in Added(2) : x[1] \notin Legacy
    BY AddedIs
  <2> QED
    BY <2>1, <2>2
<1>2. \A x \in Added(3) : x[1] \in Legacy
  BY AddedIs
<1>3. \A x \in Added(4) : x[1] \in Legacy
  BY AddedIs
<1>4. \A x \in Added(5) : x[1] \in Legacy
  BY AddedIs
<1>5. \A x \in Added(6) : x[1] \in Legacy
  BY AddedIs
<1>6. \A x \in Added(7) : x[1] \in Legacy
  BY AddedIs
<1>7. \A x \in Added(8) : x[1] \in Legacy
  BY AddedIs
<1>8. \A x \in Added(9) \cup Added(10) : x[1] \in Legacy
  BY AddedIs
<1> HIDE DEF Legacy
<1>9. ASSUME NEW w \in 3..10, NEW x \in Added(w) PROVE x[1] \in Legacy
  <2>1. w \in {3, 4, 5, 6, 7, 8, 9, 10}
    OBVIOUS
  <2> QED
    BY <1>2, <1>3, <1>4, <1>5, <1>6, <1>7, <1>8, <2>1
<1> QED
  BY <1>1, <1>9

-----------------------------------------------------------------------------
(* The schema of a version                                                 *)

\* What revisions 1 to v add.
SchemaAt(v) == UNION {Added(w) : w \in 1..v}

\* What they make: the last one drops the tables of the third and keeps only
\* what the first two created.
At(v) == IF v = 10 THEN SchemaAt(2) ELSE SchemaAt(v)

LEMMA InSchemaAt ==
  \A v \in 0..10 : \A x : x \in SchemaAt(v) <=> \E w \in 1..v : x \in Added(w)
BY DEF SchemaAt

LEMMA SchemaGrows ==
  /\ SchemaAt(0) = {}
  /\ \A v \in 1..10 : /\ SchemaAt(v) = SchemaAt(v - 1) \cup Added(v)
                      /\ SchemaAt(v - 1) \cap Added(v) = {}
<1>1. SchemaAt(0) = {}
  BY InSchemaAt
<1>2. ASSUME NEW v \in 1..10
      PROVE  /\ SchemaAt(v) = SchemaAt(v - 1) \cup Added(v)
             /\ SchemaAt(v - 1) \cap Added(v) = {}
  <2>1. \A x : x \in SchemaAt(v) <=> \E w \in 1..v : x \in Added(w)
    BY InSchemaAt
  <2>2. \A x : x \in SchemaAt(v - 1) <=> \E w \in 1..(v - 1) : x \in Added(w)
    BY InSchemaAt
  <2>3. SchemaAt(v) = SchemaAt(v - 1) \cup Added(v)
    <3>1. \A w \in Int : w \in 1..v <=> w \in 1..(v - 1) \/ w = v
      OBVIOUS
    <3>2. \A x : x \in SchemaAt(v) <=> x \in SchemaAt(v - 1) \/ x \in Added(v)
      BY <2>1, <2>2, <3>1
    <3> QED
      BY <3>2
  <2>4. SchemaAt(v - 1) \cap Added(v) = {}
    BY <2>2, AddedDisjoint
  <2> QED
    BY <2>3, <2>4
<1> QED
  BY <1>1, <1>2

\* A table is there from the revision that creates it.
LEMMA TablesOf ==
  ASSUME NEW v \in 0..10
  PROVE  /\ HasTable(SchemaAt(v), "users") <=> v >= 1
         /\ HasTable(SchemaAt(v), "user_sessions") <=> v >= 2
         /\ \A t \in Legacy : HasTable(SchemaAt(v), t) <=> v >= 3
         /\ <<Sessions, "annotation_project_id">> \in SchemaAt(v) <=> v >= 6
<1>1. \A x : x \in SchemaAt(v) <=> \E w \in 1..v : x \in Added(w)
  BY InSchemaAt
<1>2. \A n \in 1..10 : \A x : (\A w \in 1..10 : x \in Added(w) <=> w = n)
                                => (x \in SchemaAt(v) <=> v >= n)
  BY <1>1
<1>3. <<"users", "created">> \in SchemaAt(v) <=> v >= 1
  BY <1>2, CreatedOnce
<1>4. <<"user_sessions", "created">> \in SchemaAt(v) <=> v >= 2
  BY <1>2, CreatedOnce
<1>5. \A t \in Legacy : <<t, "created">> \in SchemaAt(v) <=> v >= 3
  <2> SUFFICES ASSUME NEW t \in Legacy PROVE <<t, "created">> \in SchemaAt(v) <=> v >= 3
    OBVIOUS
  <2>1. \A w \in 1..10 : <<t, "created">> \in Added(w) <=> w = 3
    BY CreatedOnce
  <2> QED
    BY <1>2, <2>1
<1>6. <<Sessions, "annotation_project_id">> \in SchemaAt(v) <=> v >= 6
  BY <1>2, CreatedOnce
<1> QED
  BY <1>3, <1>4, <1>5, <1>6 DEF HasTable

LEMMA NeverFailed == \A v \in 0..10 : SchemaAt(v) # Failed
BY FailedAssumption DEF SchemaAt, Head

LEMMA AlteredAre ==
  /\ \A v \in 1..10 : Altered(v) \subseteq Legacy /\ (v < 5 \/ v = 10 => Altered(v) = {})
  /\ Messages \in Altered(9)
BY DEF Altered, Legacy

-----------------------------------------------------------------------------
(* One revision up or down                                                 *)

\* Dropping the legacy tables leaves what the first two revisions created.
LEMMA LegacyGone ==
  \A v \in 2..9 : Without(SchemaAt(v), Legacy) = SchemaAt(2)
<1> SUFFICES ASSUME NEW v \in 2..9 PROVE Without(SchemaAt(v), Legacy) = SchemaAt(2)
  OBVIOUS
<1>1. \A x : x \in Without(SchemaAt(v), Legacy)
               <=> \E w \in 1..v : x \in Added(w) /\ x[1] \notin Legacy
  BY InSchemaAt DEF Without
<1>2. \A w \in 1..v : \A x \in Added(w) : x[1] \notin Legacy <=> w \in 1..2
  BY AddedTo
<1>3. \A x : x \in SchemaAt(2) <=> \E w \in 1..2 : x \in Added(w)
  BY InSchemaAt
<1>4. \A x : x \in Without(SchemaAt(v), Legacy) <=> x \in SchemaAt(2)
  BY <1>1, <1>2, <1>3
<1> QED
  BY <1>4

\* An upgrade makes of the schema of a version the schema of the next.
LEMMA UpStep ==
  ASSUME NEW v \in 1..9
  PROVE  Up(v, SchemaAt(v - 1)) = SchemaAt(v)
<1> DEFINE S == SchemaAt(v - 1)
<1>1. v - 1 \in 0..10
  OBVIOUS
<1>2. /\ HasTable(S, "users") <=> v - 1 >= 1
      /\ HasTable(S, "user_sessions") <=> v - 1 >= 2
      /\ \A t \in Legacy : HasTable(S, t) <=> v - 1 >= 3
      /\ <<Sessions, "annotation_project_id">> \in S <=> v - 1 >= 6
  BY <1>1, TablesOf
<1>3. SchemaAt(v) = S \cup Added(v) /\ S \cap Added(v) = {}
  BY SchemaGrows
<1>4. Added(7) = VisionProbe
  BY DEF Added
<1> HIDE DEF S
<1>5. ~Missing(v, S)
  BY <1>2, AlteredAre DEF Missing
<1>6. ~(v = 7 /\ VisionProbe \cap S # {})
  BY <1>3, <1>4
<1>7. ~UpRaises(v, S)
  BY <1>2, <1>5, <1>6 DEF UpRaises
<1>8. ~(v = 4 /\ ~(HasTable(S, Messages) /\ HasTable(S, Sessions)))
  BY <1>2 DEF Legacy
<1>9. ~(v = 6 /\ <<Sessions, "annotation_project_id">> \in S)
  BY <1>2
<1>10. Up(v, S) = S \cup Added(v)
  BY <1>7, <1>8, <1>9 DEF Up, Head
<1> QED
  BY <1>3, <1>10 DEF S

\* The last one drops the legacy tables, there or not.
LEMMA UpLast ==
  Up(10, SchemaAt(9)) = SchemaAt(2) /\ Up(10, SchemaAt(2)) = SchemaAt(2)
<1>1. \A s : ~UpRaises(10, s)
  BY AlteredAre DEF UpRaises, Missing
<1>2. \A s : Up(10, s) = Without(s, Legacy)
  BY <1>1 DEF Up, Head, LegacyDropped
<1> QED
  BY <1>2, LegacyGone

\* The first one raises if the users table is there.
LEMMA UpFirst ==
  ASSUME NEW s, HasTable(s, "users")
  PROVE  Up(1, s) = Failed
BY DEF Up, UpRaises

\* A downgrade makes of the schema of a version that of the one before.
LEMMA DownStep ==
  ASSUME NEW v \in 1..9
  PROVE  Down(v, SchemaAt(v)) \in {SchemaAt(v - 1), Failed}
<1>1. SchemaAt(v) \ Added(v) = SchemaAt(v - 1)
  BY SchemaGrows
<1>2. v = 3 => Without(SchemaAt(v), Legacy) = SchemaAt(v - 1)
  BY LegacyGone
<1> QED
  BY <1>1, <1>2 DEF Down

\* The downgrade of the last does nothing; the one below it then raises.
LEMMA DownLast ==
  (\A s : Down(10, s) \in {s, Failed}) /\ Down(9, SchemaAt(2)) = Failed
<1>1. \A s : Down(10, s) \in {s, Failed}
  BY AddedIs DEF Down
<1>2. ~HasTable(SchemaAt(2), Messages)
  BY TablesOf DEF Legacy
<1>3. DownRaises(9, SchemaAt(2))
  BY <1>2, AlteredAre DEF DownRaises, Missing
<1> QED
  BY <1>1, <1>3 DEF Down

-----------------------------------------------------------------------------
(* The walks a command takes                                               *)

LEMMA Climb ==
  ASSUME NEW S, 0 \in S, \A v \in 1..10 : v - 1 \in S => v \in S
  PROVE  \A v \in 0..10 : v \in S
<1>1. 1 \in S /\ 2 \in S /\ 3 \in S
  OBVIOUS
<1>2. 4 \in S /\ 5 \in S /\ 6 \in S
  BY <1>1
<1>3. 7 \in S /\ 8 \in S /\ 9 \in S /\ 10 \in S
  BY <1>2
<1> QED
  BY <1>1, <1>2, <1>3

LEMMA Descend ==
  ASSUME NEW S, 10 \in S, \A v \in 1..10 : v - 1 \in S \/ v \notin S
  PROVE  \A v \in 0..10 : v \in S
<1>1. 9 \in S /\ 8 \in S /\ 7 \in S
  OBVIOUS
<1>2. 6 \in S /\ 5 \in S /\ 4 \in S
  BY <1>1
<1>3. 3 \in S /\ 2 \in S /\ 1 \in S /\ 0 \in S
  BY <1>2
<1> QED
  BY <1>1, <1>2, <1>3

\* Upgrades lead from the schema of a version to the schema of a later one.
LEMMA UpWalk ==
  ASSUME NEW a \in 0..10, NEW b \in a..10
  PROVE  UpFrom(a, At(a))[b] = At(b)
<1> DEFINE f == UpFrom(a, At(a))
           S == {v \in 0..10 : v >= a => f[v] = At(v)}
<1>1. \A v \in a..10 : f[v] = IF v = a THEN At(a) ELSE UpNext(v, f[v - 1])
  <2>1. f = [v \in a..10 |-> IF v = a THEN At(a) ELSE UpNext(v, f[v - 1])]
    BY UpDefined DEF Head
  <2> HIDE DEF f
  <2> QED
    BY <2>1
<1>2. \A v \in 1..10 : UpNext(v, At(v - 1)) = At(v)
  <2>1. \A v \in 1..9 : Up(v, SchemaAt(v - 1)) = SchemaAt(v)
    BY UpStep
  <2>2. Up(10, SchemaAt(9)) = SchemaAt(2)
    BY UpLast
  <2>3. \A v \in 1..10 : Up(v, SchemaAt(v - 1)) = At(v)
    BY <2>1, <2>2 DEF At
  <2> QED
    BY <2>3, NeverFailed DEF At, UpNext
<1> HIDE DEF f
<1>3. 0 \in S
  BY <1>1
<1>4. \A v \in 1..10 : v - 1 \in S => v \in S
  BY <1>1, <1>2
<1>5. b \in S
  <2> HIDE DEF S
  <2> QED
    BY <1>3, <1>4, Climb
<1> QED
  BY <1>5 DEF f

\* From 009 without the tables 010 dropped, the last revision leads to head.
LEMMA UpFromBelowHead ==
  UpFrom(9, At(10))[9] = At(10) /\ UpFrom(9, At(10))[10] = At(10)
<1> DEFINE f == UpFrom(9, At(10))
<1>1. f = [v \in 9..10 |-> IF v = 9 THEN At(10) ELSE UpNext(v, f[v - 1])]
  BY UpDefined DEF Head
<1> HIDE DEF f
<1>2. f[9] = At(10) /\ f[10] = UpNext(10, f[9])
  BY <1>1
<1>3. UpNext(10, At(10)) = At(10)
  BY UpLast, NeverFailed DEF At, UpNext
<1> QED
  BY <1>2, <1>3 DEF f

\* From the start again, the first revision raises if there is a users table.
LEMMA UpAgain ==
  ASSUME NEW s, HasTable(s, "users"), NEW b \in 1..10
  PROVE  UpFrom(0, s)[b] = Failed
<1> DEFINE f == UpFrom(0, s)
           S == {v \in 0..10 : v >= 1 => f[v] = Failed}
<1>1. \A v \in 0..10 : f[v] = IF v = 0 THEN s ELSE UpNext(v, f[v - 1])
  <2>1. f = [v \in 0..10 |-> IF v = 0 THEN s ELSE UpNext(v, f[v - 1])]
    BY UpDefined DEF Head
  <2> HIDE DEF f
  <2> QED
    BY <2>1
<1>2. UpNext(1, s) = Failed
  BY UpFirst DEF UpNext
<1>3. \A v : UpNext(v, Failed) = Failed
  BY DEF UpNext
<1> HIDE DEF f
<1>4. 0 \in S
  OBVIOUS
<1>5. \A v \in 1..10 : v - 1 \in S => v \in S
  BY <1>1, <1>2, <1>3
<1>6. b \in S
  <2> HIDE DEF S
  <2> QED
    BY <1>4, <1>5, Climb
<1> QED
  BY <1>6 DEF f

\* Downgrades from below head lead to the schema of an earlier version, or fail.
LEMMA DownWalk ==
  ASSUME NEW a \in 0..9, NEW b \in 0..a
  PROVE  DownFrom(a, At(a))[b] \in {At(b), Failed}
<1> DEFINE f == DownFrom(a, At(a))
           S == {v \in 0..10 : v <= a => f[v] \in {At(v), Failed}}
<1>1. \A v \in 0..a : f[v] = IF v = a THEN At(a) ELSE DownNext(v + 1, f[v + 1])
  <2>0. a \in 0..10
    OBVIOUS
  <2>1. f = [v \in 0..a |-> IF v = a THEN At(a) ELSE DownNext(v + 1, f[v + 1])]
    BY <2>0, DownDefined DEF Head
  <2> HIDE DEF f
  <2> QED
    BY <2>1
<1>2. \A v \in 1..9 : DownNext(v, At(v)) \in {At(v - 1), Failed}
  BY DownStep DEF At, DownNext
<1>3. \A v : DownNext(v, Failed) = Failed
  BY DEF DownNext
<1> HIDE DEF f
<1>4. 10 \in S
  OBVIOUS
<1>5. \A v \in 1..10 : v - 1 \in S \/ v \notin S
  <2> SUFFICES ASSUME NEW v \in 1..10, v \in S, v <= a PROVE f[v - 1] \in {At(v - 1), Failed}
    BY <1>1
  <2>0. v - 1 \in 0..a /\ v - 1 # a /\ (v - 1) + 1 = v
    OBVIOUS
  <2>1. f[v - 1] = DownNext(v, f[v])
    BY <1>1, <2>0
  <2>2. f[v] \in {At(v), Failed}
    OBVIOUS
  <2>3. DownNext(v, At(v)) \in {At(v - 1), Failed}
    BY <1>2
  <2> QED
    BY <1>3, <2>1, <2>2, <2>3
<1>6. b \in S
  <2> HIDE DEF S
  <2>1. \A v \in 0..10 : v \in S
    BY <1>4, <1>5, Descend
  <2> QED
    BY <2>1
<1> QED
  BY <1>6 DEF f

\* Below 009 there is no way down without the tables 010 dropped: from head,
LEMMA DownFromHead ==
  ASSUME NEW b \in 0..10
  PROVE  /\ b = 10 => DownFrom(10, At(10))[b] = At(10)
         /\ b = 9 => DownFrom(10, At(10))[b] \in {At(10), Failed}
         /\ b < 9 => DownFrom(10, At(10))[b] = Failed
<1> DEFINE f == DownFrom(10, At(10))
           S == {v \in 0..10 : /\ v = 10 => f[v] = At(10)
                               /\ v = 9 => f[v] \in {At(10), Failed}
                               /\ v < 9 => f[v] = Failed}
<1>1. \A v \in 0..10 : f[v] = IF v = 10 THEN At(10) ELSE DownNext(v + 1, f[v + 1])
  <2>1. f = [v \in 0..10 |-> IF v = 10 THEN At(10) ELSE DownNext(v + 1, f[v + 1])]
    BY DownDefined DEF Head
  <2> HIDE DEF f
  <2> QED
    BY <2>1
<1>2. DownNext(10, At(10)) \in {At(10), Failed} /\ DownNext(9, At(10)) = Failed
  BY DownLast DEF At, DownNext
<1>3. \A v : DownNext(v, Failed) = Failed
  BY DEF DownNext
<1> HIDE DEF f
<1>4. 10 \in S
  BY <1>1
<1>5. \A v \in 1..10 : v - 1 \in S \/ v \notin S
  <2> SUFFICES ASSUME NEW v \in 1..10, v \in S PROVE v - 1 \in S
    OBVIOUS
  <2>1. v - 1 \in 0..9 /\ (v - 1) + 1 = v
    OBVIOUS
  <2> QED
    BY <1>1, <1>2, <1>3, <2>1
<1>6. b \in S
  <2> HIDE DEF S
  <2>1. \A v \in 0..10 : v \in S
    BY <1>4, <1>5, Descend
  <2> QED
    BY <2>1
<1> QED
  BY <1>6 DEF f

\* and from 009.
LEMMA DownBelowHead ==
  ASSUME NEW b \in 0..8
  PROVE  DownFrom(9, At(10))[b] = Failed
<1> DEFINE f == DownFrom(9, At(10))
           S == {v \in 0..10 : v < 9 => f[v] = Failed}
<1>1. \A v \in 0..9 : f[v] = IF v = 9 THEN At(10) ELSE DownNext(v + 1, f[v + 1])
  <2>1. f = [v \in 0..9 |-> IF v = 9 THEN At(10) ELSE DownNext(v + 1, f[v + 1])]
    BY DownDefined DEF Head
  <2> HIDE DEF f
  <2> QED
    BY <2>1
<1>2. DownNext(9, At(10)) = Failed
  BY DownLast DEF At, DownNext
<1>3. \A v : DownNext(v, Failed) = Failed
  BY DEF DownNext
<1> HIDE DEF f
<1>4. 10 \in S
  OBVIOUS
<1>5. \A v \in 1..10 : v - 1 \in S \/ v \notin S
  <2> SUFFICES ASSUME NEW v \in 1..10, v \in S PROVE v - 1 \in S
    OBVIOUS
  <2>1. v - 1 \in 0..9 /\ (v - 1) + 1 = v
    OBVIOUS
  <2> QED
    BY <1>1, <1>2, <1>3, <2>1
<1>6. b \in S
  <2> HIDE DEF S
  <2>1. \A v \in 0..10 : v \in S
    BY <1>4, <1>5, Descend
  <2> QED
    BY <2>1
<1> QED
  BY <1>6 DEF f

\* The schema is that of version v, or v is 009 and it is that of head.
Fits(v, s) == s = At(v) \/ (v = 9 /\ s = At(10))

\* A command keeps the schema that of its version, or fails.
LEMMA WalkFits ==
  ASSUME NEW a \in 0..10, NEW b \in 0..10, NEW s, Fits(a, s), Walk(a, b, s) # Failed
  PROVE  Fits(b, Walk(a, b, s))
<1>1. CASE a <= b /\ s = At(a)
  BY <1>1, UpWalk DEF Walk, Fits
<1>2. CASE a <= b /\ a = 9 /\ s = At(10)
  <2>1. b = 9 \/ b = 10
    BY <1>2
  <2> QED
    BY <1>2, <2>1, UpFromBelowHead DEF Walk, Fits
<1>3. CASE a > b /\ a <= 9 /\ s = At(a)
  BY <1>3, DownWalk DEF Walk, Fits
<1>4. CASE a > b /\ a = 10 /\ s = At(10)
  <2>1. Walk(a, b, s) = DownFrom(10, At(10))[b]
    BY <1>4 DEF Walk
  <2>2. b = 9 /\ DownFrom(10, At(10))[9] \in {At(10), Failed}
    BY <1>4, <2>1, DownFromHead
  <2> QED
    BY <2>1, <2>2 DEF Fits
<1>5. CASE a > b /\ a = 9 /\ s = At(10)
  BY <1>5, DownBelowHead DEF Walk
<1> QED
  BY <1>1, <1>2, <1>3, <1>4, <1>5 DEF Fits

\* Without a row for its version a command can only start over, and fails.
LEMMA StartOverFails ==
  ASSUME NEW v \in 1..10, NEW s, Fits(v, s), NEW b \in 1..10
  PROVE  Walk(0, b, s) = Failed
<1>1. HasTable(SchemaAt(v), "users") /\ HasTable(SchemaAt(2), "users")
  BY TablesOf
<1>2. HasTable(s, "users")
  BY <1>1 DEF Fits, At
<1> QED
  BY <1>2, UpAgain DEF Walk

-----------------------------------------------------------------------------
(* The invariant                                                           *)

\* One version row at most, none for version 0, and the schema is its schema.
InStep == \E v \in 0..10 : rows = {v} \ {0} /\ Fits(v, schema)

Inv == TypeOK /\ InStep

LEMMA ItemsOf == \A v \in 0..10 : At(v) \subseteq Items
<1>1. \A v \in 0..10 : SchemaAt(v) \subseteq Items
  BY DEF SchemaAt, Items, Head
<1> QED
  BY <1>1 DEF At

\* A command starts or ends: nothing committed changes.
LEMMA StartTyped ==
  ASSUME TypeOK, NEW p \in Processes, NEW t \in 0..Head, Start(p, t)
  PROVE  TypeOK'
<1>1. Versions \subseteq 0..Head
  BY DEF TypeOK, Versions, Head
<1> QED
  BY <1>1 DEF TypeOK, Start

LEMMA EndTyped ==
  ASSUME TypeOK, NEW p \in Processes, End(p)
  PROVE  /\ pc' \in [Processes -> {"idle", "running"}]
         /\ read' \in [Processes -> 0..Head] /\ target' \in [Processes -> 0..Head]
BY DEF TypeOK, End, Head

\* A command that commits moves the row and the schema together.
LEMMA CommitInStep ==
  ASSUME Inv, NEW p \in Processes, Commit(p)
  PROVE  /\ \E v \in 0..10 : rows' = {v} \ {0} /\ Fits(v, schema')
         /\ rows' \subseteq 1..Head
<1>1. PICK v \in 0..10 : rows = {v} \ {0} /\ Fits(v, schema)
  BY DEF Inv, InStep
<1> DEFINE r == read[p]
           t == target[p]
<1>2. r \in 0..10 /\ t \in 0..10
  BY DEF Inv, TypeOK, Head
<1>3. /\ IF r = 0 THEN 1 \notin rows ELSE r \in rows
      /\ schema' = Walk(r, t, schema) /\ Walk(r, t, schema) # Failed
      /\ rows' = {IF w = r THEN t ELSE w : w \in rows \cup ({r} \cap {0})} \ {0}
  BY DEF Commit, Matches, Moved
<1> HIDE DEF r, t
<1>4. CASE r = v
  <2>1. rows \cup ({r} \cap {0}) = {v}
    BY <1>1, <1>2, <1>4
  <2>2. rows' = {t} \ {0}
    BY <1>3, <1>4, <2>1
  <2>3. Fits(t, schema')
    BY <1>1, <1>2, <1>3, <1>4, WalkFits
  <2> QED
    BY <1>2, <2>2, <2>3 DEF Head
<1>5. CASE r # v
  <2>1. r = 0 /\ v \in 1..10
    BY <1>1, <1>2, <1>3, <1>5
  <2>2. t \notin 1..10
    BY <1>1, <1>3, <2>1, StartOverFails
  <2>3. t = 0
    BY <1>2, <2>2
  <2>4. rows' = rows
    BY <1>1, <1>3, <2>1, <2>3
  <2>5. schema' = schema
    <3>1. UpFrom(0, schema) = [w \in 0..10 |-> IF w = 0 THEN schema
                                                  ELSE UpNext(w, UpFrom(0, schema)[w - 1])]
      BY UpDefined DEF Head
    <3>2. UpFrom(0, schema)[0] = schema
      BY <3>1
    <3> QED
      BY <1>3, <2>1, <2>3, <3>2 DEF Walk
  <2> QED
    BY <1>1, <2>1, <2>4, <2>5 DEF Head
<1> QED
  BY <1>4, <1>5

LEMMA InvInit == Init => Inv
<1> SUFFICES ASSUME Init PROVE Inv
  OBVIOUS
<1>1. TypeOK
  BY DEF Init, TypeOK, Head
<1>2. Fits(0, schema)
  BY SchemaGrows DEF Init, Fits, At
<1>3. rows = {0} \ {0}
  BY DEF Init
<1> QED
  BY <1>1, <1>2, <1>3 DEF Inv, InStep

LEMMA InvNext == Inv /\ [Next]_vars => Inv'
<1> SUFFICES ASSUME Inv, [Next]_vars PROVE Inv'
  OBVIOUS
<1>1. ASSUME NEW p \in Processes, NEW t \in 0..Head, Start(p, t) PROVE Inv'
  <2>1. TypeOK'
    BY <1>1, StartTyped DEF Inv
  <2>2. InStep'
    BY <1>1 DEF Inv, InStep, Start
  <2> QED
    BY <2>1, <2>2 DEF Inv
<1>2. ASSUME NEW p \in Processes, Commit(p) PROVE Inv'
  <2>1. (\E v \in 0..10 : rows' = {v} \ {0} /\ Fits(v, schema')) /\ rows' \subseteq 1..Head
    BY <1>2, CommitInStep
  <2>2. schema' \subseteq Items
    BY <2>1, ItemsOf DEF Fits
  <2>3. TypeOK'
    BY <1>2, <2>1, <2>2, EndTyped DEF Inv, TypeOK, Commit
  <2>4. InStep'
    BY <2>1 DEF InStep, Fits
  <2> QED
    BY <2>3, <2>4 DEF Inv
<1>3. ASSUME NEW p \in Processes, Abort(p) PROVE Inv'
  <2>1. TypeOK'
    BY <1>3, EndTyped DEF Inv, TypeOK, Abort
  <2>2. InStep'
    BY <1>3 DEF Inv, InStep, Abort
  <2> QED
    BY <2>1, <2>2 DEF Inv
<1>4. CASE UNCHANGED vars
  BY <1>4 DEF Inv, TypeOK, InStep, vars
<1> QED
  BY <1>1, <1>2, <1>3, <1>4 DEF Next

LEMMA InvHolds == Spec => []Inv
BY InvInit, InvNext, PTL DEF Spec

-----------------------------------------------------------------------------
(* What follows from it                                                    *)

\* The version the commands read is the one the schema fits.
LEMMA VersionFits ==
  ASSUME Inv, NEW v \in Versions
  PROVE  v \in 0..10 /\ Fits(v, schema)
<1>1. PICK u \in 0..10 : rows = {u} \ {0} /\ Fits(u, schema)
  BY DEF Inv, InStep
<1>2. v = u
  BY <1>1 DEF Versions
<1> QED
  BY <1>1, <1>2

\* The version table holds numbers of revisions, the tables what they add.
THEOREM MigrationsTyped == Spec => []TypeOK
<1>1. Inv => TypeOK
  BY DEF Inv
<1> QED
  BY <1>1, InvHolds, PTL

\* However many commands run side by side, there is never a second version row.
THEOREM OneVersion == Spec => []SingleVersion
<1>1. Inv => SingleVersion
  <2> SUFFICES ASSUME Inv PROVE Cardinality(rows) <= 1
    BY DEF SingleVersion
  <2>1. PICK v \in 0..10 : rows = {v} \ {0}
    BY DEF Inv, InStep
  <2>2. rows = {} \/ rows = {v}
    BY <2>1
  <2>3. Cardinality({}) = 0 /\ Cardinality({v}) = 1
    BY FS_EmptySet, FS_Singleton
  <2> QED
    BY <2>2, <2>3
<1> QED
  BY <1>1, InvHolds, PTL

\* The schema is the one the revisions up to the version make of an empty
\* database, or, at 009 after a downgrade, the one the last revision left.
THEOREM SchemaFollowsVersion == Spec => []SchemaOfVersion
<1>1. Inv => SchemaOfVersion
  <2> SUFFICES ASSUME Inv, NEW v \in Versions
               PROVE  schema = UpFrom(0, {})[v]
                        \/ (v = Head - 1 /\ schema = UpFrom(0, {})[Head])
    BY DEF SchemaOfVersion
  <2>1. v \in 0..10 /\ Fits(v, schema)
    BY VersionFits
  <2>2. At(0) = {}
    BY SchemaGrows DEF At
  <2>3. UpFrom(0, {})[v] = At(v) /\ UpFrom(0, {})[10] = At(10)
    BY <2>1, <2>2, UpWalk
  <2> QED
    BY <2>1, <2>3 DEF Fits, Head
<1> QED
  BY <1>1, InvHolds, PTL

\* From wherever earlier commands left it, "upgrade head" leads to the schema
\* the revisions make of an empty database.
THEOREM HeadAlwaysReachable == Spec => []HeadReachable
<1>1. Inv => HeadReachable
  <2> SUFFICES ASSUME Inv, NEW v \in Versions
               PROVE  UpFrom(v, schema)[Head] = UpFrom(0, {})[Head]
    BY DEF HeadReachable
  <2>1. v \in 0..10 /\ Fits(v, schema)
    BY VersionFits
  <2>2. At(0) = {}
    BY SchemaGrows DEF At
  <2>3. UpFrom(0, {})[10] = At(10)
    BY <2>2, UpWalk
  <2>4. schema = At(v) => UpFrom(v, schema)[10] = At(10)
    BY <2>1, UpWalk
  <2>5. v = 9 /\ schema = At(10) => UpFrom(v, schema)[10] = At(10)
    BY UpFromBelowHead
  <2> QED
    BY <2>1, <2>3, <2>4, <2>5 DEF Fits, Head
<1> QED
  BY <1>1, InvHolds, PTL

\* Head, or 009 reached from head: the tables 010 dropped are not there.
Dropped == rows = {10} \/ (rows = {9} /\ schema = At(10))

LEMMA DroppedStep == Inv /\ Dropped /\ [Next]_vars => Dropped'
<1> SUFFICES ASSUME Inv, Dropped, [Next]_vars PROVE Dropped'
  OBVIOUS
<1>1. ASSUME NEW p \in Processes, Commit(p) PROVE Dropped'
  <2>1. PICK v \in {9, 10} : rows = {v} /\ schema = At(10)
    <3>1. CASE rows = {10}
      <4>1. 10 \in Versions
        BY <3>1 DEF Versions
      <4>2. Fits(10, schema)
        BY <4>1, VersionFits
      <4> QED
        BY <3>1, <4>2 DEF Fits
    <3>2. CASE rows # {10}
      BY <3>2 DEF Dropped
    <3> QED
      BY <3>1, <3>2
  <2> DEFINE r == read[p]
             t == target[p]
  <2>2. r \in 0..10 /\ t \in 0..10
    BY DEF Inv, TypeOK, Head
  <2>3. /\ IF r = 0 THEN 1 \notin rows ELSE r \in rows
        /\ schema' = Walk(r, t, schema) /\ Walk(r, t, schema) # Failed
        /\ rows' = {IF w = r THEN t ELSE w : w \in rows \cup ({r} \cap {0})} \ {0}
    BY <1>1 DEF Commit, Matches, Moved
  <2> HIDE DEF r, t
  <2>4. CASE r = v
    <3>1. rows' = {t} \ {0}
      BY <2>1, <2>3, <2>4
    <3>2. CASE t = 10
      BY <3>1, <3>2 DEF Dropped
    <3>3. CASE t = 9 /\ v = 10
      <4>1. Walk(10, 9, At(10)) = DownFrom(10, At(10))[9]
        BY DEF Walk
      <4>2. schema' = At(10)
        BY <2>1, <2>3, <2>4, <3>3, <4>1, DownFromHead
      <4> QED
        BY <3>1, <3>3, <4>2 DEF Dropped
    <3>4. CASE t = 9 /\ v = 9
      <4>1. Walk(9, 9, At(10)) = At(10)
        BY UpFromBelowHead DEF Walk
      <4> QED
        BY <2>1, <2>3, <2>4, <3>1, <3>4, <4>1 DEF Dropped
    <3>5. CASE t < 9
      <4>1. Walk(v, t, At(10)) = DownFrom(v, At(10))[t]
        BY <2>1, <2>2, <3>5 DEF Walk
      <4>2. DownFrom(v, At(10))[t] = Failed
        BY <2>2, <3>5, DownFromHead, DownBelowHead
      <4> QED
        BY <2>1, <2>3, <2>4, <4>1, <4>2
    <3> QED
      BY <2>2, <3>2, <3>3, <3>4, <3>5
  <2>5. CASE r # v
    <3>1. r = 0
      BY <2>1, <2>3, <2>5
    <3>2. v \in 1..10 /\ Fits(v, schema)
      BY <2>1 DEF Fits
    <3>3. t = 0
      BY <2>2, <2>3, <3>1, <3>2, StartOverFails
    <3>4. rows' = rows
      BY <2>1, <2>3, <3>1, <3>3
    <3>5. schema' = schema
      <4>1. UpFrom(0, schema) = [w \in 0..10 |-> IF w = 0 THEN schema
                                                  ELSE UpNext(w, UpFrom(0, schema)[w - 1])]
        BY UpDefined DEF Head
      <4>2. UpFrom(0, schema)[0] = schema
        BY <4>1
      <4> QED
        BY <2>3, <3>1, <3>3, <4>2 DEF Walk
    <3> QED
      BY <3>4, <3>5 DEF Dropped
  <2> QED
    BY <2>4, <2>5
<1>2. ASSUME NEW p \in Processes, ~Commit(p),
             (\E t \in 0..Head : Start(p, t)) \/ Abort(p)
      PROVE  Dropped'
  BY <1>2 DEF Dropped, Start, Abort
<1>3. CASE UNCHANGED vars
  BY <1>3 DEF Dropped, vars
<1> QED
  BY <1>1, <1>2, <1>3 DEF Next

\* The tables 010 drops are gone for good: once the database has been at head,
\* no sequence of upgrades and downgrades, run one by one or side by side, ends
\* below 009 or brings one of them back.
THEOREM NoWayBack == Spec => [][Dropped => Dropped']_vars
  BY InvHolds, DroppedStep, PTL DEF Spec
=============================================================================

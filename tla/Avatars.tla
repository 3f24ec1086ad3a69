------------------------------ MODULE Avatars ------------------------------
(***************************************************************************)
(* The avatar of one account: the objects AvatarService keeps in MinIO and *)
(* the key in users.avatar_key that names them, changed by upload_avatar,  *)
(* delete_avatar and delete_account (src/app/api/v1/users.py).             *)
(*                                                                         *)
(* Objects appear and disappear one at a time and for good; the key is     *)
(* committed after the response.  Requests of the account interleave at    *)
(* each object and each await.  Objects of other accounts have other keys. *)
(***************************************************************************)
EXTENDS Naturals, FiniteSetsExt

CONSTANTS Keys,      \* avatar keys that can be generated: a bound
          Sizes,     \* AVATAR_SIZES
          Edges,     \* edge lengths of the images users upload
          Requests,  \* the requests that can be in flight at once: a bound
          Nil        \* None

ASSUME AvatarsAssumption ==
  /\ Nil \notin Keys
  /\ Sizes \subseteq Nat \ {0} /\ Edges \subseteq Nat \ {0}

VARIABLES
  objects,   \* objects[k][s]: edge of the object {k}_{s}.webp, 0 if there is none
  avatarKey, isActive,  \* the row of users, as committed
  source,    \* history: edge of the image uploaded as k, 0 before
  happened,  \* history: which kinds of trouble there have been
  pc, op,
  loaded,    \* avatar_key as get_current_user has loaded it
  newKey,    \* the key of the upload in progress
  edge,      \* edge of its image, as the next resize finds it
  inPlace,   \* is the image in mode RGB, so that thumbnail works on it in place?
  todo,      \* the sizes still to be stored or removed
  locked     \* has the request flushed the row, and holds its lock?

storeVars == <<objects, avatarKey, isActive, source>>
localVars == <<op, loaded, newKey, edge, inPlace>>
vars == <<storeVars, happened, pc, localVars, todo, locked>>

\* Two requests in flight together; a request or a removal that failed; a
\* delete_account with the wrong password.
Trouble == {"overlap", "fault", "mistake"}

Ops == {"none", "upload", "delete_avatar", "delete_account", "mistaken"}

PcValues == {"idle", "put", "remove", "flush", "respond", "commit"}

TypeOK ==
  /\ objects \in [Keys -> [Sizes -> Edges \cup Sizes \cup {0}]]
  /\ avatarKey \in Keys \cup {Nil} /\ isActive \in BOOLEAN
  /\ source \in [Keys -> Edges \cup {0}]
  /\ happened \subseteq Trouble
  /\ pc \in [Requests -> PcValues] /\ op \in [Requests -> Ops]
  /\ loaded \in [Requests -> Keys \cup {Nil}]
  /\ newKey \in [Requests -> Keys \cup {Nil}]
  /\ edge \in [Requests -> Edges \cup Sizes \cup {0}]
  /\ inPlace \in [Requests -> BOOLEAN]
  /\ todo \in [Requests -> SUBSET Sizes]
  /\ locked \in [Requests -> BOOLEAN]

Init ==
  /\ objects = [k \in Keys |-> [s \in Sizes |-> 0]]
  /\ avatarKey = Nil /\ isActive = TRUE
  /\ source = [k \in Keys |-> 0]
  /\ happened = {}
  /\ pc = [r \in Requests |-> "idle"] /\ op = [r \in Requests |-> "none"]
  /\ loaded = [r \in Requests |-> Nil] /\ newKey = [r \in Requests |-> Nil]
  /\ edge = [r \in Requests |-> 0] /\ inPlace = [r \in Requests |-> FALSE]
  /\ todo = [r \in Requests |-> {}] /\ locked = [r \in Requests |-> FALSE]

-----------------------------------------------------------------------------
Step(r, from, to) == pc[r] = from /\ pc' = [pc EXCEPT ![r] = to]

\* get_current_user: the account is active, its row is loaded.
Begin(r, o, to) ==
  /\ isActive
  /\ happened' = happened \cup (IF \E q \in Requests : pc[q] # "idle" THEN {"overlap"} ELSE {})
                           \cup (IF o = "mistaken" THEN {"mistake"} ELSE {})
  /\ Step(r, "idle", to)
  /\ op' = [op EXCEPT ![r] = o]
  /\ loaded' = [loaded EXCEPT ![r] = avatarKey]
  /\ todo' = [todo EXCEPT ![r] = Sizes]
  /\ UNCHANGED <<objects, avatarKey, isActive, locked>>

End(r) ==
  /\ pc' = [pc EXCEPT ![r] = "idle"] /\ op' = [op EXCEPT ![r] = "none"]
  /\ loaded' = [loaded EXCEPT ![r] = Nil] /\ newKey' = [newKey EXCEPT ![r] = Nil]
  /\ edge' = [edge EXCEPT ![r] = 0] /\ inPlace' = [inPlace EXCEPT ![r] = FALSE]
  /\ todo' = [todo EXCEPT ![r] = {}] /\ locked' = [locked EXCEPT ![r] = FALSE]

Rollback(r) == End(r) /\ UNCHANGED storeVars

\* thumbnail: shrinks to the size, never enlarges.
Thumbnail(e, s) == IF e < s THEN e ELSE s

-----------------------------------------------------------------------------
(* upload_avatar: store all sizes of a new key, then remove the old ones   *)

Upload(r, k, e) ==
  /\ source[k] = 0
  /\ source' = [source EXCEPT ![k] = e]
  /\ newKey' = [newKey EXCEPT ![r] = k]
  /\ edge' = [edge EXCEPT ![r] = e]
  /\ \E b \in BOOLEAN : inPlace' = [inPlace EXCEPT ![r] = b]
  /\ Begin(r, "upload", "put")

\* Mutation: an error of put_object is logged, like one of remove_object.
PutSwallowed(r) ==
  LET s == Min(todo[r])
      e == Thumbnail(edge[r], s) IN
  /\ pc[r] = "put" /\ todo[r] # {}
  /\ \E x \in {0, e} : objects' = [objects EXCEPT ![newKey[r]][s] = x]
  /\ edge' = [edge EXCEPT ![r] = IF inPlace[r] THEN e ELSE @]
  /\ todo' = [todo EXCEPT ![r] = @ \ {s}]
  /\ UNCHANGED <<avatarKey, isActive, source, happened, pc, op, loaded, newKey, inPlace,
                 locked>>

\* _resize_to_webp and put_object, from the smallest size to the largest.  An
\* image in another mode is converted to a copy before it is resized.
Put(r) ==
  LET s == Min(todo[r])
      e == Thumbnail(edge[r], s) IN
  /\ pc[r] = "put" /\ todo[r] # {}
  /\ objects' = [objects EXCEPT ![newKey[r]][s] = e]
  /\ edge' = [edge EXCEPT ![r] = IF inPlace[r] THEN e ELSE @]
  /\ todo' = [todo EXCEPT ![r] = @ \ {s}]
  /\ UNCHANGED <<avatarKey, isActive, source, happened, pc, op, loaded, newKey, inPlace,
                 locked>>

\* Mutation: the avatar that is replaced keeps its objects.
StoredKeepsOld(r) ==
  /\ todo[r] = {}
  /\ Step(r, "put", "flush")
  /\ todo' = [todo EXCEPT ![r] = Sizes]
  /\ UNCHANGED <<storeVars, happened, localVars, locked>>

Stored(r) ==
  /\ todo[r] = {}
  /\ Step(r, "put", IF loaded[r] = Nil THEN "flush" ELSE "remove")
  /\ todo' = [todo EXCEPT ![r] = Sizes]
  /\ UNCHANGED <<storeVars, happened, localVars, locked>>

-----------------------------------------------------------------------------
(* delete_avatar, delete_account                                           *)

DeleteAvatar(r) ==
  /\ avatarKey # Nil
  /\ Begin(r, "delete_avatar", "remove")
  /\ UNCHANGED <<source, newKey, edge, inPlace>>

\* The objects are removed before the password is looked at.
DeleteAccount(r) ==
  /\ \E o \in {"delete_account", "mistaken"} :
       Begin(r, o, IF avatarKey = Nil THEN "flush" ELSE "remove")
  /\ UNCHANGED <<source, newKey, edge, inPlace>>

\* An S3Error is logged and the next size is tried.
Remove(r) ==
  LET s == Min(todo[r]) IN
  /\ pc[r] = "remove" /\ todo[r] # {}
  /\ \/ objects' = [objects EXCEPT ![loaded[r]][s] = 0] /\ UNCHANGED happened
     \/ happened' = happened \cup {"fault"} /\ UNCHANGED objects
  /\ todo' = [todo EXCEPT ![r] = @ \ {s}]
  /\ UNCHANGED <<avatarKey, isActive, source, pc, localVars, locked>>

Removed(r) ==
  /\ todo[r] = {}
  /\ Step(r, "remove", "flush")
  /\ UNCHANGED <<storeVars, happened, localVars, todo, locked>>

-----------------------------------------------------------------------------
(* update_avatar, clear_avatar, deactivate_account; response and commit    *)

\* delete_account verifies the password: a 401, and get_db rolls back.
Refuse(r) ==
  /\ pc[r] = "flush" /\ op[r] = "mistaken"
  /\ Rollback(r)
  /\ UNCHANGED happened

\* The UPDATE waits for the lock of the row.  A row that has been anonymised
\* in the meantime does not make a UserPublic: a 500.
Flush(r) ==
  /\ pc[r] = "flush" /\ op[r] # "mistaken"
  /\ \A q \in Requests \ {r} : ~locked[q]
  /\ \/ /\ isActive \/ op[r] = "delete_account"
        /\ pc' = [pc EXCEPT ![r] = "respond"]
        /\ locked' = [locked EXCEPT ![r] = TRUE]
        /\ UNCHANGED <<storeVars, happened, localVars, todo>>
     \/ /\ ~isActive /\ op[r] # "delete_account"
        /\ Rollback(r)
        /\ UNCHANGED happened

Respond(r) ==
  /\ Step(r, "respond", "commit")
  /\ UNCHANGED <<storeVars, happened, localVars, todo, locked>>

\* Mutation: upload_avatar takes (url, key) for (key, url).
CommitSwapped(r) ==
  /\ pc[r] = "commit"
  /\ avatarKey' = CASE op[r] = "upload" -> <<newKey[r], Max(Sizes)>>
                    [] op[r] = "delete_account" /\ loaded[r] = Nil -> avatarKey
                    [] OTHER -> Nil
  /\ isActive' = (isActive /\ op[r] # "delete_account")
  /\ End(r)
  /\ UNCHANGED <<objects, source, happened>>

\* Mutation: deactivate_account leaves the columns of the avatar alone.
CommitKeepsKey(r) ==
  /\ pc[r] = "commit"
  /\ avatarKey' = CASE op[r] = "upload" -> newKey[r]
                    [] op[r] = "delete_account" -> avatarKey
                    [] OTHER -> Nil
  /\ isActive' = (isActive /\ op[r] # "delete_account")
  /\ End(r)
  /\ UNCHANGED <<objects, source, happened>>

\* Mutation: clear_avatar forgets the key.
CommitClearForgotten(r) ==
  /\ pc[r] = "commit"
  /\ avatarKey' = CASE op[r] = "upload" -> newKey[r]
                    [] op[r] = "delete_avatar" -> avatarKey
                    [] op[r] = "delete_account" /\ loaded[r] = Nil -> avatarKey
                    [] OTHER -> Nil
  /\ isActive' = (isActive /\ op[r] # "delete_account")
  /\ End(r)
  /\ UNCHANGED <<objects, source, happened>>

\* delete_account writes avatar_key only if it had loaded one.
Commit(r) ==
  /\ pc[r] = "commit"
  /\ avatarKey' = CASE op[r] = "upload" -> newKey[r]
                    [] op[r] = "delete_account" /\ loaded[r] = Nil -> avatarKey
                    [] OTHER -> Nil
  /\ isActive' = (isActive /\ op[r] # "delete_account")
  /\ End(r)
  /\ UNCHANGED <<objects, source, happened>>

Fail(r) ==
  /\ pc[r] # "idle"
  /\ happened' = happened \cup {"fault"}
  /\ Rollback(r)

-----------------------------------------------------------------------------
Next == \E r \in Requests :
  \/ \E k \in Keys, e \in Edges : Upload(r, k, e)
  \/ Put(r) \/ Stored(r) \/ DeleteAvatar(r) \/ DeleteAccount(r)
  \/ Remove(r) \/ Removed(r) \/ Refuse(r) \/ Flush(r) \/ Respond(r) \/ Commit(r) \/ Fail(r)

Spec == Init /\ [][Next]_vars
-----------------------------------------------------------------------------
(* Properties                                                              *)

Complete(k) == \A s \in Sizes : objects[k][s] # 0

\* The row never gets the key of an avatar that is not there in all sizes: an
\* upload that fails half way leaves the old key, or none.  This holds whatever
\* overlaps and whatever fails.
CommittedIsStored ==
  [][avatarKey' # avatarKey /\ avatarKey' # Nil => Complete(avatarKey')]_vars

\* While nothing fails, the avatar an open account shows can be fetched, unless
\* a request that is about to replace or clear it is still in flight: each
\* request removes the objects of a key it read before, and whatever overlaps,
\* the row has moved on when it is done.
ShownIsComplete ==
  happened \subseteq {"overlap"} /\ isActive /\ avatarKey # Nil =>
    Complete(avatarKey) \/ \E r \in Requests : loaded[r] = avatarKey

Quiet == \A r \in Requests : pc[r] = "idle"

\* While nothing fails and nothing overlaps, MinIO holds between requests no
\* object but those of the current avatar: replacing, clearing and closing
\* leave nothing behind.
NoOrphans ==
  happened \subseteq {"mistake"} /\ Quiet =>
    \A k \in Keys \ {avatarKey}, s \in Sizes : objects[k][s] = 0

\* While nothing overlaps a closed account names no avatar, whatever fails.
ClosedHasNoAvatar == "overlap" \notin happened /\ ~isActive => avatarKey = Nil

\* {key}_{s}.webp is the uploaded image scaled to s pixels.
EachSizeFits ==
  \A k \in Keys, s \in Sizes :
    objects[k][s] # 0 => objects[k][s] = Thumbnail(source[k], s)
=============================================================================

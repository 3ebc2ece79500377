------------------------------- MODULE Access -------------------------------
(***************************************************************************)
(* Who may act in one organization: its memberships, and the API keys that *)
(* owners and admins create, rotate and revoke.                            *)
(*                                                                         *)
(* A request of the dashboard is one transaction at READ COMMITTED.  It    *)
(* locks the membership of its actor, then the rows it is about, and       *)
(* writes at the end; nothing it does is seen before.  Ingestion extends   *)
(* this module with the requests that present such a key.                  *)
(***************************************************************************)
EXTENDS Integers, FiniteSets

CONSTANTS
  Users,        \* users that may be members of the organization
  Keys,         \* API keys
  Requests,     \* requests of the dashboard that may run at the same time
  Calls,        \* requests of API clients that may run at the same time
  None,         \* no role, key, time or request
  Settings,     \* what there is to begin with, and what is asked for
  MaxLag,       \* age of a clock value when it is used for the last time
  Horizon       \* bound: the last moment of every clock

Roles == {"owner", "admin", "developer", "analyst", "support"}

\* user and as are the member and the role, key the API key a request is about.
Ask ==
  {ask \in [op: {"add", "update", "remove", "create", "rotate", "revoke", "list"}, actor: Users,
            user: Users \union {None}, as: Roles \union {None}, key: Keys \union {None},
            expires: Nat \union {None}] :
     /\ ask.op \in {"add", "update", "remove"} => ask.user \in Users
     /\ ask.op \in {"add", "update"} => ask.as \in Roles
     /\ ask.op \in {"rotate", "revoke"} => ask.key \in Keys}

\* The key that a rotation has replaced is from; end says how a key was revoked.
Key ==
  [expires: Nat \union {None}, end: {"revoked", "rotated", None}, from: Keys \union {None}]

\* The keys that have replaced a key.
Replacements(keys, k) == {c \in Keys : keys[c] # None /\ keys[c].from = k}

\* In the beginning there is an owner or nobody, and a key was replaced when it was rotated.
ASSUME ConstantsAssumption ==
  /\ None \notin Users \union Keys \union Roles \union Nat \union Key \union {"revoked", "rotated"}
  /\ Users \intersect Keys = {}
  /\ \A s \in Settings :
       /\ s.asks \subseteq Ask
       /\ s.role \in [Users -> Roles \union {None}]
       /\ s.key \in [Keys -> Key \union {None}]
       /\ (\E u \in Users : s.role[u] = "owner") \/ \A u \in Users : s.role[u] = None
       /\ \A k \in Keys : IF s.key[k] # None /\ s.key[k].end = "rotated"
                         THEN \E c \in Keys : Replacements(s.key, k) = {c}
                         ELSE Replacements(s.key, k) = {}
  /\ MaxLag \in Nat /\ Horizon \in Nat

VARIABLES
  now,       \* the clock
  setting,   \* one of Settings, for good
  role,      \* the memberships
  key,       \* the API keys
  request,   \* the requests of the dashboard that are at work
  referring  \* by key: the uncommitted calls that inserted rows of that key

accessVars == <<now, setting, role, key, request, referring>>

-----------------------------------------------------------------------------
(* State *)

\* at is the clock when the service was called, found the role read under the lock of the
\* actor, pending and owners the rows of owners not yet and already read.
Request ==
  [ask: Ask, at: Nat, attempt: 1..3, found: Roles \union {None},
   locks: SUBSET (Users \union Keys), pending: SUBSET Users, owners: SUBSET Users,
   phase: {"actor", "target", "owners", "locking", "key", "insert", "write"}]

ASSUME NoRequestAssumption == None \notin Request

AccessTypeOK ==
  /\ now \in Nat
  /\ setting \in Settings
  /\ role \in [Users -> Roles \union {None}]
  /\ key \in [Keys -> Key \union {None}]
  /\ request \in [Requests -> Request \union {None}]
  /\ referring \in [Keys -> SUBSET Calls]

AccessInit ==
  /\ now = 0
  /\ setting \in Settings
  /\ role = setting.role /\ key = setting.key
  /\ request = [r \in Requests |-> None]
  /\ referring = [k \in Keys |-> {}]

Owners == {u \in Users : role[u] = "owner"}

Open == {r \in Requests : request[r] # None}

HeldBy(row) == {r \in Open : row \in request[r].locks}

\* The row of a user who is a member.
Row(u) == IF role[u] = None THEN {} ELSE {u}

\* Mutant: FOR NO KEY UPDATE, for which an insert that refers to the row does not wait.
FreeOfRequests(row, r) == HeldBy(row) \subseteq {r}

\* FOR UPDATE: no other transaction has the row, or refers to it.
Free(row, r) ==
  /\ HeldBy(row) \subseteq {r}
  /\ row \in Keys => referring[row] = {}

Live(k, at) ==
  /\ key[k] # None /\ key[k].end = None
  /\ key[k].expires # None => key[k].expires > at

-----------------------------------------------------------------------------
(* What a role may do *)

Manageable == {"developer", "analyst", "support"}

MayAssign(by, as) == by = "owner" \/ (by = "admin" /\ as \in Manageable)

MayChange(by, current, as) ==
  by = "owner" \/ (by = "admin" /\ {current, as} \subseteq Manageable)

MayRemove(by, current) == by = "owner" \/ (by = "admin" /\ current \in Manageable)

MayManageKeys(by) == by \in {"owner", "admin"}

-----------------------------------------------------------------------------
(* Requests of the dashboard *)

CreateOrganization(u) ==
  /\ \A m \in Users : role[m] = None
  /\ role' = [role EXCEPT ![u] = "owner"]
  /\ UNCHANGED <<now, setting, key, request, referring>>

Makes(ask) == ask.op \in {"create", "rotate"}

\* Bound: keys that have not been generated yet.
KeysLeft ==
  Cardinality({r \in Open : Makes(request[r].ask)}) < Cardinality({k \in Keys : key[k] = None})

\* The tenant of a request is resolved before its transaction begins, and so is the time
\* at which a key is to expire.
Receive(r, ask) ==
  /\ r \notin Open /\ ask \in setting.asks
  /\ role[ask.actor] # None
  /\ Makes(ask) => KeysLeft
  /\ ask.op = "create" /\ ask.expires # None => ask.expires > now
  /\ request' = [request EXCEPT
       ![r] = [ask |-> ask, at |-> now, attempt |-> 1, found |-> None, locks |-> {},
               pending |-> {}, owners |-> {}, phase |-> "actor"]]
  /\ UNCHANGED <<now, setting, role, key, referring>>

\* A refusal, an answer, or a lost connection: the locks end with the transaction.
Finish(r) == request' = [request EXCEPT ![r] = None]

\* FOR UPDATE on a row.
Take(r, row, phase) ==
  /\ Free(row, r)
  /\ request' = [request EXCEPT ![r].locks = @ \union {row}, ![r].phase = phase]

\* What follows the look at the role: the list of keys ends there, as a refusal does.
AfterActor(ask, by) ==
  CASE ask.op = "add" /\ MayAssign(by, ask.as) -> "insert"
    [] ask.op \in {"update", "remove"} -> "target"
    [] ask.op = "create" /\ MayManageKeys(by) -> "insert"
    [] ask.op \in {"rotate", "revoke"} /\ MayManageKeys(by) -> "key"
    [] OTHER -> "end"

\* Mutant: the membership of the actor is read without a lock.
LockActorNot(r) ==
  LET by == role[request[r].ask.actor]
      next == AfterActor(request[r].ask, by)
  IN /\ request[r].phase = "actor"
     /\ IF next = "end" THEN Finish(r)
        ELSE request' = [request EXCEPT ![r].phase = next, ![r].found = by]
     /\ UNCHANGED <<now, setting, role, key, referring>>

\* The first statement of every request.
LockActor(r) ==
  LET actor == request[r].ask.actor
      next == AfterActor(request[r].ask, role[actor])
  IN /\ request[r].phase = "actor"
     /\ Free(actor, r)
     /\ \/ next = "end" /\ Finish(r)
        \/ /\ next # "end"
           /\ request' = [request EXCEPT ![r].phase = next, ![r].found = role[actor],
                                         ![r].locks = Row(actor)]
     /\ UNCHANGED <<now, setting, role, key, referring>>

\* The member who is changed or removed.
LockTarget(r) ==
  LET ask == request[r].ask
      current == role[ask.user]
      allowed == IF ask.op = "remove" THEN MayRemove(request[r].found, current)
                 ELSE MayChange(request[r].found, current, ask.as)
      counts == current = "owner" /\ (ask.op = "remove" \/ ask.as # "owner")
  IN /\ request[r].phase = "target"
     /\ Free(ask.user, r)
     /\ \/ /\ current # None /\ allowed
           /\ Take(r, ask.user, IF counts THEN "owners" ELSE "write")
        \/ (current = None \/ ~allowed) /\ Finish(r)
     /\ UNCHANGED <<now, setting, role, key, referring>>

\* Mutant: the owners are counted without FOR UPDATE.
ReadOwnersUnlocked(r) ==
  /\ request[r].phase = "owners"
  /\ \/ Cardinality(Owners) # 1 /\ request' = [request EXCEPT ![r].phase = "write"]
     \/ Cardinality(Owners) = 1 /\ Finish(r)
  /\ UNCHANGED <<now, setting, role, key, referring>>

\* SELECT ... FOR UPDATE of the owners finds rows first, and then locks one after another.
ReadOwners(r) ==
  /\ request[r].phase = "owners"
  /\ request' = [request EXCEPT ![r].pending = Owners, ![r].phase = "locking"]
  /\ UNCHANGED <<now, setting, role, key, referring>>

\* A row that has changed while the lock was waited for is looked at again.
LockOwner(r, u) ==
  /\ request[r].phase = "locking" /\ u \in request[r].pending
  /\ Free(u, r)
  /\ request' = [request EXCEPT
       ![r].pending = @ \ {u},
       ![r].locks = @ \union Row(u),
       ![r].owners = IF u \in Owners THEN @ \union {u} ELSE @]
  /\ UNCHANGED <<now, setting, role, key, referring>>

CountOwners(r) ==
  /\ request[r].phase = "locking" /\ request[r].pending = {}
  /\ \/ /\ Cardinality(request[r].owners) # 1
        /\ request' = [request EXCEPT ![r].phase = "write"]
     \/ Cardinality(request[r].owners) = 1 /\ Finish(r)
  /\ UNCHANGED <<now, setting, role, key, referring>>

\* Mutant: the key is read without a lock.
LockKeyNot(r) ==
  LET k == request[r].ask.key
      goesOn == IF request[r].ask.op = "rotate" THEN Live(k, request[r].at)
                ELSE key[k] # None /\ key[k].end = None
  IN /\ request[r].phase = "key"
     /\ \/ goesOn /\ request' = [request EXCEPT ![r].phase = "write"]
        \/ ~goesOn /\ Finish(r)
     /\ UNCHANGED <<now, setting, role, key, referring>>

\* The key that is rotated or revoked.  One that is gone or revoked stays as it is.
LockKey(r) ==
  LET k == request[r].ask.key
      goesOn == IF request[r].ask.op = "rotate" THEN Live(k, request[r].at)
                ELSE key[k] # None /\ key[k].end = None
  IN /\ request[r].phase = "key"
     /\ Free(k, r)
     /\ \/ goesOn /\ Take(r, k, "write")
        \/ ~goesOn /\ Finish(r)
     /\ UNCHANGED <<now, setting, role, key, referring>>

\* Mutant: prefixes are generated without end.
CollideForever(r) ==
  /\ \/ request[r].phase = "insert" /\ request[r].ask.op = "create"
     \/ request[r].phase = "write" /\ request[r].ask.op = "rotate"
  /\ request' = [request EXCEPT ![r].attempt = @ + 1, ![r].phase = "actor",
                                ![r].found = None, ![r].locks = {}]
  /\ UNCHANGED <<now, setting, role, key, referring>>

\* The prefix of a new key is taken: another is generated, in another transaction.
Collide(r) ==
  /\ \/ request[r].phase = "insert" /\ request[r].ask.op = "create"
     \/ request[r].phase = "write" /\ request[r].ask.op = "rotate"
  /\ \/ /\ request[r].attempt < 3
        /\ request' = [request EXCEPT ![r].attempt = @ + 1, ![r].phase = "actor",
                                      ![r].found = None, ![r].locks = {}]
     \/ request[r].attempt = 3 /\ Finish(r)
  /\ UNCHANGED <<now, setting, role, key, referring>>

-----------------------------------------------------------------------------
(* Writes *)

\* A user who is a member already stays as they are.
WriteMember(ask) ==
  /\ \/ ask.op = "add" /\ role' = IF role[ask.user] = None
                                  THEN [role EXCEPT ![ask.user] = ask.as] ELSE role
     \/ ask.op = "update" /\ role' = [role EXCEPT ![ask.user] = ask.as]
     \/ ask.op = "remove" /\ role' = [role EXCEPT ![ask.user] = None]
  /\ UNCHANGED key

NewKey(expires, from) == [expires |-> expires, end |-> None, from |-> from]

CreateKey(ask) ==
  /\ ask.op = "create"
  /\ \E new \in Keys : /\ key[new] = None
                       /\ key' = [key EXCEPT ![new] = NewKey(ask.expires, None)]

\* A replacement has the expiry of the key it replaces.
RotateKey(ask) ==
  /\ ask.op = "rotate"
  /\ \E new \in Keys : /\ key[new] = None
                       /\ key' = [key EXCEPT ![ask.key].end = "rotated",
                                             ![new] = NewKey(key[ask.key].expires, ask.key)]

RevokeKey(ask) == ask.op = "revoke" /\ key' = [key EXCEPT ![ask.key].end = "revoked"]

WriteKey(ask) ==
  /\ CreateKey(ask) \/ RotateKey(ask) \/ RevokeKey(ask)
  /\ UNCHANGED role

\* The writes, the audit row and the commit.
Write(r) ==
  /\ request[r].phase \in {"insert", "write"}
  /\ WriteMember(request[r].ask) \/ WriteKey(request[r].ask)
  /\ Finish(r)
  /\ UNCHANGED <<now, setting, referring>>

\* A deadlock, a lost connection or a process that stops: the transaction is rolled back.
Abort(r) ==
  /\ Finish(r)
  /\ UNCHANGED <<now, setting, role, key, referring>>

Advance(r) ==
  /\ r \in Open
  /\ \/ LockActor(r) \/ LockTarget(r) \/ ReadOwners(r) \/ \E u \in Users : LockOwner(r, u)
     \/ CountOwners(r) \/ LockKey(r) \/ Write(r)

AccessNext ==
  \/ \E u \in Users : CreateOrganization(u)
  \/ \E r \in Requests : \E ask \in setting.asks : Receive(r, ask)
  \/ \E r \in Requests : Advance(r)
  \/ \E r \in Open : Collide(r) \/ Abort(r)

-----------------------------------------------------------------------------
(* Deadlocks *)

Awaited(r) ==
  CASE request[r].phase = "actor" -> {request[r].ask.actor}
    [] request[r].phase = "target" -> {request[r].ask.user}
    [] request[r].phase = "locking" -> request[r].pending
    [] request[r].phase = "key" -> {request[r].ask.key}
    [] OTHER -> {}

\* Requests that wait for each other: the database ends one of them.
Deadlocked(r) ==
  \E S \in SUBSET Open :
    /\ r \in S
    /\ \A q \in S :
         /\ Awaited(q) # {}
         /\ \A row \in Awaited(q) : /\ HeldBy(row) \ {q} # {}
                                    /\ HeldBy(row) \ {q} \subseteq S

-----------------------------------------------------------------------------
(* Properties *)

\* Once there is an organization it has an owner, in whatever order owners remove and
\* demote each other and themselves.
OwnerRemains == Owners # {} \/ \A u \in Users : role[u] = None

\* A membership or a key changes only in a request of a member whose role allows that
\* change at this moment, although the role was read some statements before.
AuthorityHolds ==
  [][/\ \A u \in Users : role'[u] # role[u] /\ Owners # {} =>
          \E r \in Open :
            /\ request'[r] = None /\ request[r].ask.user = u
            /\ LET by == role[request[r].ask.actor]
               IN IF role[u] = None THEN MayAssign(by, role'[u])
                  ELSE IF role'[u] = None THEN MayRemove(by, role[u])
                  ELSE MayChange(by, role[u], role'[u])
     /\ key' # key => \E r \in Open : /\ request'[r] = None
                                     /\ MayManageKeys(role[request[r].ask.actor])]_<<role, key>>

\* A rotated key has exactly one replacement, and no other key has one: not after two
\* rotations, or a rotation and a revocation, of one key at once.
RotationReplaces ==
  \A k \in Keys :
    Cardinality(Replacements(key, k)) =
      (IF key[k] # None /\ key[k].end = "rotated" THEN 1 ELSE 0)
=============================================================================

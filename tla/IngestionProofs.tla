--------------------------- MODULE IngestionProofs ---------------------------
(***************************************************************************)
(* Theorems about Ingestion and the part of it that is Access: types, the  *)
(* owner who remains, the replacement of keys, the authority of who makes  *)
(* a change, the rate limit, and the truth of the answers.                 *)
(*                                                                         *)
(* The first part is about the steps of Access: what a request of the      *)
(* dashboard knows of the rows that it has locked, and that nobody else    *)
(* changes those.  The second is about the calls that present a key.       *)
(***************************************************************************)
EXTENDS Ingestion, FiniteSetTheorems, TLAPS

-----------------------------------------------------------------------------
(* What a request knows *)

\* The role that was found allows what is asked for, as far as no other row decides it.
Entitles(by, ask) ==
  /\ ask.op = "add" => MayAssign(by, ask.as)
  /\ ask.op \in {"create", "rotate", "revoke"} => MayManageKeys(by)

\* The same for the member who is changed or removed.
MayDo(by, ask) ==
  /\ ask.op = "remove" => MayRemove(by, role[ask.user])
  /\ ask.op = "update" => MayChange(by, role[ask.user], ask.as)

\* The request takes the role of an owner away.
Dethrones(ask) == role[ask.user] = "owner" /\ (ask.op = "remove" \/ ask.as # "owner")

\* What the request q has found, and may rely on as long as it holds its locks.
Knows(q) ==
  /\ q.phase # "actor" /\ q.found # None =>
       q.ask.actor \in q.locks /\ role[q.ask.actor] = q.found
  /\ q.phase \notin {"actor", "target"} => q.found # None
  /\ q.phase # "actor" => Entitles(q.found, q.ask) /\ q.ask.op # "list"
  /\ q.phase = "insert" => q.ask.op \in {"add", "create"}
  /\ q.phase \in {"target", "owners", "locking"} => q.ask.op \in {"update", "remove"}
  /\ q.phase = "key" => q.ask.op \in {"rotate", "revoke"}
  /\ q.phase = "write" => q.ask.op \in {"update", "remove", "rotate", "revoke"}
  /\ q.phase \in {"owners", "locking", "write"} /\ q.ask.op \in {"update", "remove"} =>
       q.ask.user \in q.locks /\ MayDo(q.found, q.ask)
  /\ q.phase \in {"owners", "locking"} => role[q.ask.user] = "owner"
  /\ q.owners # {} => q.phase \in {"locking", "write"} /\ q.ask.op \in {"update", "remove"}
  /\ q.phase = "locking" =>
       /\ q.ask.user \in q.pending \union q.owners
       /\ \A u \in q.owners : u \in q.locks /\ role[u] = "owner"
  /\ q.phase = "write" /\ q.ask.op \in {"update", "remove"} /\ Dethrones(q.ask) =>
       \E u \in q.locks \intersect Users : u # q.ask.user /\ role[u] = "owner"
  /\ q.phase = "write" /\ q.ask.op \in {"rotate", "revoke"} =>
       /\ q.ask.key \in q.locks
       /\ key[q.ask.key] # None /\ key[q.ask.key].end = None

\* Row locks exclude, and a row that is locked exists.
LocksExclude ==
  /\ \A r, o \in Open : r # o => request[r].locks \intersect request[o].locks = {}
  /\ \A r \in Open : \A u \in request[r].locks \intersect Users : role[u] # None

\* A rotated key has one replacement and no other key has any.
OneReplacement ==
  \A k \in Keys : IF key[k] # None /\ key[k].end = "rotated"
                  THEN \E c \in Keys : Replacements(key, k) = {c}
                  ELSE Replacements(key, k) = {}

AccessInv ==
  /\ AccessTypeOK /\ LocksExclude /\ OwnerRemains /\ OneReplacement
  /\ \A r \in Open : Knows(request[r])

-----------------------------------------------------------------------------

LEMMA AccessInitInv ==
  ASSUME AccessInit
  PROVE  AccessInv
  <1>1. Open = {}
    BY DEF AccessInit, Open
  <1>2. AccessTypeOK
    BY ConstantsAssumption DEF AccessInit, AccessTypeOK
  <1>3. OwnerRemains /\ OneReplacement
    BY ConstantsAssumption DEF AccessInit, OwnerRemains, OneReplacement, Owners
  <1>. QED
    BY <1>1, <1>2, <1>3 DEF AccessInv, LocksExclude

\* The parts that other modules change do not matter to requests.
LEMMA AccessUnchanged ==
  ASSUME AccessInv, now' \in Nat, referring' \in [Keys -> SUBSET Calls],
         UNCHANGED <<setting, role, key, request>>
  PROVE  AccessInv'
  <1>1. AccessTypeOK'
    BY DEF AccessInv, AccessTypeOK
  <1>2. LocksExclude' /\ OwnerRemains' /\ OneReplacement'
    BY DEF AccessInv, LocksExclude, OwnerRemains, OneReplacement, Owners, Open
  <1>3. \A r \in Open' : Knows(request[r])'
    <2> SUFFICES ASSUME NEW r \in Open
                 PROVE  Knows(request[r])'
      BY DEF Open
    <2>1. Knows(request[r])
      BY DEF AccessInv
    <2>. QED
      BY <2>1 DEF Knows, Entitles, MayDo, Dethrones
  <1>. QED
    BY <1>1, <1>2, <1>3 DEF AccessInv

\* A request goes on: it locks rows that are free, and knows what it has found.
LEMMA GoesOn ==
  ASSUME AccessInv, NEW r \in Requests, NEW q \in Request,
         request' = [request EXCEPT ![r] = q],
         UNCHANGED <<now, setting, role, key, referring>>,
         \A row \in q.locks : \/ r \in Open /\ row \in request[r].locks
                              \/ HeldBy(row) \subseteq {r} /\ (row \in Users => role[row] # None),
         Knows(q)
  PROVE  AccessInv'
  <1>1. AccessTypeOK'
    BY DEF AccessInv, AccessTypeOK
  <1>2. OwnerRemains' /\ OneReplacement'
    BY DEF AccessInv, OwnerRemains, OneReplacement, Owners
  <1>3. request'[r] = q /\ \A o \in Requests \ {r} : request'[o] = request[o]
    BY DEF AccessInv, AccessTypeOK
  <1>4. Open' = Open \union {r}
    BY <1>3, NoRequestAssumption DEF Open
  <1>5. ASSUME NEW o \in Open, o # r
        PROVE  q.locks \intersect request[o].locks = {}
    <2> SUFFICES ASSUME NEW row \in q.locks, row \in request[o].locks
                 PROVE  FALSE
      OBVIOUS
    <2>1. o \in HeldBy(row)
      BY DEF HeldBy
    <2>2. r \in Open /\ row \in request[r].locks
      BY <1>5, <2>1
    <2>. QED
      BY <1>5, <2>2 DEF AccessInv, LocksExclude
  <1>6. LocksExclude'
    BY <1>3, <1>4, <1>5 DEF AccessInv, LocksExclude, Open
  <1>7. ASSUME NEW o \in Open'
        PROVE  Knows(request[o])'
    <2>1. Knows(request'[o])
      BY <1>3, <1>4, <1>7 DEF AccessInv, Open
    <2>. QED
      BY <2>1 DEF Knows, Entitles, MayDo, Dethrones
  <1>. QED
    BY <1>1, <1>2, <1>6, <1>7 DEF AccessInv

\* A request ends without a write.
LEMMA Ends ==
  ASSUME AccessInv, NEW r \in Requests, Finish(r),
         UNCHANGED <<now, setting, role, key, referring>>
  PROVE  AccessInv'
  <1>1. AccessTypeOK'
    BY DEF AccessInv, AccessTypeOK, Finish
  <1>2. OwnerRemains' /\ OneReplacement'
    BY DEF AccessInv, OwnerRemains, OneReplacement, Owners
  <1>3. Open' = Open \ {r} /\ \A o \in Open \ {r} : request'[o] = request[o]
    BY DEF AccessInv, AccessTypeOK, Finish, Open
  <1>4. LocksExclude'
    BY <1>3 DEF AccessInv, LocksExclude
  <1>5. ASSUME NEW o \in Open'
        PROVE  Knows(request[o])'
    <2>1. Knows(request'[o])
      BY <1>3, <1>5 DEF AccessInv
    <2>. QED
      BY <2>1 DEF Knows, Entitles, MayDo, Dethrones
  <1>. QED
    BY <1>1, <1>2, <1>4, <1>5 DEF AccessInv

-----------------------------------------------------------------------------
(* Steps that read and lock *)

\* What is known of an open request and of the row of a member.
LEMMA RequestType ==
  ASSUME AccessInv, NEW r \in Open
  PROVE  /\ r \in Requests /\ request[r] \in Request /\ Knows(request[r])
         /\ request[r].ask \in Ask /\ request[r].ask.actor \in Users
         /\ \A row \in request[r].locks : row \in Users => role[row] # None
         /\ request[r].locks \subseteq Users \union Keys
  <1>1. r \in Requests /\ request[r] \in Request /\ Knows(request[r])
    BY DEF AccessInv, AccessTypeOK, Open
  <1>2. request[r].ask \in Ask /\ request[r].locks \subseteq Users \union Keys
    BY <1>1 DEF Request
  <1>3. request[r].ask.actor \in Users
    BY <1>2 DEF Ask
  <1>. QED
    BY <1>1, <1>2, <1>3 DEF AccessInv, LocksExclude

LEMMA ReceiveInv ==
  ASSUME AccessInv, NEW r \in Requests, NEW ask \in setting.asks, Receive(r, ask)
  PROVE  AccessInv'
  <1> DEFINE q == [ask |-> ask, at |-> now, attempt |-> 1, found |-> None, locks |-> {},
                   pending |-> {}, owners |-> {}, phase |-> "actor"]
  <1>1. ask \in Ask /\ now \in Nat
    BY ConstantsAssumption DEF AccessInv, AccessTypeOK
  <1>2. q \in Request
    BY <1>1 DEF Request
  <1>3. Knows(q)
    BY DEF Knows
  <1>4. request' = [request EXCEPT ![r] = q] /\ q.locks = {}
    BY DEF Receive
  <1>5. UNCHANGED <<now, setting, role, key, referring>>
    BY DEF Receive
  <1>. QED
    <2> HIDE DEF q
    <2>. QED BY <1>2, <1>3, <1>4, <1>5, GoesOn

LEMMA NoneIsNoRole ==
  None \notin Roles /\ None # "owner" /\ None # "admin" /\ None \notin Manageable
  <1>1. None \notin Roles
    BY ConstantsAssumption
  <1>. QED
    BY <1>1 DEF Roles, Manageable

LEMMA LockActorInv ==
  ASSUME AccessInv, NEW r \in Open, LockActor(r)
  PROVE  AccessInv'
  <1> DEFINE t == request[r]
             actor == t.ask.actor
             next == AfterActor(t.ask, role[actor])
             q == [t EXCEPT !.phase = next, !.found = role[actor], !.locks = Row(actor)]
  <1>1. /\ r \in Requests /\ t \in Request /\ actor \in Users /\ t.ask \in Ask
        /\ role[actor] \in Roles \union {None}
    BY RequestType DEF AccessInv, AccessTypeOK
  <1>2. UNCHANGED <<now, setting, role, key, referring>>
    BY DEF LockActor
  <1>3. CASE next = "end"
    BY <1>1, <1>2, <1>3, Ends DEF LockActor
  <1>4. CASE next # "end"
    <2>1. next \in {"insert", "target", "key"}
      BY <1>4 DEF AfterActor
    <2>2. q \in Request
      <3>1. Row(actor) \subseteq Users \union Keys
        BY <1>1 DEF Row
      <3>. QED
        <4> HIDE DEF next
        <4>. QED BY <1>1, <2>1, <3>1 DEF Request
    <2>3. /\ q.phase = next /\ q.found = role[actor] /\ q.locks = Row(actor)
          /\ q.ask = t.ask /\ q.owners = {}
      <3>1. t.owners = {}
        BY RequestType DEF LockActor, Knows
      <3>. QED
        BY <1>1, <3>1 DEF Request
    <2>4. Knows(q)
      <3>1. next = "insert" => t.ask.op \in {"add", "create"} /\ role[actor] # None
        BY NoneIsNoRole DEF AfterActor, MayAssign, MayManageKeys
      <3>2. next = "target" => t.ask.op \in {"update", "remove"}
        BY DEF AfterActor
      <3>3. next = "key" => t.ask.op \in {"rotate", "revoke"} /\ role[actor] # None
        BY NoneIsNoRole DEF AfterActor, MayManageKeys
      <3>4. Entitles(role[actor], t.ask) /\ t.ask.op # "list"
        BY <1>4 DEF Entitles, AfterActor
      <3>5. role[actor] # None => actor \in Row(actor)
        BY DEF Row
      <3>. QED
        <4> HIDE DEF q, next
        <4>. QED BY <2>1, <2>3, <3>1, <3>2, <3>3, <3>4, <3>5 DEF Knows
    <2>5. \A row \in q.locks : HeldBy(row) \subseteq {r} /\ (row \in Users => role[row] # None)
      BY <2>3 DEF LockActor, Free, Row
    <2>6. request' = [request EXCEPT ![r] = q]
      BY <1>4 DEF LockActor
    <2>. QED
      <3> HIDE DEF q
      <3>. QED BY <1>1, <1>2, <2>2, <2>4, <2>5, <2>6, GoesOn
  <1>. QED
    BY <1>3, <1>4

LEMMA LockTargetInv ==
  ASSUME AccessInv, NEW r \in Open, LockTarget(r)
  PROVE  AccessInv'
  <1> DEFINE t == request[r]
             ask == t.ask
             current == role[ask.user]
             allowed == IF ask.op = "remove" THEN MayRemove(t.found, current)
                        ELSE MayChange(t.found, current, ask.as)
             counts == current = "owner" /\ (ask.op = "remove" \/ ask.as # "owner")
             phase == IF counts THEN "owners" ELSE "write"
             q == [t EXCEPT !.locks = t.locks \union {ask.user}, !.phase = phase]
  <1>1. /\ r \in Requests /\ t \in Request /\ ask \in Ask /\ Knows(t) /\ t.phase = "target"
        /\ t.locks \subseteq Users \union Keys
    BY RequestType DEF LockTarget
  <1>2. ask.op \in {"update", "remove"} /\ ask.user \in Users
    BY <1>1 DEF Knows, Ask
  <1>3. UNCHANGED <<now, setting, role, key, referring>>
    BY DEF LockTarget
  <1>4. CASE current = None \/ ~allowed
    BY <1>1, <1>3, <1>4, Ends DEF LockTarget, Take
  <1>5. CASE current # None /\ allowed
    <2>1. q \in Request
      <3>1. t.locks \union {ask.user} \in SUBSET (Users \union Keys)
        BY <1>1, <1>2
      <3>2. phase \in {"owners", "write"}
        OBVIOUS
      <3>. QED
        <4> HIDE DEF phase
        <4>. QED BY <1>1, <3>1, <3>2 DEF Request
    <2>2. /\ q.phase = phase /\ q.locks = t.locks \union {ask.user} /\ q.ask = ask
          /\ q.found = t.found /\ q.owners = {}
      <3>1. t.owners = {}
        BY <1>1 DEF Knows
      <3>. QED
        BY <1>1, <3>1 DEF Request
    <2>3. MayDo(t.found, ask) /\ t.found # None
      BY <1>2, <1>5, NoneIsNoRole DEF MayDo, MayRemove, MayChange
    <2>4. Dethrones(ask) <=> counts
      BY DEF Dethrones
    <2>5. Knows(q)
      <3>1. /\ t.ask.actor \in t.locks /\ role[t.ask.actor] = t.found
            /\ Entitles(t.found, ask) /\ ask.op # "list"
        BY <1>1, <2>3 DEF Knows
      <3>2. phase = "owners" => current = "owner"
        OBVIOUS
      <3>3. phase \in {"owners", "write"} /\ (phase = "write" => ~counts)
        OBVIOUS
      <3>. QED
        <4> HIDE DEF q, phase, counts
        <4>. QED BY <1>2, <2>2, <2>3, <2>4, <3>1, <3>2, <3>3 DEF Knows
    <2>6. \A row \in q.locks : \/ row \in t.locks
                               \/ HeldBy(row) \subseteq {r} /\ (row \in Users => role[row] # None)
      BY <1>5, <2>2 DEF LockTarget, Free
    <2>7. request' = [request EXCEPT ![r] = q]
      BY <1>5 DEF LockTarget, Take
    <2>. QED
      <3> HIDE DEF q
      <3>. QED BY <1>1, <1>3, <2>1, <2>5, <2>6, <2>7, GoesOn
  <1>. QED
    BY <1>4, <1>5

LEMMA ReadOwnersInv ==
  ASSUME AccessInv, NEW r \in Open, ReadOwners(r)
  PROVE  AccessInv'
  <1> DEFINE t == request[r]
             q == [t EXCEPT !.pending = Owners, !.phase = "locking"]
  <1>1. r \in Requests /\ t \in Request /\ t.ask \in Ask /\ Knows(t) /\ t.phase = "owners"
    BY RequestType DEF ReadOwners
  <1>2. request' = [request EXCEPT ![r] = q] /\ UNCHANGED <<now, setting, role, key, referring>>
    BY DEF ReadOwners
  <1>3. q \in Request
    BY <1>1 DEF Request, Owners
  <1>4. /\ q.phase = "locking" /\ q.pending = Owners
        /\ q.ask = t.ask /\ q.found = t.found /\ q.locks = t.locks /\ q.owners = {}
    <2>1. t.owners = {}
      BY <1>1 DEF Knows
    <2>. QED
      BY <1>1, <2>1 DEF Request
  <1>5. Knows(q)
    <2> HIDE DEF q
    <2>1. t.ask.op \in {"update", "remove"} /\ t.ask.user \in Owners
      BY <1>1 DEF Knows, Owners, Ask
    <2>. QED
      BY <1>1, <1>4, <2>1 DEF Knows
  <1>. QED
    <2> HIDE DEF q
    <2>. QED BY <1>1, <1>2, <1>3, <1>4, <1>5, GoesOn

\* The members of owners were owners when they were locked, and so they still are.
LEMMA LockOwnerInv ==
  ASSUME AccessInv, NEW r \in Open, NEW u \in Users, LockOwner(r, u)
  PROVE  AccessInv'
  <1> DEFINE t == request[r]
             counted == IF u \in Owners THEN t.owners \union {u} ELSE t.owners
             q == [t EXCEPT !.pending = t.pending \ {u}, !.locks = t.locks \union Row(u),
                            !.owners = counted]
  <1>1. /\ r \in Requests /\ t \in Request /\ t.ask \in Ask /\ Knows(t) /\ t.phase = "locking"
        /\ Free(u, r) /\ t.ask.op \in {"update", "remove"}
    BY RequestType DEF LockOwner, Knows
  <1>2. request' = [request EXCEPT ![r] = q] /\ UNCHANGED <<now, setting, role, key, referring>>
    BY DEF LockOwner
  <1>3. q \in Request
    <2>1. Row(u) \subseteq Users \union Keys /\ counted \subseteq Users
      BY <1>1 DEF Row, Request
    <2>. QED
      <3> HIDE DEF counted
      <3>. QED BY <1>1, <2>1 DEF Request
  <1>4. /\ q.phase = "locking" /\ q.pending = t.pending \ {u} /\ q.owners = counted
        /\ q.ask = t.ask /\ q.found = t.found /\ q.locks = t.locks \union Row(u)
    BY <1>1 DEF Request
  <1>5. /\ \A o \in counted : o \in t.locks \union Row(u) /\ role[o] = "owner"
        /\ t.ask.user \in (t.pending \ {u}) \union counted
    BY <1>1, NoneIsNoRole DEF Knows, Owners, Row
  <1>6. Knows(q)
    <2> HIDE DEF q, counted
    <2>. QED BY <1>1, <1>4, <1>5 DEF Knows
  <1>7. \A row \in q.locks : \/ row \in t.locks
                             \/ HeldBy(row) \subseteq {r} /\ (row \in Users => role[row] # None)
    BY <1>1, <1>4 DEF Row, Free
  <1>. QED
    <2> HIDE DEF q
    <2>. QED BY <1>1, <1>2, <1>3, <1>6, <1>7, GoesOn

\* Who is not the only owner leaves one behind, whose row stays locked.
LEMMA CountOwnersInv ==
  ASSUME AccessInv, NEW r \in Open, CountOwners(r)
  PROVE  AccessInv'
  <1> DEFINE t == request[r]
             q == [t EXCEPT !.phase = "write"]
  <1>1. /\ r \in Requests /\ t \in Request /\ t.ask \in Ask /\ Knows(t) /\ t.phase = "locking"
        /\ t.ask.op \in {"update", "remove"} /\ t.pending = {}
    BY RequestType DEF CountOwners, Knows
  <1>2. UNCHANGED <<now, setting, role, key, referring>>
    BY DEF CountOwners
  <1>3. CASE Cardinality(t.owners) # 1
    <2>1. q \in Request
      BY <1>1 DEF Request
    <2>2. /\ q.phase = "write" /\ q.pending = {} /\ q.owners = t.owners
          /\ q.ask = t.ask /\ q.found = t.found /\ q.locks = t.locks
      BY <1>1 DEF Request
    <2>3. t.ask.user \in t.owners /\ t.owners \subseteq Users
      BY <1>1 DEF Knows, Request
    <2>4. PICK u \in t.owners : u # t.ask.user
      <3>1. t.owners # {t.ask.user}
        BY <1>3, FS_Singleton
      <3>. QED
        BY <2>3, <3>1
    <2>5. u \in t.locks \intersect Users /\ role[u] = "owner"
      BY <1>1, <2>3 DEF Knows
    <2>6. Knows(q)
      <3> HIDE DEF q
      <3>. QED BY <1>1, <2>2, <2>4, <2>5 DEF Knows
    <2>7. request' = [request EXCEPT ![r] = q]
      BY <1>3 DEF CountOwners
    <2>. QED
      <3> HIDE DEF q
      <3>. QED BY <1>1, <1>2, <2>1, <2>2, <2>6, <2>7, GoesOn
  <1>4. CASE Cardinality(t.owners) = 1
    BY <1>1, <1>2, <1>4, Ends DEF CountOwners
  <1>. QED
    BY <1>3, <1>4

LEMMA LockKeyInv ==
  ASSUME AccessInv, NEW r \in Open, LockKey(r)
  PROVE  AccessInv'
  <1> DEFINE t == request[r]
             k == t.ask.key
             goesOn == IF t.ask.op = "rotate" THEN Live(k, t.at)
                       ELSE key[k] # None /\ key[k].end = None
             q == [t EXCEPT !.locks = t.locks \union {k}, !.phase = "write"]
  <1>1. /\ r \in Requests /\ t \in Request /\ t.ask \in Ask /\ Knows(t) /\ t.phase = "key"
        /\ t.ask.op \in {"rotate", "revoke"} /\ t.locks \subseteq Users \union Keys
    BY RequestType DEF LockKey, Knows
  <1>2. UNCHANGED <<now, setting, role, key, referring>>
    BY DEF LockKey
  <1>3. k \in Keys /\ k \notin Users
    BY <1>1, ConstantsAssumption DEF Ask
  <1>4. CASE ~goesOn
    BY <1>1, <1>2, <1>4, Ends DEF LockKey, Take
  <1>5. CASE goesOn
    <2>1. q \in Request
      <3>1. t.locks \union {k} \subseteq Users \union Keys
        BY <1>1, <1>3
      <3>. QED
        BY <1>1, <3>1 DEF Request
    <2>2. /\ q.phase = "write" /\ q.owners = t.owners
          /\ q.ask = t.ask /\ q.found = t.found /\ q.locks = t.locks \union {k}
      BY <1>1 DEF Request
    <2>3. key[k] # None /\ key[k].end = None
      BY <1>5 DEF Live
    <2>4. Knows(q)
      <3> HIDE DEF q, goesOn
      <3>. QED BY <1>1, <2>2, <2>3 DEF Knows
    <2>5. \A row \in q.locks : \/ row \in t.locks
                               \/ HeldBy(row) \subseteq {r} /\ (row \in Users => role[row] # None)
      BY <1>3, <2>2 DEF LockKey, Free
    <2>6. request' = [request EXCEPT ![r] = q]
      BY <1>5 DEF LockKey, Take
    <2>. QED
      <3> HIDE DEF q
      <3>. QED BY <1>1, <1>2, <2>1, <2>4, <2>5, <2>6, GoesOn
  <1>. QED
    BY <1>4, <1>5

LEMMA CollideInv ==
  ASSUME AccessInv, NEW r \in Open, Collide(r)
  PROVE  AccessInv'
  <1> DEFINE t == request[r]
             again == t.attempt + 1
             q == [t EXCEPT !.attempt = again, !.phase = "actor", !.found = None,
                            !.locks = {}]
  <1>1. /\ r \in Requests /\ t \in Request /\ Knows(t) /\ t.ask.op \in {"create", "rotate"}
    BY RequestType DEF Collide
  <1>2. UNCHANGED <<now, setting, role, key, referring>>
    BY DEF Collide
  <1>3. CASE Finish(r)
    BY <1>1, <1>2, <1>3, Ends
  <1>4. CASE ~Finish(r)
    <2>1. t.attempt < 3 /\ request' = [request EXCEPT ![r] = q]
      BY <1>4 DEF Collide
    <2>2. q \in Request
      <3>1. t.attempt \in 1..3
        BY <1>1 DEF Request
      <3>2. again \in 1..3
        BY <2>1, <3>1
      <3>. QED
        <4> HIDE DEF again
        <4>. QED BY <1>1, <3>2 DEF Request
    <2>3. q.phase = "actor" /\ q.locks = {} /\ q.owners = {}
      <3>1. t.owners = {}
        BY <1>1 DEF Knows
      <3>. QED
        BY <1>1, <3>1 DEF Request
    <2>4. Knows(q)
      <3> HIDE DEF q
      <3>. QED BY <2>3 DEF Knows
    <2>. QED
      <3> HIDE DEF q
      <3>. QED BY <1>1, <1>2, <2>1, <2>2, <2>3, <2>4, GoesOn
  <1>. QED
    BY <1>3, <1>4

-----------------------------------------------------------------------------
(* Steps that write *)

\* Nobody has been found to be a member while there are none.
LEMMA CreateOrganizationInv ==
  ASSUME AccessInv, NEW u \in Users, CreateOrganization(u)
  PROVE  AccessInv'
  <1>1. /\ \A m \in Users : role[m] = None
        /\ role' = [role EXCEPT ![u] = "owner"]
        /\ UNCHANGED <<now, setting, key, request, referring>>
    BY DEF CreateOrganization
  <1>2. AccessTypeOK' /\ role'[u] = "owner"
    BY <1>1 DEF AccessInv, AccessTypeOK, Roles
  <1>3. LocksExclude' /\ OwnerRemains' /\ OneReplacement'
    BY <1>1, <1>2 DEF AccessInv, LocksExclude, OwnerRemains, OneReplacement, Owners, Open
  <1>4. ASSUME NEW r \in Open'
        PROVE  Knows(request[r])'
    <2>1. r \in Open
      BY <1>1 DEF Open
    <2>2. Knows(request[r]) /\ request[r].ask.actor \in Users
      BY <2>1, RequestType
    <2>3. request[r].phase \in {"actor", "target"} /\ request[r].owners = {}
      BY <1>1, <2>2 DEF Knows
    <2>4. request[r].phase # "actor" => request[r].found = None
      BY <1>1, <2>2 DEF Knows
    <2>. QED
      BY <1>1, <2>2, <2>3, <2>4 DEF Knows, Entitles
  <1>. QED
    BY <1>2, <1>3, <1>4 DEF AccessInv

\* What is known depends on locked rows only, and on keys only while they are there.
LEMMA KnowsStill ==
  ASSUME NEW q \in Request, Knows(q),
         \A u \in q.locks \intersect Users : role'[u] = role[u],
         \A k \in q.locks \intersect Keys : key[k] # None => key'[k] = key[k]
  PROVE  Knows(q)'
  <1>1. q.ask.actor \in Users /\ q.owners \subseteq Users /\ q.ask \in Ask
    BY DEF Request, Ask
  <1>2. /\ q.ask.op \in {"update", "remove"} => q.ask.user \in Users
        /\ q.ask.op \in {"rotate", "revoke"} => q.ask.key \in Keys
    BY <1>1 DEF Ask
  <1>. QED
    BY <1>1, <1>2 DEF Knows, MayDo, Dethrones, Entitles

\* A write on rows that the request has locked, or that did not exist, is nothing that
\* another request knows.
LEMMA Others ==
  ASSUME AccessInv, NEW r \in Open, Finish(r),
         UNCHANGED <<now, setting, referring>>,
         role' \in [Users -> Roles \union {None}], key' \in [Keys -> Key \union {None}],
         \A u \in Users : role'[u] # role[u] => u \in request[r].locks \/ role[u] = None,
         \A k \in Keys : key'[k] # key[k] => k \in request[r].locks \/ key[k] = None
  PROVE  AccessTypeOK' /\ LocksExclude' /\ \A o \in Open' : Knows(request[o])'
  <1>1. AccessTypeOK'
    BY DEF AccessInv, AccessTypeOK, Finish
  <1>2. Open' = Open \ {r} /\ \A o \in Open \ {r} : request'[o] = request[o]
    BY DEF AccessInv, AccessTypeOK, Finish, Open
  <1>3. ASSUME NEW o \in Open'
        PROVE  /\ \A u \in request[o].locks \intersect Users : role'[u] = role[u]
               /\ \A k \in request[o].locks \intersect Keys : key[k] # None => key'[k] = key[k]
    <2>1. o \in Open /\ o # r
      BY <1>2, <1>3
    <2>2. request[r].locks \intersect request[o].locks = {}
      BY <2>1 DEF AccessInv, LocksExclude
    <2>3. \A u \in request[o].locks \intersect Users : role[u] # None
      BY <2>1 DEF AccessInv, LocksExclude
    <2>. QED
      BY <2>2, <2>3
  <1>4. LocksExclude'
    BY <1>2, <1>3 DEF AccessInv, LocksExclude
  <1>5. ASSUME NEW o \in Open'
        PROVE  Knows(request[o])'
    <2>1. o \in Open /\ request'[o] = request[o]
      BY <1>2, <1>5
    <2>. QED
      BY <1>3, <2>1, RequestType, KnowsStill
  <1>. QED
    BY <1>1, <1>4, <1>5

\* An owner who is taken away leaves one whose row the request has locked as well.
LEMMA WriteMemberInv ==
  ASSUME AccessInv, NEW r \in Open, request[r].phase \in {"insert", "write"},
         WriteMember(request[r].ask), Finish(r), UNCHANGED <<now, setting, referring>>
  PROVE  AccessInv'
  <1> DEFINE t == request[r]
             ask == t.ask
  <1>1. t \in Request /\ ask \in Ask /\ Knows(t)
    BY RequestType
  <1>2. /\ ask.op \in {"add", "update", "remove"} /\ ask.user \in Users /\ key' = key
        /\ ask.op \in {"add", "update"} => ask.as \in Roles
    BY <1>1 DEF WriteMember, Ask
  <1>3. PICK new \in Roles \union {None} :
          /\ role' = [role EXCEPT ![ask.user] = new]
          /\ ask.op \in {"update", "remove"} => new = IF ask.op = "remove" THEN None ELSE ask.as
          /\ ask.op = "add" => new = IF role[ask.user] = None THEN ask.as ELSE role[ask.user]
    <2>1. CASE ask.op = "add"
      <3>1. role \in [Users -> Roles \union {None}]
        BY DEF AccessInv, AccessTypeOK
      <3>2. role = [role EXCEPT ![ask.user] = role[ask.user]] /\ role[ask.user] \in Roles \union {None}
        BY <1>2, <3>1
      <3>. QED
        BY <1>2, <2>1, <3>2 DEF WriteMember
    <2>2. CASE ask.op # "add"
      BY <1>2, <2>2 DEF WriteMember
    <2>. QED
      BY <2>1, <2>2
  <1>4. role \in [Users -> Roles \union {None}] /\ key \in [Keys -> Key \union {None}]
    BY DEF AccessInv, AccessTypeOK
  <1>5. role' \in [Users -> Roles \union {None}] /\ key' \in [Keys -> Key \union {None}]
    BY <1>2, <1>3, <1>4
  <1>6. role'[ask.user] = new /\ \A u \in Users \ {ask.user} : role'[u] = role[u]
    BY <1>2, <1>3, <1>4
  <1>7. ask.op \in {"update", "remove"} => t.phase = "write" /\ ask.user \in t.locks
    BY <1>1 DEF Knows
  <1>8. AccessTypeOK' /\ LocksExclude' /\ \A o \in Open' : Knows(request[o])'
    <2>1. \A u \in Users : role'[u] # role[u] => u \in t.locks \/ role[u] = None
      BY <1>2, <1>3, <1>6, <1>7
    <2>2. \A k \in Keys : key'[k] # key[k] => k \in t.locks \/ key[k] = None
      BY <1>2
    <2>. QED
      BY <1>5, <2>1, <2>2, Others
  <1>9. OneReplacement'
    BY <1>2 DEF AccessInv, OneReplacement, Replacements
  <1>10. OwnerRemains'
    <2>1. CASE ask.op = "add"
      <3>1. Owners # {}
        <4>1. t.phase = "insert" /\ t.found # None
          BY <1>1, <2>1 DEF Knows
        <4>2. role[ask.actor] # None /\ ask.actor \in Users
          BY <1>1, <4>1, RequestType DEF Knows
        <4>. QED
          BY <4>2 DEF AccessInv, OwnerRemains
      <3>2. \A u \in Users : role[u] = "owner" => role'[u] = "owner"
        BY <1>3, <1>6, <2>1, NoneIsNoRole
      <3>. QED
        BY <3>1, <3>2 DEF OwnerRemains, Owners
    <2>2. CASE ask.op # "add" /\ Dethrones(ask)
      <3>1. PICK u \in t.locks \intersect Users : u # ask.user /\ role[u] = "owner"
        BY <1>1, <1>2, <1>7, <2>2 DEF Knows
      <3>2. role'[u] = "owner"
        BY <1>6, <3>1
      <3>. QED
        BY <3>1, <3>2 DEF OwnerRemains, Owners
    <2>3. CASE ask.op # "add" /\ ~Dethrones(ask)
      <3>1. Owners # {}
        <4>1. role[ask.user] # None
          BY <1>1, <1>2, <1>7, <2>3 DEF AccessInv, LocksExclude
        <4>. QED
          BY <1>2, <4>1 DEF AccessInv, OwnerRemains
      <3>2. \A u \in Users : role[u] = "owner" => role'[u] = "owner"
        BY <1>2, <1>3, <1>6, <2>3 DEF Dethrones
      <3>. QED
        BY <3>1, <3>2 DEF OwnerRemains, Owners
    <2>. QED
      BY <2>1, <2>2, <2>3
  <1>. QED
    BY <1>8, <1>9, <1>10 DEF AccessInv

\* A key that a request has locked was live, so that it has no replacement yet.
LEMMA WriteKeyInv ==
  ASSUME AccessInv, NEW r \in Open, request[r].phase \in {"insert", "write"},
         WriteKey(request[r].ask), Finish(r), UNCHANGED <<now, setting, referring>>
  PROVE  AccessInv'
  <1> DEFINE t == request[r]
             ask == t.ask
  <1>1. t \in Request /\ ask \in Ask /\ Knows(t)
    BY RequestType
  <1>2. role' = role /\ ask.op \in {"create", "rotate", "revoke"}
    BY DEF WriteKey, CreateKey, RotateKey, RevokeKey
  <1>3. role \in [Users -> Roles \union {None}] /\ key \in [Keys -> Key \union {None}]
    BY DEF AccessInv, AccessTypeOK
  <1>4. OwnerRemains'
    BY <1>2 DEF AccessInv, OwnerRemains, Owners
  <1>5. None \notin Key /\ None \notin Keys /\ None # "rotated" /\ None # "revoked"
    BY ConstantsAssumption
  <1>6. ask.op \in {"rotate", "revoke"} =>
          /\ ask.key \in Keys /\ ask.key \in t.locks
          /\ key[ask.key] # None /\ key[ask.key].end = None /\ key[ask.key] \in Key
    BY <1>1, <1>3 DEF Knows, Ask
  <1>7. CASE ask.op = "create"
    <2> DEFINE made == NewKey(ask.expires, None)
    <2>1. PICK new \in Keys : key[new] = None /\ key' = [key EXCEPT ![new] = made]
      BY <1>7 DEF WriteKey, CreateKey, RotateKey, RevokeKey
    <2>2. made \in Key /\ made.from = None /\ made.end = None
      BY <1>1 DEF NewKey, Key, Ask
    <2>3. key'[new] = made /\ \A k \in Keys \ {new} : key'[k] = key[k]
      BY <1>3, <2>1
    <2>4. key' \in [Keys -> Key \union {None}]
      <3> HIDE DEF made
      <3>. QED BY <1>3, <2>1, <2>2
    <2>5. \A k \in Keys : Replacements(key', k) = Replacements(key, k)
      <3> HIDE DEF made
      <3>. QED BY <1>5, <2>1, <2>2, <2>3 DEF Replacements
    <2>6. OneReplacement'
      <3> HIDE DEF made
      <3>1. \A k \in Keys : (key'[k] # None /\ key'[k].end = "rotated") <=>
                            (key[k] # None /\ key[k].end = "rotated")
        BY <1>5, <2>1, <2>2, <2>3
      <3>. QED
        BY <2>5, <3>1 DEF AccessInv, OneReplacement
    <2>7. \A k \in Keys : key'[k] # key[k] => k \in t.locks \/ key[k] = None
      BY <2>1, <2>3
    <2>. QED
      BY <1>2, <1>3, <1>4, <2>4, <2>6, <2>7, Others DEF AccessInv
  <1>8. CASE ask.op = "revoke"
    <2> DEFINE old == ask.key
               made == [key[old] EXCEPT !.end = "revoked"]
    <2>1. key' = [key EXCEPT ![old] = made]
      BY <1>8 DEF WriteKey, CreateKey, RotateKey, RevokeKey
    <2>2. made \in Key /\ made.from = key[old].from /\ made.end = "revoked"
      BY <1>6, <1>8 DEF Key
    <2>3. key'[old] = made /\ \A k \in Keys \ {old} : key'[k] = key[k]
      BY <1>3, <1>6, <1>8, <2>1
    <2>4. key' \in [Keys -> Key \union {None}]
      <3> HIDE DEF made
      <3>. QED BY <1>3, <2>1, <2>2
    <2>5. \A k \in Keys : Replacements(key', k) = Replacements(key, k)
      <3> HIDE DEF made
      <3>. QED BY <1>5, <1>6, <1>8, <2>1, <2>2, <2>3 DEF Replacements
    <2>6. OneReplacement'
      <3> HIDE DEF made
      <3>1. \A k \in Keys : (key'[k] # None /\ key'[k].end = "rotated") <=>
                            (key[k] # None /\ key[k].end = "rotated")
        BY <1>5, <1>6, <1>8, <2>1, <2>2, <2>3
      <3>. QED
        BY <2>5, <3>1 DEF AccessInv, OneReplacement
    <2>7. \A k \in Keys : key'[k] # key[k] => k \in t.locks \/ key[k] = None
      BY <1>6, <1>8, <2>3
    <2>. QED
      BY <1>2, <1>3, <1>4, <2>4, <2>6, <2>7, Others DEF AccessInv
  <1>9. CASE ask.op = "rotate"
    <2> DEFINE old == ask.key
               made == [key[old] EXCEPT !.end = "rotated"]
               next == NewKey(key[old].expires, old)
    <2>1. PICK new \in Keys : key[new] = None /\ key' = [key EXCEPT ![old] = made, ![new] = next]
      BY <1>9 DEF WriteKey, CreateKey, RotateKey, RevokeKey
    <2>2. /\ made \in Key /\ made.from = key[old].from /\ made.end = "rotated"
          /\ next \in Key /\ next.from = old /\ next.end = None
      BY <1>6, <1>9 DEF Key, NewKey
    <2>3. /\ new # old /\ key'[old] = made /\ key'[new] = next
          /\ \A k \in Keys \ {old, new} : key'[k] = key[k]
      <3> HIDE DEF made, next
      <3>. QED BY <1>3, <1>6, <1>9, <2>1
    <2>4. key' \in [Keys -> Key \union {None}]
      <3> HIDE DEF made, next
      <3>. QED BY <1>3, <2>1, <2>2
    <2>5. Replacements(key, old) = {}
      BY <1>5, <1>6, <1>9 DEF AccessInv, OneReplacement
    <2>6. \A k \in Keys : Replacements(key', k) = Replacements(key, k) \union
                                                  (IF k = old THEN {new} ELSE {})
      <3> HIDE DEF made, next
      <3>1. \A k \in Keys, c \in Keys \ {new} :
              key'[c] # None /\ key'[c].from = k <=> key[c] # None /\ key[c].from = k
        BY <1>5, <1>6, <1>9, <2>2, <2>3
      <3>2. \A k \in Keys : key[new] = None /\ (key'[new].from = k <=> k = old)
        BY <2>1, <2>2, <2>3
      <3>. QED
        BY <1>5, <2>2, <2>3, <3>1, <3>2 DEF Replacements
    <2>7. OneReplacement'
      <3> HIDE DEF made, next
      <3>1. \A k \in Keys \ {old} : (key'[k] # None /\ key'[k].end = "rotated") <=>
                                    (key[k] # None /\ key[k].end = "rotated")
        BY <1>5, <1>6, <1>9, <2>1, <2>2, <2>3
      <3>2. key'[old] # None /\ key'[old].end = "rotated"
        BY <1>5, <2>2, <2>3
      <3>3. Replacements(key', old) = {new}
        BY <1>6, <1>9, <2>5, <2>6
      <3>. QED
        BY <2>6, <3>1, <3>2, <3>3 DEF AccessInv, OneReplacement
    <2>8. \A k \in Keys : key'[k] # key[k] => k \in t.locks \/ key[k] = None
      BY <1>6, <1>9, <2>1, <2>3
    <2>. QED
      BY <1>2, <1>3, <1>4, <2>4, <2>7, <2>8, Others DEF AccessInv
  <1>. QED
    BY <1>2, <1>7, <1>8, <1>9

LEMMA AccessNextInv ==
  ASSUME AccessInv, AccessNext
  PROVE  AccessInv'
  <1>1. ASSUME NEW u \in Users, CreateOrganization(u)
        PROVE  AccessInv'
    BY <1>1, CreateOrganizationInv
  <1>2. ASSUME NEW r \in Requests, NEW ask \in setting.asks, Receive(r, ask)
        PROVE  AccessInv'
    BY <1>2, ReceiveInv
  <1>3. ASSUME NEW r \in Open, Write(r)
        PROVE  AccessInv'
    BY <1>3, WriteMemberInv, WriteKeyInv DEF Write
  <1>4. ASSUME NEW r \in Requests, Advance(r)
        PROVE  AccessInv'
    <2>1. r \in Open
      BY <1>4 DEF Advance
    <2>. QED
      BY <1>3, <1>4, <2>1, LockActorInv, LockTargetInv, ReadOwnersInv, LockOwnerInv,
         CountOwnersInv, LockKeyInv DEF Advance
  <1>5. ASSUME NEW r \in Open, Abort(r)
        PROVE  AccessInv'
    BY <1>5, RequestType, Ends DEF Abort
  <1>6. ASSUME NEW r \in Open, Collide(r)
        PROVE  AccessInv'
    BY <1>6, CollideInv
  <1>. QED
    BY <1>1, <1>2, <1>4, <1>5, <1>6 DEF AccessNext

-----------------------------------------------------------------------------
(* Authority *)

\* Who changes the role of u in this step is entitled to, and so is who changes a key.
RoleChangeAllowed(u) ==
  \E r \in Open :
    /\ request'[r] = None /\ request[r].ask.user = u
    /\ LET by == role[request[r].ask.actor]
       IN IF role[u] = None THEN MayAssign(by, role'[u])
          ELSE IF role'[u] = None THEN MayRemove(by, role[u])
          ELSE MayChange(by, role[u], role'[u])

KeyChangeAllowed ==
  \E r \in Open : request'[r] = None /\ MayManageKeys(role[request[r].ask.actor])

\* Only the first membership and the writes of requests change anything.
LEMMA OnlyWrites ==
  ASSUME AccessInv, AccessNext, role' # role \/ key' # key
  PROVE  \/ Owners = {} /\ key' = key
         \/ \E r \in Open : Write(r)
  <1>1. ASSUME NEW u \in Users, CreateOrganization(u)
        PROVE  Owners = {} /\ key' = key
    BY <1>1, NoneIsNoRole DEF CreateOrganization, Owners
  <1>2. ASSUME NEW r \in Requests, Advance(r)
        PROVE  r \in Open /\ Write(r)
    BY <1>2 DEF Advance, LockActor, LockTarget, ReadOwners, LockOwner, CountOwners, LockKey
  <1>. QED
    BY <1>1, <1>2 DEF AccessNext, Receive, Collide, Abort

LEMMA Authorized ==
  ASSUME AccessInv, AccessNext
  PROVE  /\ \A u \in Users : role'[u] # role[u] /\ Owners # {} => RoleChangeAllowed(u)
         /\ key' # key => KeyChangeAllowed
  <1>1. ASSUME NEW r \in Open, Write(r)
        PROVE  /\ request'[r] = None
               /\ role[request[r].ask.actor] = request[r].found
               /\ Knows(request[r]) /\ Entitles(request[r].found, request[r].ask)
               /\ request[r].ask \in Ask
    <2>1. r \in Requests /\ Knows(request[r]) /\ request[r].ask \in Ask
      BY RequestType
    <2>2. request[r].phase \in {"insert", "write"}
      BY <1>1 DEF Write
    <2>3. request'[r] = None
      BY <1>1, <2>1 DEF Write, Finish, AccessInv, AccessTypeOK
    <2>. QED
      BY <2>1, <2>2, <2>3 DEF Knows
  <1>2. ASSUME NEW u \in Users, role'[u] # role[u], Owners # {}
        PROVE  RoleChangeAllowed(u)
    <2>1. PICK r \in Open : Write(r)
      BY <1>2, OnlyWrites
    <2> DEFINE ask == request[r].ask
    <2>2. WriteMember(ask) /\ ask.op \in {"add", "update", "remove"}
      BY <1>2, <2>1 DEF Write, WriteKey, WriteMember, CreateKey, RotateKey, RevokeKey
    <2>3. u = ask.user /\ role \in [Users -> Roles \union {None}] /\ ask \in Ask
      BY <1>1, <1>2, <2>1, <2>2 DEF WriteMember, AccessInv, AccessTypeOK
    <2>4. CASE ask.op = "add"
      <3>1. role[u] = None /\ role'[u] = ask.as
        BY <1>2, <2>2, <2>3, <2>4 DEF WriteMember
      <3>. QED
        BY <1>1, <2>1, <2>3, <2>4, <3>1 DEF RoleChangeAllowed, Entitles
    <2>5. CASE ask.op # "add"
      <3>1. request[r].phase = "write" /\ MayDo(request[r].found, ask) /\ role[u] # None
        <4>1. request[r].phase = "write" /\ ask.user \in request[r].locks
              /\ MayDo(request[r].found, ask)
          BY <1>1, <2>1, <2>2, <2>5 DEF Write, Knows
        <4>. QED
          BY <2>3, <4>1, RequestType
      <3>2. /\ ask.op = "remove" => role'[u] = None
            /\ ask.op = "update" => role'[u] = ask.as /\ role'[u] # None
        BY <2>2, <2>3, <2>5, NoneIsNoRole DEF WriteMember, Ask
      <3>. QED
        BY <1>1, <2>1, <2>2, <2>3, <2>5, <3>1, <3>2 DEF RoleChangeAllowed, MayDo
    <2>. QED
      BY <2>4, <2>5
  <1>3. ASSUME key' # key
        PROVE  KeyChangeAllowed
    <2>1. PICK r \in Open : Write(r)
      BY <1>3, OnlyWrites
    <2>2. request[r].ask.op \in {"create", "rotate", "revoke"}
      BY <1>3, <2>1 DEF Write, WriteKey, WriteMember, CreateKey, RotateKey, RevokeKey
    <2>. QED
      BY <1>1, <2>1, <2>2 DEF KeyChangeAllowed, Entitles
  <1>. QED
    BY <1>2, <1>3

-----------------------------------------------------------------------------
(* What is known of a call *)

\* Rows that the unique keys of the events allow beside each other.
Unlike(x, y) == x.id # y.id /\ (x.of # None => x.of # y.of)

\* What the i-th answer says is so, given what the call wrote and what is stored.
AnswerHolds(q, i) ==
  LET item == q.load.items[i]
      answer == q.answers[i]
  IN /\ answer = "accepted" => item \in q.wrote
     /\ answer = "duplicate" => event[item.id] = item \/ item \in q.wrote
     /\ answer = "idempotency_conflict" =>
          \/ event[item.id] \notin {None, item}
          \/ \E row \in q.wrote : row.id = item.id /\ row # item
     /\ answer = "already_corrected" =>
          \E e \in Events : event[e] # None /\ event[e].of = item.of

\* A call answers its items in their order; what it wrote is like nothing stored.
Consistent(q) ==
  /\ Len(q.answers) <= Len(q.load.items)
  /\ q.phase = "commit" <=> Len(q.answers) = Len(q.load.items)
  /\ q.answers = <<>> => q.wrote = {}
  /\ q.phase \in {"lock", "insert"} =>
       \A row \in q.wrote : row.id # q.load.items[Len(q.answers) + 1].id
  /\ q.phase = "lock" => q.load.items[Len(q.answers) + 1].of # None
  /\ \A row \in q.wrote, e \in Events : event[e] # None => Unlike(row, event[e])
  /\ \A x, y \in q.wrote : x # y => Unlike(x, y)
  /\ \A i \in 1..Len(q.answers) : AnswerHolds(q, i)

\* No two stored events correct the same event.
CorrectedOnce ==
  \A e, f \in Events :
    e # f /\ event[e] # None /\ event[f] # None => Unlike(event[e], event[f])

CallsInv ==
  /\ \A e \in Events : event[e] # None => event[e].id = e
  /\ CorrectedOnce
  /\ \A c \in Active : Consistent(call[c])
  /\ \A c, o \in Active :
       c # o => \A x \in call[c].wrote, y \in call[o].wrote : Unlike(x, y)

IngestionInv == IngestionTypeOK /\ AccessInv /\ CallsInv

\* A window whose count was deleted has been over for a window for everybody.
RateInv ==
  /\ \A c \in Active : call[c].phase \in {"prune", "count"} => call[c].at <= now
  /\ \A k \in Keys, w \in Windows :
       /\ window[k][w] <= setting.limit
       /\ served[k][w] <= window[k][w] \/ (w + 2) * Window <= now

\* A call that has written refers to its key, and a key that is locked has no such calls.
KeysInv ==
  /\ \A c \in Active : call[c].wrote # {} => c \in referring[KeyOf(c)]
  /\ \A r \in Open : \A k \in request[r].locks \intersect Keys : referring[k] = {}

-----------------------------------------------------------------------------
(* Calls *)

\* An active call, its load and the item it is at.
LEMMA CallType ==
  ASSUME IngestionInv, NEW c \in Active
  PROVE  /\ c \in Calls /\ call[c] \in Call /\ Consistent(call[c])
         /\ call[c].load.items \in Seq(Item) /\ call[c].load.items # <<>>
         /\ \A i \in DOMAIN call[c].load.items :
              call[c].load.items[i].of # None => Len(call[c].load.items) = 1
         /\ call[c].load.key \in Keys
         /\ call[c].answers \in Seq(Answers) /\ call[c].wrote \subseteq Item
         /\ Len(call[c].answers) < Len(call[c].load.items) => At(c) \in Item
  <1>1. c \in Calls /\ call[c] \in Call /\ Consistent(call[c])
    BY DEF IngestionInv, IngestionTypeOK, CallsInv, Active
  <1>2. call[c].answers \in Seq(Answers) /\ call[c].wrote \subseteq Item
    BY <1>1 DEF Call
  <1>3. PICK s \in Settings : call[c].load \in Loads(s)
    BY <1>1 DEF Call
  <1>4. /\ call[c].load.items \in Seq(Item) /\ call[c].load.items # <<>>
        /\ call[c].load.key \in Keys
        /\ (\E i \in DOMAIN call[c].load.items : call[c].load.items[i].of # None) =>
             Len(call[c].load.items) = 1
    BY <1>3, IngestionAssumption DEF LoadDefinition
  <1>5. Len(call[c].answers) < Len(call[c].load.items) => At(c) \in Item
    BY <1>2, <1>4 DEF At
  <1>. QED
    BY <1>1, <1>2, <1>4, <1>5

\* A call goes on, and writes only what is like no row of another call.
LEMMA CallGoesOn ==
  ASSUME IngestionInv, NEW c \in Calls, NEW q \in Call,
         call' = [call EXCEPT ![c] = q], UNCHANGED event,
         Consistent(q),
         \A o \in Active \ {c} : \A x \in q.wrote, y \in call[o].wrote : Unlike(x, y)
  PROVE  call' \in [Calls -> Call \union {None}] /\ CallsInv'
  <1>1. call \in [Calls -> Call \union {None}]
    BY DEF IngestionInv, IngestionTypeOK
  <1>2. call'[c] = q /\ \A o \in Calls \ {c} : call'[o] = call[o]
    BY <1>1
  <1>3. call' \in [Calls -> Call \union {None}]
    BY <1>1
  <1>4. Active' = Active \union {c}
    BY <1>2, NoCallAssumption DEF Active
  <1>5. ASSUME NEW o \in Active'
        PROVE  Consistent(call[o])'
    <2>1. Consistent(call'[o])
      BY <1>2, <1>4 DEF IngestionInv, CallsInv, Active
    <2>. QED
      BY <2>1 DEF Consistent, AnswerHolds
  <1>6. ASSUME NEW o \in Active', NEW p \in Active', o # p,
               NEW x \in call'[o].wrote, NEW y \in call'[p].wrote
        PROVE  Unlike(x, y)
    <2>1. CASE o # c /\ p # c
      BY <1>2, <1>4, <1>6, <2>1 DEF IngestionInv, CallsInv, Active
    <2>2. CASE o = c
      BY <1>2, <1>4, <1>6, <2>2 DEF Active
    <2>3. CASE p = c
      <3>1. Unlike(y, x)
        BY <1>2, <1>4, <1>6, <2>3 DEF Active
      <3>. QED
        BY <3>1 DEF Unlike
    <2>. QED
      BY <2>1, <2>2, <2>3
  <1>7. (\A e \in Events : event'[e] # None => event'[e].id = e) /\ CorrectedOnce'
    BY DEF IngestionInv, CallsInv, CorrectedOnce
  <1>. QED
    BY <1>3, <1>5, <1>6, <1>7 DEF CallsInv, Unlike

\* A call ends without a commit.
LEMMA CallEnds ==
  ASSUME IngestionInv, NEW c \in Calls, End(c), UNCHANGED event
  PROVE  call' \in [Calls -> Call \union {None}] /\ CallsInv'
  <1>1. call \in [Calls -> Call \union {None}]
    BY DEF IngestionInv, IngestionTypeOK
  <1>2. call'[c] = None /\ \A o \in Calls \ {c} : call'[o] = call[o]
    BY <1>1 DEF End
  <1>3. call' \in [Calls -> Call \union {None}]
    BY <1>1 DEF End
  <1>4. Active' = Active \ {c}
    BY <1>2 DEF Active
  <1>5. ASSUME NEW o \in Active'
        PROVE  Consistent(call[o])'
    <2>1. Consistent(call'[o])
      BY <1>2, <1>4 DEF IngestionInv, CallsInv, Active
    <2>. QED
      BY <2>1 DEF Consistent, AnswerHolds
  <1>6. \A o, p \in Active' :
          o # p => \A x \in call'[o].wrote, y \in call'[p].wrote : Unlike(x, y)
    BY <1>2, <1>4 DEF IngestionInv, CallsInv, Active
  <1>7. (\A e \in Events : event'[e] # None => event'[e].id = e) /\ CorrectedOnce'
    BY DEF IngestionInv, CallsInv, CorrectedOnce
  <1>. QED
    BY <1>3, <1>5, <1>6, <1>7 DEF CallsInv, Unlike

\* A call moves to another phase without an answer.
LEMMA Moves ==
  ASSUME IngestionInv, NEW c \in Active, NEW q \in Call,
         call' = [call EXCEPT ![c] = q], UNCHANGED event,
         q.load = call[c].load, q.answers = call[c].answers, q.wrote = call[c].wrote,
         call[c].phase # "commit", q.phase # "commit",
         q.phase \in {"lock", "insert"} => \A row \in call[c].wrote : row.id # At(c).id,
         q.phase = "lock" => At(c).of # None
  PROVE  call' \in [Calls -> Call \union {None}] /\ CallsInv'
  <1>1. Consistent(q)
    BY CallType DEF Consistent, AnswerHolds, At
  <1>2. \A o \in Active \ {c} : \A x \in q.wrote, y \in call[o].wrote : Unlike(x, y)
    BY DEF IngestionInv, CallsInv
  <1>. QED
    BY <1>1, <1>2, CallGoesOn, CallType

LEMMA AppendFacts ==
  ASSUME NEW S, NEW s \in Seq(S), NEW x \in S
  PROVE  /\ Append(s, x) \in Seq(S) /\ Len(s) \in Nat /\ Len(Append(s, x)) = Len(s) + 1
         /\ Append(s, x) # <<>> /\ Append(s, x)[Len(s) + 1] = x
         /\ \A i \in 1..Len(s) : Append(s, x)[i] = s[i]
  OBVIOUS

\* The call after an answer, when w is what it wrote.
After(c, w, answer) ==
  [call[c] EXCEPT !.wrote = w, !.answers = Append(call[c].answers, answer),
                  !.phase = Answered(c)]

\* An item is answered, and its row is written when nothing is like it.
LEMMA Answering ==
  ASSUME IngestionInv, NEW c \in Active, NEW answer \in Answers, NEW w \in SUBSET Item,
         call[c].phase \in {"item", "lock", "insert"}, UNCHANGED event,
         call' = [call EXCEPT ![c] = After(c, w, answer)],
         \/ w = call[c].wrote /\ answer # "accepted"
         \/ /\ w = call[c].wrote \union {At(c)}
            /\ \A row \in call[c].wrote \union Stored \union Uncommitted(c) : Unlike(At(c), row),
         answer = "duplicate" => event[At(c).id] = At(c) \/ At(c) \in w,
         answer = "idempotency_conflict" =>
           \/ event[At(c).id] \notin {None, At(c)}
           \/ \E row \in w : row.id = At(c).id /\ row # At(c),
         answer = "already_corrected" =>
           \E e \in Events : event[e] # None /\ event[e].of = At(c).of
  PROVE  call' \in [Calls -> Call \union {None}] /\ CallsInv'
  <1> DEFINE t == call[c]
             n == Len(t.answers)
             more == Append(t.answers, answer)
             q == After(c, w, answer)
  <1>1. /\ c \in Calls /\ t \in Call /\ Consistent(t)
        /\ t.load.items \in Seq(Item) /\ t.answers \in Seq(Answers) /\ t.wrote \subseteq Item
        /\ n \in Nat
    BY CallType
  <1>2. n < Len(t.load.items) /\ At(c) \in Item /\ At(c) = t.load.items[n + 1]
    <2>1. n < Len(t.load.items)
      <3>1. Len(t.load.items) \in Nat /\ t.phase # "commit"
        BY <1>1
      <3>. QED
        BY <1>1, <3>1 DEF Consistent
    <2>. QED
      BY <2>1, CallType DEF At
  <1>3. /\ more \in Seq(Answers) /\ Len(more) = n + 1 /\ more # <<>>
        /\ more[n + 1] = answer /\ \A i \in 1..n : more[i] = t.answers[i]
    BY <1>1, AppendFacts
  <1>4. Answered(c) \in {"item", "commit"}
    BY DEF Answered
  <1>5. q \in Call
    BY <1>1, <1>3, <1>4 DEF Call, After
  <1>6. q.wrote = w /\ q.answers = more /\ q.phase = Answered(c) /\ q.load = t.load
    BY <1>1 DEF Call, After
  <1>7. \A row \in w \ t.wrote : row = At(c)
    OBVIOUS
  <1>8. \A e \in Events : event[e] # None => event[e] \in Stored
    BY DEF Stored
  <1>9. Consistent(q)
    <2>1. q.phase = "commit" <=> Len(q.answers) = Len(q.load.items)
      <3>1. Answered(c) = "commit" <=> n + 1 = Len(t.load.items)
        BY DEF Answered
      <3>. QED
        <4> HIDE DEF more, n, q
        <4>. QED BY <1>3, <1>6, <3>1
    <2>2. \A row \in q.wrote, e \in Events : event[e] # None => Unlike(row, event[e])
      BY <1>1, <1>6, <1>7, <1>8 DEF Consistent
    <2>3. \A x, y \in q.wrote : x # y => Unlike(x, y)
      BY <1>1, <1>6, <1>7 DEF Consistent, Unlike
    <2>4. ASSUME NEW i \in 1..n
          PROVE  AnswerHolds(q, i)
      <3>1. AnswerHolds(t, i) /\ q.answers[i] = t.answers[i] /\ t.wrote \subseteq q.wrote
        BY <1>1, <1>3, <1>6 DEF Consistent
      <3>. QED
        <4> HIDE DEF q
        <4>. QED BY <1>6, <3>1 DEF AnswerHolds
    <2>5. AnswerHolds(q, n + 1)
      <3> HIDE DEF q
      <3>. QED BY <1>2, <1>3, <1>6 DEF AnswerHolds
    <2>6. \A i \in 1..Len(q.answers) : AnswerHolds(q, i)
      <3> HIDE DEF q
      <3>. QED BY <1>1, <1>3, <1>6, <2>4, <2>5
    <2>7. Len(q.answers) <= Len(q.load.items)
      <3>1. Len(t.load.items) \in Nat
        BY <1>1
      <3>. QED
        <4> HIDE DEF q, more
        <4>. QED BY <1>1, <1>2, <1>3, <1>6, <3>1
    <2>8. q.answers # <<>> /\ q.phase \notin {"lock", "insert"}
      BY <1>3, <1>4, <1>6
    <2>. QED
      <3> HIDE DEF q
      <3>. QED BY <2>1, <2>2, <2>3, <2>6, <2>7, <2>8 DEF Consistent
  <1>10. \A o \in Active \ {c} : \A x \in q.wrote, y \in call[o].wrote : Unlike(x, y)
    BY <1>6, <1>7 DEF IngestionInv, CallsInv, Uncommitted
  <1>11. call' = [call EXCEPT ![c] = q]
    OBVIOUS
  <1>. QED
    <2> HIDE DEF q
    <2>. QED BY <1>1, <1>5, <1>9, <1>10, <1>11, CallGoesOn

\* The calls after each step, when the rows of a committed call have become events.
LEMMA CommitCalls ==
  ASSUME IngestionInv, NEW c \in Active, Commit(c)
  PROVE  /\ call' \in [Calls -> Call \union {None}] /\ event' \in [Events -> Item \union {None}]
         /\ CallsInv'
         /\ \A e \in Events : event[e] # None => event'[e] = event[e]
         /\ \A row \in call[c].wrote : event[row.id] = None /\ event'[row.id] = row
  <1> DEFINE t == call[c]
             new(e) == \E row \in t.wrote : row.id = e
  <1>1. /\ c \in Calls /\ t \in Call /\ Consistent(t) /\ t.wrote \subseteq Item /\ End(c)
        /\ call \in [Calls -> Call \union {None}] /\ event \in [Events -> Item \union {None}]
    BY CallType DEF Commit, IngestionInv, IngestionTypeOK
  <1>2. event' = [e \in Events |-> IF new(e) THEN CHOOSE row \in t.wrote : row.id = e ELSE event[e]]
    BY DEF Commit
  <1>3. \A row \in t.wrote : row.id \in Events
    BY <1>1 DEF Item
  <1>4. \A row \in t.wrote : event'[row.id] = row
    <2> SUFFICES ASSUME NEW row \in t.wrote
                 PROVE  event'[row.id] = row
      OBVIOUS
    <2>1. \A other \in t.wrote : other.id = row.id => other = row
      BY <1>1 DEF Consistent, Unlike
    <2>2. (CHOOSE other \in t.wrote : other.id = row.id) = row
      BY <2>1
    <2>. QED
      BY <1>2, <1>3, <2>2
  <1>5. \A e \in Events : ~new(e) => event'[e] = event[e]
    BY <1>2
  <1>6. \A row \in t.wrote : event[row.id] = None
    <2> SUFFICES ASSUME NEW row \in t.wrote, event[row.id] # None
                 PROVE  FALSE
      OBVIOUS
    <2>1. row.id \in Events /\ event[row.id].id = row.id
      BY <1>3 DEF IngestionInv, CallsInv
    <2>2. Unlike(row, event[row.id])
      BY <1>1, <2>1 DEF Consistent
    <2>. QED
      BY <2>1, <2>2 DEF Unlike
  <1>7. \A e \in Events : event[e] # None => event'[e] = event[e]
    BY <1>5, <1>6
  <1>8. \A e \in Events : event'[e] # None =>
          \/ event'[e] = event[e] /\ event[e] # None
          \/ event'[e] \in t.wrote /\ event'[e].id = e
    BY <1>4, <1>5
  <1>9. event' \in [Events -> Item \union {None}]
    <2>1. \A e \in Events : event'[e] \in Item \union {None}
      BY <1>1, <1>8
    <2>. QED
      BY <1>2, <2>1
  <1>10. call'[c] = None /\ \A o \in Calls \ {c} : call'[o] = call[o]
    BY <1>1 DEF End
  <1>11. call' \in [Calls -> Call \union {None}] /\ Active' = Active \ {c}
    BY <1>1, <1>10 DEF End, Active
  <1>12. (\A e \in Events : event'[e] # None => event'[e].id = e) /\ CorrectedOnce'
    <2>1. \A e \in Events : event'[e] # None => event'[e].id = e
      BY <1>8 DEF IngestionInv, CallsInv
    <2>2. ASSUME NEW e \in Events, NEW f \in Events, e # f, event'[e] # None, event'[f] # None
          PROVE  Unlike(event'[e], event'[f])
      <3>1. CASE event'[e] = event[e] /\ event[e] # None /\ event'[f] = event[f] /\ event[f] # None
        BY <2>2, <3>1 DEF IngestionInv, CallsInv, CorrectedOnce
      <3>2. CASE event'[e] = event[e] /\ event[e] # None /\ event'[f] \in t.wrote
        BY <1>1, <3>2 DEF Consistent, Unlike
      <3>3. CASE event'[e] \in t.wrote /\ event'[f] = event[f] /\ event[f] # None
        BY <1>1, <3>3 DEF Consistent
      <3>4. CASE event'[e] \in t.wrote /\ event'[f] \in t.wrote
        BY <1>1, <2>1, <2>2, <3>4 DEF Consistent
      <3>. QED
        BY <1>8, <2>2, <3>1, <3>2, <3>3, <3>4
    <2>. QED
      BY <2>1, <2>2 DEF CorrectedOnce
  <1>13. ASSUME NEW o \in Active'
         PROVE  Consistent(call[o])'
    <2>1. o \in Active /\ o # c /\ call'[o] = call[o]
      BY <1>10, <1>11, <1>13 DEF Active
    <2>2. /\ Consistent(call[o]) /\ call[o] \in Call /\ call[o].answers \in Seq(Answers)
          /\ call[o].load.items \in Seq(Item)
      BY <2>1, CallType
    <2>3. \A row \in call[o].wrote, e \in Events : event'[e] # None => Unlike(row, event'[e])
      <3>1. \A row \in call[o].wrote, x \in t.wrote : Unlike(row, x)
        BY <2>1 DEF IngestionInv, CallsInv
      <3>. QED
        BY <1>8, <2>2, <3>1 DEF Consistent
    <2>4. ASSUME NEW i \in 1..Len(call[o].answers)
          PROVE  AnswerHolds(call[o], i)'
      <3>1. AnswerHolds(call[o], i) /\ i \in DOMAIN call[o].load.items
        BY <2>2 DEF Consistent
      <3>2. call[o].load.items[i] \in Item
        BY <2>2, <3>1
      <3>3. call[o].load.items[i].id \in Events /\ call[o].load.items[i] # None
        BY <3>2, IngestionAssumption DEF Item
      <3>. QED
        BY <1>7, <2>1, <3>1, <3>3 DEF AnswerHolds
    <2>. QED
      BY <2>1, <2>2, <2>3, <2>4 DEF Consistent
  <1>14. \A o, p \in Active' :
          o # p => \A x \in call'[o].wrote, y \in call'[p].wrote : Unlike(x, y)
    BY <1>10, <1>11 DEF IngestionInv, CallsInv, Active
  <1>15. CallsInv'
    BY <1>12, <1>13, <1>14 DEF CallsInv, Unlike
  <1>. QED
    BY <1>4, <1>6, <1>7, <1>9, <1>11, <1>15

LEMMA GotoCalls ==
  ASSUME IngestionInv, NEW c \in Active, call[c].phase # "commit", UNCHANGED event,
         NEW phase \in {"count", "find", "activate", "validate", "item", "lock", "insert"}, Goto(c, phase),
         phase \in {"lock", "insert"} => \A row \in call[c].wrote : row.id # At(c).id,
         phase = "lock" => At(c).of # None
  PROVE  call' \in [Calls -> Call \union {None}] /\ CallsInv'
  <1> DEFINE q == [call[c] EXCEPT !.phase = phase]
  <1>1. call[c] \in Call
    BY CallType
  <1>2. /\ q \in Call /\ q.phase = phase /\ q.load = call[c].load
        /\ q.answers = call[c].answers /\ q.wrote = call[c].wrote
    BY <1>1 DEF Call
  <1>3. call' = [call EXCEPT ![c] = q]
    BY DEF Goto
  <1>. QED
    <2> HIDE DEF q
    <2>. QED BY <1>2, <1>3, Moves

\* An answer that writes nothing.
LEMMA PlainAnswer ==
  ASSUME IngestionInv, NEW c \in Active, NEW answer \in Answers, Answer(c, answer),
         call[c].phase \in {"item", "lock", "insert"}, UNCHANGED event, answer # "accepted",
         answer = "duplicate" => event[At(c).id] = At(c) \/ At(c) \in call[c].wrote,
         answer = "idempotency_conflict" =>
           \/ event[At(c).id] \notin {None, At(c)}
           \/ \E row \in call[c].wrote : row.id = At(c).id /\ row # At(c),
         answer = "already_corrected" =>
           \E e \in Events : event[e] # None /\ event[e].of = At(c).of
  PROVE  call' \in [Calls -> Call \union {None}] /\ CallsInv'
  <1>1. call[c] \in Call /\ call[c].wrote \in SUBSET Item
    BY CallType
  <1>2. [call[c] EXCEPT !.wrote = call[c].wrote] = call[c]
    BY <1>1 DEF Call
  <1>3. call' = [call EXCEPT ![c] = After(c, call[c].wrote, answer)]
    BY <1>1, <1>2 DEF Answer, After
  <1>. QED
    BY <1>1, <1>3, Answering

\* The verdict on a row that was found holds.
LEMMA VerdictAnswer ==
  ASSUME IngestionInv, NEW c \in Active, NEW row, Answer(c, Verdict(row, At(c))),
         call[c].phase \in {"item", "lock", "insert"}, UNCHANGED event,
         \/ row = event[At(c).id] /\ row # None
         \/ row \in call[c].wrote /\ row.id = At(c).id
  PROVE  call' \in [Calls -> Call \union {None}] /\ CallsInv'
  <1>1. Verdict(row, At(c)) \in Answers /\ Verdict(row, At(c)) \in {"duplicate", "idempotency_conflict"}
    BY DEF Verdict, Answers
  <1>2. /\ Verdict(row, At(c)) = "duplicate" => row = At(c)
        /\ Verdict(row, At(c)) = "idempotency_conflict" => row # At(c)
    BY DEF Verdict, SamePayload
  <1>. QED
    BY <1>1, <1>2, PlainAnswer

LEMMA InsertCalls ==
  ASSUME IngestionInv, NEW c \in Active, Insert(c)
  PROVE  call' \in [Calls -> Call \union {None}] /\ CallsInv'
  <1> DEFINE item == At(c)
             t == call[c]
  <1>1. t.phase = "insert" /\ Clashes(item, Uncommitted(c)) = {} /\ UNCHANGED event
    BY DEF Insert
  <1>2. /\ t \in Call /\ Consistent(t) /\ t.wrote \subseteq Item /\ t.answers \in Seq(Answers)
        /\ t.load.items \in Seq(Item) /\ Len(t.answers) \in Nat /\ Len(t.load.items) \in Nat
    BY CallType
  <1>3. Len(t.answers) < Len(t.load.items)
    BY <1>1, <1>2 DEF Consistent
  <1>4. item \in Item /\ item.id \in Events /\ item = t.load.items[Len(t.answers) + 1]
    BY <1>3, CallType DEF At, Item
  <1>5. CASE Clashes(item, Stored) = {} /\ Store(c)
    <2>1. \A row \in t.wrote : Unlike(item, row)
      <3>1. \A row \in t.wrote : row.id # item.id
        BY <1>1, <1>2, <1>4 DEF Consistent
      <3>2. item.of # None => t.wrote = {}
        <4>1. item.of # None => Len(t.load.items) = 1
          BY <1>2, <1>3, <1>4, CallType
        <4>2. item.of # None => t.answers = <<>>
          BY <1>2, <1>3, <4>1
        <4>. QED
          BY <1>2, <4>2 DEF Consistent
      <3>. QED
        BY <3>1, <3>2 DEF Unlike
    <2>2. \A row \in Stored \union Uncommitted(c) : Unlike(item, row)
      BY <1>1, <1>5 DEF Clashes, Unlike
    <2>3. t.wrote \union {item} \in SUBSET Item
      BY <1>2, <1>4
    <2>4. call' = [call EXCEPT ![c] = After(c, t.wrote \union {item}, "accepted")]
      BY <1>5 DEF Store, After
    <2>5. "accepted" \in Answers
      BY DEF Answers
    <2>. QED
      BY <1>1, <2>1, <2>2, <2>3, <2>4, <2>5, Answering
  <1>6. CASE \E row \in Stored : row.id = item.id /\ Answer(c, Verdict(row, item))
    <2>1. PICK row \in Stored : row.id = item.id /\ Answer(c, Verdict(row, item))
      BY <1>6
    <2>2. row = event[item.id] /\ row # None
      BY <2>1 DEF Stored, IngestionInv, CallsInv
    <2>. QED
      BY <1>1, <2>1, <2>2, VerdictAnswer
  <1>7. CASE /\ Clashes(item, Stored) # {} /\ \A row \in Stored : row.id # item.id
             /\ Answer(c, "already_corrected")
    <2>1. \E e \in Events : event[e] # None /\ event[e].of = item.of
      BY <1>7 DEF Clashes, Stored
    <2>2. "already_corrected" \in Answers
      BY DEF Answers
    <2>. QED
      BY <1>1, <1>7, <2>1, <2>2, PlainAnswer
  <1>. QED
    BY <1>5, <1>6, <1>7 DEF Insert

LEMMA LookCalls ==
  ASSUME IngestionInv, NEW c \in Active, Look(c) \/ LookUpCorrection(c)
  PROVE  call' \in [Calls -> Call \union {None}] /\ CallsInv'
  <1>1. call[c].phase = "item" /\ UNCHANGED event
    BY DEF Look, LookUpCorrection
  <1>2. CASE \E row \in Found(c, At(c).id) : Answer(c, Verdict(row, At(c)))
    <2>1. PICK row \in Found(c, At(c).id) : Answer(c, Verdict(row, At(c)))
      BY <1>2
    <2>2. \/ row = event[At(c).id] /\ row # None
          \/ row \in call[c].wrote /\ row.id = At(c).id
      BY <2>1 DEF Found
    <2>. QED
      BY <1>1, <2>1, <2>2, VerdictAnswer
  <1>3. CASE Answer(c, "rejected")
    BY <1>1, <1>3, PlainAnswer DEF Answers
  <1>4. CASE /\ Found(c, At(c).id) = {}
             /\ Goto(c, "insert") \/ (Goto(c, "lock") /\ At(c).of # None)
    <2>1. \A row \in call[c].wrote : row.id # At(c).id
      BY <1>4 DEF Found
    <2>. QED
      BY <1>1, <1>4, <2>1, GotoCalls
  <1>. QED
    BY <1>2, <1>3, <1>4 DEF Look, LookUpCorrection

LEMMA LockCorrectedCalls ==
  ASSUME IngestionInv, NEW c \in Active, LockCorrected(c)
  PROVE  call' \in [Calls -> Call \union {None}] /\ CallsInv'
  <1> DEFINE item == At(c)
             refusal == CASE event[item.of] = None -> "not_found"
                          [] item.of \in setting.redacted -> "properties_redacted"
                          [] Corrected(item) -> "already_corrected"
                          [] item.content \in Unknown -> "rejected"
                          [] OTHER -> None
             t == call[c]
  <1>1. t.phase = "lock" /\ UNCHANGED event /\ t \in Call /\ Consistent(t)
    BY CallType DEF LockCorrected
  <1>2. CASE refusal # None /\ Answer(c, refusal)
    <2>1. refusal \in {"not_found", "properties_redacted", "already_corrected", "rejected"}
      BY <1>2
    <2>2. refusal = "already_corrected" => Corrected(item)
      BY <1>2
    <2>. QED
      <3> HIDE DEF refusal
      <3>. QED BY <1>1, <1>2, <2>1, <2>2, PlainAnswer DEF Answers, Corrected
  <1>3. CASE refusal = None /\ call' = [call EXCEPT ![c].locks = {item.of}, ![c].phase = "insert"]
    <2> DEFINE q == [t EXCEPT !.locks = {item.of}, !.phase = "insert"]
    <2>1. item.of \in Events
      <3>1. Len(t.answers) < Len(t.load.items)
        <4>1. Len(t.answers) \in Nat /\ Len(t.load.items) \in Nat
          BY CallType
        <4>. QED
          BY <1>1, <4>1 DEF Consistent
      <3>2. item \in Item /\ item.of # None
        BY <1>1, <3>1, CallType DEF Consistent, At
      <3>. QED
        BY <3>2 DEF Item
    <2>2. /\ q \in Call /\ q.phase = "insert" /\ q.load = t.load
          /\ q.answers = t.answers /\ q.wrote = t.wrote
      BY <1>1, <2>1 DEF Call
    <2>3. \A row \in t.wrote : row.id # item.id
      BY <1>1 DEF Consistent, At
    <2>4. call' = [call EXCEPT ![c] = q]
      BY <1>3
    <2>. QED
      <3> HIDE DEF q
      <3>. QED BY <1>1, <2>2, <2>3, <2>4, Moves
  <1>. QED
    BY <1>2, <1>3 DEF LockCorrected

\* A statement that reads the clock.
LEMMA ClockCalls ==
  ASSUME IngestionInv, NEW c \in Active, call[c].phase # "commit", UNCHANGED event,
         NEW phase \in {"activate", "item"},
         End(c) \/ call' = [call EXCEPT ![c].at = now, ![c].phase = phase]
  PROVE  call' \in [Calls -> Call \union {None}] /\ CallsInv'
  <1> DEFINE q == [call[c] EXCEPT !.at = now, !.phase = phase]
  <1>1. call[c] \in Call /\ c \in Calls
    BY CallType
  <1>2. CASE End(c)
    BY <1>1, <1>2, CallEnds
  <1>3. CASE ~End(c)
    <2>1. call' = [call EXCEPT ![c] = q]
      BY <1>3
    <2>2. now \in Nat
      BY DEF IngestionInv, AccessInv, AccessTypeOK
    <2>3. /\ q \in Call /\ q.phase = phase /\ q.load = call[c].load
          /\ q.answers = call[c].answers /\ q.wrote = call[c].wrote
      BY <1>1, <2>2 DEF Call
    <2>. QED
      <3> HIDE DEF q
      <3>. QED BY <1>1, <2>1, <2>3, Moves
  <1>. QED
    BY <1>2, <1>3

LEMMA SendCalls ==
  ASSUME IngestionInv, NEW c \in Calls, NEW load \in Loads(setting), Send(c, load)
  PROVE  call' \in [Calls -> Call \union {None}] /\ CallsInv'
  <1> DEFINE q == [load |-> load, at |-> now, answers |-> <<>>, wrote |-> {}, locks |-> {},
                   phase |-> "prune"]
  <1>1. setting \in Settings /\ now \in Nat
    BY DEF IngestionInv, AccessInv, AccessTypeOK
  <1>2. load.items \in Seq(Item) /\ load.items # <<>>
    BY <1>1, IngestionAssumption DEF LoadDefinition
  <1>3. <<>> \in Seq(Answers)
    OBVIOUS
  <1>4. q \in Call
    <2>1. load \in UNION {Loads(s) : s \in Settings}
      BY <1>1
    <2>. QED
      BY <1>1, <1>3, <2>1 DEF Call
  <1>5. Consistent(q)
    <2>1. Len(load.items) \in Nat \ {0} /\ Len(<<>>) = 0
      BY <1>2
    <2>. QED
      BY <2>1 DEF Consistent
  <1>6. call' = [call EXCEPT ![c] = q] /\ UNCHANGED event /\ q.wrote = {}
    BY DEF Send
  <1>. QED
    <2> HIDE DEF q
    <2>. QED BY <1>4, <1>5, <1>6, CallGoesOn

\* Calls leave the requests of the dashboard as they are.
LEMMA ServeAccess ==
  ASSUME IngestionInv, NEW c \in Active, Serve(c) \/ Lose(c)
  PROVE  /\ UNCHANGED <<now, setting, role, key, request>>
         /\ referring' \in [Keys -> SUBSET Calls]
  <1>1. referring \in [Keys -> SUBSET Calls] /\ c \in Calls
    BY CallType DEF IngestionInv, AccessInv, AccessTypeOK
  <1>2. /\ UNCHANGED <<now, setting, role, key, request>>
        /\ UNCHANGED referring \/ Release(c) \/ Store(c)
    BY DEF Serve, Prune, Count, Find, Activate, Validate, Look, LookUpCorrection, LockCorrected, Insert,
           Commit, Lose, accessVars
  <1>3. Release(c) => referring' \in [Keys -> SUBSET Calls]
    BY <1>1 DEF Release
  <1>4. Store(c) => referring' \in [Keys -> SUBSET Calls]
    BY <1>1 DEF Store
  <1>. QED
    BY <1>1, <1>2, <1>3, <1>4

LEMMA ServeCalls ==
  ASSUME IngestionInv, NEW c \in Active, Serve(c) \/ Lose(c)
  PROVE  /\ call' \in [Calls -> Call \union {None}] /\ event' \in [Events -> Item \union {None}]
         /\ CallsInv'
  <1>1. c \in Calls /\ event \in [Events -> Item \union {None}]
    BY CallType DEF IngestionInv, IngestionTypeOK
  <1>2. CASE Prune(c)
    BY <1>1, <1>2, GotoCalls DEF Prune
  <1>3. CASE Count(c)
    BY <1>1, <1>3, GotoCalls, CallEnds DEF Count
  <1>4. CASE Find(c)
    BY <1>1, <1>4, ClockCalls DEF Find
  <1>5. CASE Activate(c)
    BY <1>1, <1>5, GotoCalls, CallEnds DEF Activate
  <1>11. CASE Validate(c)
    BY <1>1, <1>11, ClockCalls DEF Validate
  <1>6. CASE Look(c) \/ LookUpCorrection(c)
    BY <1>1, <1>6, LookCalls DEF Look, LookUpCorrection
  <1>7. CASE LockCorrected(c)
    BY <1>1, <1>7, LockCorrectedCalls DEF LockCorrected
  <1>8. CASE Insert(c)
    BY <1>1, <1>8, InsertCalls DEF Insert
  <1>9. CASE Commit(c)
    BY <1>9, CommitCalls
  <1>10. CASE Lose(c)
    BY <1>1, <1>10, CallEnds DEF Lose
  <1>. QED
    BY <1>2, <1>3, <1>4, <1>5, <1>6, <1>7, <1>8, <1>9, <1>10, <1>11 DEF Serve

\* One more in a window of a key.
Plus(f, k, w) == [f EXCEPT ![k][w] = @ + 1]

LEMMA PlusOne ==
  ASSUME NEW f \in [Keys -> [Windows -> Nat]], NEW k \in Keys, NEW w
  PROVE  /\ Plus(f, k, w) \in [Keys -> [Windows -> Nat]]
         /\ \A l \in Keys, v \in Windows :
              Plus(f, k, w)[l][v] = IF l = k /\ v = w THEN f[l][v] + 1 ELSE f[l][v]
  <1> DEFINE row == [f[k] EXCEPT ![w] = f[k][w] + 1]
  <1>1. f[k] \in [Windows -> Nat] /\ Plus(f, k, w) = [f EXCEPT ![k] = row]
    BY DEF Plus
  <1>2. row \in [Windows -> Nat] /\ \A v \in Windows : row[v] = IF v = w THEN f[k][v] + 1 ELSE f[k][v]
    <2>1. \A v \in Windows : f[k][v] \in Nat
      BY <1>1
    <2>2. \A v \in Windows : row[v] = IF v = w THEN f[k][v] + 1 ELSE f[k][v]
      BY <1>1
    <2>3. DOMAIN row = Windows /\ \A v \in Windows : row[v] \in Nat
      BY <1>1, <2>1, <2>2
    <2>. QED
      BY <2>2, <2>3
  <1>. QED
    <2> HIDE DEF row
    <2>. QED BY <1>1, <1>2

LEMMA WindowTypes ==
  ASSUME IngestionInv, [Next]_vars
  PROVE  window' \in [Keys -> [Windows -> Nat]] /\ served' \in [Keys -> [Windows -> Nat]]
  <1>1. window \in [Keys -> [Windows -> Nat]] /\ served \in [Keys -> [Windows -> Nat]]
    BY DEF IngestionInv, IngestionTypeOK
  <1>2. ASSUME NEW c \in Calls, Prune(c)
        PROVE  UNCHANGED served /\ window' \in [Keys -> [Windows -> Nat]]
    BY <1>1, <1>2 DEF Prune
  <1>3. ASSUME NEW c \in Active, Count(c)
        PROVE  window' \in [Keys -> [Windows -> Nat]] /\ served' \in [Keys -> [Windows -> Nat]]
    <2>1. CASE UNCHANGED <<window, served>>
      BY <1>1, <2>1
    <2>2. CASE ~UNCHANGED <<window, served>>
      <3> DEFINE k == KeyOf(c)
                 w == call[c].at \div Window
      <3>1. window' = Plus(window, k, w) /\ served' = Plus(served, k, w)
        BY <1>3, <2>2 DEF Count, Plus
      <3>2. k \in Keys
        BY <1>3, CallType DEF KeyOf
      <3>. QED
        <4> HIDE DEF k, w
        <4>. QED BY <1>1, <3>1, <3>2, PlusOne
    <2>. QED
      BY <2>1, <2>2
  <1>4. CASE UNCHANGED <<window, served>>
    BY <1>1, <1>4
  <1>5. ASSUME NEW c \in Calls, Serve(c)
        PROVE  c \in Active /\ (Prune(c) \/ Count(c) \/ UNCHANGED <<window, served>>)
    BY <1>5 DEF Serve, Find, Activate, Validate, Look, LookUpCorrection, LockCorrected, Insert, Commit
  <1>. QED
    BY <1>1, <1>2, <1>3, <1>4, <1>5 DEF Next, Manage, Tick, Send, Lose, vars

LEMMA IngestionInitInv ==
  ASSUME Init
  PROVE  IngestionInv /\ RateInv /\ KeysInv
  <1>1. AccessInv
    BY AccessInitInv DEF Init
  <1>2. setting \in Settings /\ Active = {}
    BY DEF Init, AccessInit, Active
  <1>3. IngestionTypeOK
    <2>1. event \in [Events -> Item \union {None}] /\ call \in [Calls -> Call \union {None}]
      BY <1>2, IngestionAssumption DEF Init
    <2>2. window \in [Keys -> [Windows -> Nat]] /\ served \in [Keys -> [Windows -> Nat]]
      BY DEF Init
    <2>. QED
      BY <1>1, <2>1, <2>2 DEF IngestionTypeOK, AccessInv
  <1>4. CallsInv
    <2>1. \A e \in Events : event[e] # None => event[e].id = e
      BY <1>2, IngestionAssumption DEF Init
    <2>2. CorrectedOnce
      BY <1>2, IngestionAssumption DEF Init, CorrectedOnce, Unlike
    <2>. QED
      BY <1>2, <2>1, <2>2 DEF CallsInv
  <1>5. RateInv
    <2>1. setting.limit \in Nat \ {0}
      BY <1>2, IngestionAssumption
    <2>. QED
      BY <1>2, <2>1 DEF RateInv, Init
  <1>6. KeysInv
    BY <1>2 DEF KeysInv, Init, AccessInit, Open
  <1>. QED
    BY <1>1, <1>3, <1>4, <1>5, <1>6 DEF IngestionInv

LEMMA IngestionNextInv ==
  ASSUME IngestionInv, [Next]_vars
  PROVE  IngestionInv'
  <1> SUFFICES /\ AccessInv' /\ CallsInv'
               /\ call' \in [Calls -> Call \union {None}] /\ event' \in [Events -> Item \union {None}]
    BY WindowTypes DEF IngestionInv, IngestionTypeOK, AccessInv
  <1>1. /\ call \in [Calls -> Call \union {None}] /\ event \in [Events -> Item \union {None}]
        /\ CallsInv /\ AccessInv /\ now \in Nat /\ referring \in [Keys -> SUBSET Calls]
    BY DEF IngestionInv, IngestionTypeOK, AccessInv, AccessTypeOK
  <1>2. UNCHANGED <<event, call>> => CallsInv'
    BY <1>1 DEF CallsInv, CorrectedOnce, Active, Consistent, AnswerHolds
  <1>3. CASE Manage
    BY <1>1, <1>2, <1>3, AccessNextInv DEF Manage
  <1>4. CASE Tick
    BY <1>1, <1>2, <1>4, AccessUnchanged DEF Tick
  <1>5. ASSUME NEW c \in Calls, NEW load \in Loads(setting), Send(c, load)
        PROVE  /\ AccessInv' /\ CallsInv'
               /\ call' \in [Calls -> Call \union {None}] /\ event' \in [Events -> Item \union {None}]
    <2>1. UNCHANGED accessVars /\ UNCHANGED event
      BY <1>5 DEF Send
    <2>. QED
      BY <1>1, <1>5, <2>1, SendCalls, AccessUnchanged DEF accessVars
  <1>6. ASSUME NEW c \in Active, Serve(c) \/ Lose(c)
        PROVE  /\ AccessInv' /\ CallsInv'
               /\ call' \in [Calls -> Call \union {None}] /\ event' \in [Events -> Item \union {None}]
    BY <1>1, <1>6, ServeCalls, ServeAccess, AccessUnchanged
  <1>7. CASE UNCHANGED vars
    BY <1>1, <1>2, <1>7, AccessUnchanged DEF vars, accessVars
  <1>. QED
    BY <1>3, <1>4, <1>5, <1>6, <1>7 DEF Next, Serve

-----------------------------------------------------------------------------
(* The rate limit *)

\* The clock does not go back.
LEMMA NowStep ==
  ASSUME IngestionInv, [Next]_vars
  PROVE  now' \in Nat /\ now \in Nat /\ now <= now'
  <1>1. now \in Nat
    BY DEF IngestionInv, AccessInv, AccessTypeOK
  <1>2. ASSUME AccessNext
        PROVE  now' = now
    BY <1>2 DEF AccessNext, CreateOrganization, Receive, Advance, LockActor, LockTarget,
                ReadOwners, LockOwner, CountOwners, LockKey, Write, Collide, Abort
  <1>3. ASSUME NEW c \in Calls, Serve(c)
        PROVE  now' = now
    BY <1>3, ServeAccess DEF Serve
  <1>4. ASSUME NEW c \in Active, Lose(c)
        PROVE  now' = now
    BY <1>4 DEF Lose
  <1>5. now' = now \/ now' = now + 1
    BY <1>2, <1>3, <1>4 DEF Next, Manage, Tick, Send, vars, accessVars
  <1>. QED
    BY <1>1, <1>5

LEMMA WindowStep ==
  ASSUME [Next]_vars
  PROVE  \/ UNCHANGED <<window, served>>
         \/ \E c \in Active : Prune(c) \/ (Count(c) /\ ~UNCHANGED <<window, served>>)
  <1>1. ASSUME NEW c \in Calls, Serve(c)
        PROVE  c \in Active /\ (Prune(c) \/ Count(c) \/ UNCHANGED <<window, served>>)
    BY <1>1 DEF Serve, Find, Activate, Validate, Look, LookUpCorrection, LockCorrected, Insert, Commit
  <1>. QED
    BY <1>1 DEF Next, Manage, Tick, Send, Lose, vars

\* Whoever is to count after a step of a call was so before, with the same clock value.
LEMMA ServeAt ==
  ASSUME IngestionInv, NEW o \in Active, Serve(o) \/ Lose(o),
         NEW c \in Active', call'[c].phase \in {"prune", "count"}
  PROVE  c \in Active /\ call[c].phase \in {"prune", "count"} /\ call'[c].at = call[c].at
  <1>1. /\ call \in [Calls -> Call \union {None}] /\ o \in Calls /\ c \in Calls
        /\ call'[c] # None /\ call[o] \in Call
    BY CallType DEF IngestionInv, IngestionTypeOK, Active
  <1>2. c # o => call'[c] = call[c]
    BY <1>1 DEF Serve, Lose, Prune, Count, Find, Activate, Validate, Look, LookUpCorrection, LockCorrected,
                Insert, Commit, Store, End, Goto, Answer
  <1>3. CASE c = o
    <2>1. ~End(o)
      BY <1>1, <1>3 DEF End
    <2>2. ASSUME NEW phase, Goto(o, phase)
          PROVE  call'[o].phase = phase /\ call'[o].at = call[o].at
      BY <1>1, <2>2 DEF Goto, Call
    <2>3. ~Lose(o) /\ ~Commit(o)
      BY <2>1 DEF Lose, Commit
    <2>4. ~Find(o) /\ ~Activate(o) /\ ~Validate(o)
      BY <1>1, <1>3, <2>1, <2>2 DEF Find, Activate, Validate, Call
    <2>5. ASSUME NEW answer, Answer(o, answer) PROVE FALSE
      BY <1>1, <1>3, <2>5 DEF Answer, Answered, Call
    <2>6. ~Look(o) /\ ~LookUpCorrection(o)
      BY <1>3, <2>2, <2>5 DEF Look, LookUpCorrection
    <2>7. ~LockCorrected(o)
      <3>1. ~(call' = [call EXCEPT ![o].locks = {At(o).of}, ![o].phase = "insert"])
        BY <1>1, <1>3 DEF Call
      <3>. QED
        BY <2>5, <3>1 DEF LockCorrected
    <2>8. ~Insert(o)
      <3>1. ~Store(o)
        BY <1>1, <1>3 DEF Store, Answered, Call
      <3>. QED
        BY <2>5, <3>1 DEF Insert
    <2>9. Prune(o) \/ Count(o)
      BY <2>3, <2>4, <2>6, <2>7, <2>8 DEF Serve
    <2>. QED
      BY <1>1, <1>3, <2>1, <2>2, <2>9 DEF Prune, Count, Active
  <1>4. CASE c # o
    BY <1>1, <1>2, <1>4 DEF Active
  <1>. QED
    BY <1>3, <1>4

LEMMA RateNextInv ==
  ASSUME IngestionInv, RateInv, [Next]_vars
  PROVE  RateInv'
  <1>1. /\ now \in Nat /\ setting.limit \in Nat /\ Window \in Nat \ {0} /\ setting' = setting
        /\ window \in [Keys -> [Windows -> Nat]] /\ served \in [Keys -> [Windows -> Nat]]
        /\ call \in [Calls -> Call \union {None}]
    <2>1. setting \in Settings
      BY DEF IngestionInv, AccessInv, AccessTypeOK
    <2>2. setting' = setting
      BY DEF Next, Manage, Tick, Send, Serve, Lose, Prune, Count, Find, Activate, Validate,
             Look, LookUpCorrection, LockCorrected, Insert, Commit, vars, accessVars, AccessNext,
             CreateOrganization, Receive, Advance, LockActor, LockTarget, ReadOwners, LockOwner,
             CountOwners, LockKey, Write, Collide, Abort
    <2>. QED
      BY <2>1, <2>2, IngestionAssumption, ConstantsAssumption
         DEF IngestionInv, IngestionTypeOK, AccessInv, AccessTypeOK
  <1>2. ASSUME NEW c \in Active', call'[c].phase \in {"prune", "count"}
        PROVE  call'[c].at <= now'
    <2>1. CASE UNCHANGED call
      <3>1. c \in Active /\ call[c].phase \in {"prune", "count"} /\ call[c].at \in Nat
        BY <1>2, <2>1, CallType DEF Active, Call
      <3>2. now' \in Nat /\ now <= now'
        BY NowStep
      <3>. QED
        BY <1>1, <2>1, <3>1, <3>2 DEF RateInv
    <2>2. ASSUME NEW o \in Calls, NEW load \in Loads(setting), Send(o, load)
          PROVE  call'[c].at <= now'
      <3>1. now' = now
        BY <2>2 DEF Send, accessVars
      <3>2. CASE c = o
        BY <1>1, <2>2, <3>1, <3>2 DEF Send
      <3>3. CASE c # o
        <4>1. c \in Active /\ call'[c] = call[c]
          BY <1>1, <1>2, <2>2, <3>3 DEF Send, Active
        <4>. QED
          BY <1>2, <3>1, <4>1 DEF RateInv
      <3>. QED
        BY <3>2, <3>3
    <2>3. ASSUME NEW o \in Active, Serve(o) \/ Lose(o)
          PROVE  call'[c].at <= now'
      <3>1. now' = now
        BY <2>3, ServeAccess
      <3>2. c \in Active /\ call[c].phase \in {"prune", "count"} /\ call'[c].at = call[c].at
        BY <1>2, <2>3, ServeAt
      <3>. QED
        BY <1>2, <3>1, <3>2 DEF RateInv
    <2>. QED
      BY <2>1, <2>2, <2>3 DEF Next, Manage, Tick, Serve, vars
  <1>3. ASSUME NEW k \in Keys, NEW w \in Windows
        PROVE  /\ window'[k][w] <= setting'.limit
               /\ served'[k][w] <= window'[k][w] \/ (w + 2) * Window <= now'
    <2>1. /\ window[k][w] <= setting.limit
          /\ served[k][w] <= window[k][w] \/ (w + 2) * Window <= now
          /\ window[k][w] \in Nat /\ served[k][w] \in Nat /\ w \in Nat
          /\ (w + 2) * Window \in Nat
      <3>1. w \in Nat
        BY <1>1 DEF Windows
      <3>2. (w + 2) * Window \in Nat
        BY <1>1, <3>1
      <3>. QED
        BY <1>1, <3>1, <3>2 DEF RateInv
    <2>2. now' \in Nat /\ now <= now'
      BY <1>1, NowStep
    <2>3. CASE UNCHANGED <<window, served>>
      <3> DEFINE end == (w + 2) * Window
      <3>. QED
        <4> HIDE DEF end
        <4>. QED BY <1>1, <2>1, <2>2, <2>3
    <2>4. ASSUME NEW c \in Active, Prune(c)
          PROVE  /\ window'[k][w] <= setting.limit
                 /\ served'[k][w] <= window'[k][w] \/ (w + 2) * Window <= now'
      <3>1. served' = served /\ call[c].at <= now /\ call[c].at \in Nat
        BY <2>4, CallType DEF Prune, RateInv, Call
      <3>2. window'[k][w] = window[k][w] \/ (window'[k][w] = 0 /\ Expired(w, call[c].at))
        BY <2>4 DEF Prune
      <3>3. window'[k][w] = window[k][w] \/ (window'[k][w] = 0 /\ (w + 2) * Window <= now')
        <4>1. Expired(w, call[c].at) => (w + 2) * Window <= now'
          <5> DEFINE end == (w + 2) * Window
          <5>1. end \in Nat /\ (Expired(w, call[c].at) => end <= call[c].at)
            BY <2>1 DEF Expired
          <5>2. Expired(w, call[c].at) => end <= now'
            <6> HIDE DEF end
            <6>. QED BY <1>1, <2>2, <3>1, <5>1
          <5>. QED
            BY <5>2
        <4>. QED
          BY <3>2, <4>1
      <3>4. CASE window'[k][w] = window[k][w]
        BY <1>1, <2>1, <2>2, <3>1, <3>4
      <3>5. CASE window'[k][w] = 0 /\ (w + 2) * Window <= now'
        BY <1>1, <2>1, <3>1, <3>5
      <3>. QED
        BY <3>3, <3>4, <3>5
    <2>5. ASSUME NEW c \in Active, Count(c), ~UNCHANGED <<window, served>>
          PROVE  /\ window'[k][w] <= setting.limit
                 /\ served'[k][w] <= window'[k][w] \/ (w + 2) * Window <= now'
      <3> DEFINE l == KeyOf(c)
                 v == call[c].at \div Window
      <3>1. /\ window' = Plus(window, l, v) /\ served' = Plus(served, l, v)
            /\ window[l][v] < setting.limit
        BY <2>5 DEF Count, Plus
      <3>2. l \in Keys /\ call[c].at \in Nat /\ call[c].phase = "count"
        BY <2>5, CallType DEF KeyOf, Call, Count
      <3>3. /\ window'[k][w] = IF k = l /\ w = v THEN window[k][w] + 1 ELSE window[k][w]
            /\ served'[k][w] = IF k = l /\ w = v THEN served[k][w] + 1 ELSE served[k][w]
        <4> HIDE DEF l, v
        <4>. QED BY <1>1, <3>1, <3>2, PlusOne
      <3>4. CASE k = l /\ w = v
        <4> DEFINE end == (w + 2) * Window
        <4>1. window[k][w] < setting.limit
          BY <3>1, <3>4
        <4>. QED
          <5> HIDE DEF l, v, end
          <5>. QED BY <1>1, <2>1, <2>2, <3>3, <3>4, <4>1
      <3>5. CASE ~(k = l /\ w = v)
        <4> DEFINE end == (w + 2) * Window
        <4>. QED
          <5> HIDE DEF l, v, end
          <5>. QED BY <1>1, <2>1, <2>2, <3>3, <3>5
      <3>. QED
        BY <3>4, <3>5
    <2>. QED
      BY <1>1, <2>3, <2>4, <2>5, WindowStep
  <1>. QED
    BY <1>2, <1>3 DEF RateInv

-----------------------------------------------------------------------------
(* Steps that are promised something about *)

LEMMA AuthorityStep ==
  ASSUME IngestionInv, [Next]_vars
  PROVE  /\ \A u \in Users : role'[u] # role[u] /\ Owners # {} => RoleChangeAllowed(u)
         /\ key' # key => KeyChangeAllowed
  <1>1. CASE Manage
    BY <1>1, Authorized DEF Manage, IngestionInv
  <1>2. CASE ~Manage
    <2>1. UNCHANGED <<role, key>>
      BY <1>2, ServeAccess DEF Next, Tick, Send, Serve, vars, accessVars
    <2>. QED
      BY <2>1
  <1>. QED
    BY <1>1, <1>2

\* What one step of a call does to the others, and which step ends the authentication.
LEMMA CallSteps ==
  ASSUME IngestionInv, [Next]_vars, NEW c \in Active
  PROVE  \/ call'[c] = call[c]
         \/ Serve(c) \/ Lose(c)
  <1>1. call \in [Calls -> Call \union {None}]
    BY DEF IngestionInv, IngestionTypeOK
  <1>2. ASSUME NEW o \in Active, o # c, Serve(o) \/ Lose(o)
        PROVE  call'[c] = call[c]
    BY <1>1, <1>2 DEF Serve, Lose, Prune, Count, Find, Activate, Validate, Look, LookUpCorrection,
       LockCorrected, Insert, Commit, Store, End, Goto, Answer, Active
  <1>3. ASSUME NEW o \in Calls, NEW load \in Loads(setting), Send(o, load)
        PROVE  call'[c] = call[c]
    BY <1>1, <1>3 DEF Send, Active
  <1>. QED
    BY <1>2, <1>3 DEF Next, Manage, Tick, Serve, vars

\* A statement of a request changes that request only, and locks no key that is referred to.
KeyLocksFree(r) ==
  /\ \A o \in Requests \ {r} : request'[o] = request[o]
  /\ request'[r] # None =>
       \A k \in request'[r].locks \intersect Keys :
         referring[k] = {} \/ (r \in Open /\ k \in request[r].locks)

LEMMA AdvanceLocks ==
  ASSUME AccessInv, NEW r \in Open, Advance(r)
  PROVE  KeyLocksFree(r)
  <1> DEFINE t == request[r]
  <1>1. /\ request \in [Requests -> Request \union {None}] /\ r \in Requests
        /\ t \in Request /\ t.ask \in Ask /\ t.ask.actor \in Users
    BY RequestType DEF AccessInv, AccessTypeOK
  <1>2. Users \intersect Keys = {}
    BY ConstantsAssumption
  <1>3. CASE Finish(r)
    BY <1>1, <1>3 DEF Finish, KeyLocksFree
  <1>4. CASE LockActor(r) /\ ~Finish(r)
    <2>1. request'[r].locks = Row(t.ask.actor) /\ \A o \in Requests \ {r} : request'[o] = request[o]
      BY <1>1, <1>4 DEF LockActor, Request
    <2>. QED
      BY <1>1, <1>2, <2>1 DEF Row, KeyLocksFree
  <1>5. CASE LockTarget(r) /\ ~Finish(r)
    <2>1. t.ask.user \in Users
      BY <1>1, <1>5, RequestType DEF LockTarget, Knows, Ask
    <2>2. request'[r].locks = t.locks \union {t.ask.user} /\ \A o \in Requests \ {r} : request'[o] = request[o]
      BY <1>1, <1>5 DEF LockTarget, Take, Request
    <2>. QED
      BY <1>1, <1>2, <2>1, <2>2 DEF KeyLocksFree
  <1>6. CASE ReadOwners(r) \/ (CountOwners(r) /\ ~Finish(r))
    <2>1. request'[r].locks = t.locks /\ \A o \in Requests \ {r} : request'[o] = request[o]
      BY <1>1, <1>6 DEF ReadOwners, CountOwners, Request
    <2>. QED
      BY <1>1, <2>1 DEF KeyLocksFree
  <1>7. ASSUME NEW u \in Users, LockOwner(r, u)
        PROVE  KeyLocksFree(r)
    <2>1. request'[r].locks = t.locks \union Row(u) /\ \A o \in Requests \ {r} : request'[o] = request[o]
      BY <1>1, <1>7 DEF LockOwner, Request
    <2>. QED
      BY <1>1, <1>2, <2>1 DEF Row, KeyLocksFree
  <1>8. CASE LockKey(r) /\ ~Finish(r)
    <2>1. t.ask.key \in Keys /\ referring[t.ask.key] = {}
      BY <1>1, <1>8, RequestType DEF LockKey, Knows, Ask, Free
    <2>2. request'[r].locks = t.locks \union {t.ask.key} /\ \A o \in Requests \ {r} : request'[o] = request[o]
      BY <1>1, <1>8 DEF LockKey, Take, Request
    <2>. QED
      BY <1>1, <2>1, <2>2 DEF KeyLocksFree
  <1>9. CASE Write(r)
    BY <1>3, <1>9 DEF Write
  <1>. QED
    BY <1>3, <1>4, <1>5, <1>6, <1>7, <1>8, <1>9 DEF Advance

\* Requests of the dashboard leave what is known of keys as it is.
LEMMA KeysAfterAccess ==
  ASSUME IngestionInv, KeysInv, Manage
  PROVE  KeysInv'
  <1>1. /\ request \in [Requests -> Request \union {None}] /\ AccessInv
        /\ UNCHANGED <<call, referring>>
    BY DEF IngestionInv, AccessInv, AccessTypeOK, Manage, AccessNext, CreateOrganization, Receive,
           Advance, LockActor, LockTarget, ReadOwners, LockOwner, CountOwners, LockKey, Write,
           Collide, Abort
  <1>2. \A c \in Active' : call'[c].wrote # {} => c \in referring'[KeyOf(c)']
    BY <1>1 DEF KeysInv, Active, KeyOf
  <1>3. ASSUME NEW r \in Requests, KeyLocksFree(r)
        PROVE  \A o \in Open' : \A k \in request'[o].locks \intersect Keys : referring[k] = {}
    BY <1>3 DEF KeyLocksFree, KeysInv, Open
  <1>4. ASSUME NEW u \in Users, CreateOrganization(u)
        PROVE  \A o \in Open' : \A k \in request'[o].locks \intersect Keys : referring[k] = {}
    BY <1>4 DEF CreateOrganization, KeysInv, Open
  <1>5. ASSUME NEW r \in Requests, NEW ask \in setting.asks, Receive(r, ask)
        PROVE  KeyLocksFree(r)
    BY <1>1, <1>5 DEF Receive, KeyLocksFree
  <1>6. ASSUME NEW r \in Requests, Advance(r)
        PROVE  KeyLocksFree(r)
    BY <1>1, <1>6, AdvanceLocks DEF Advance
  <1>7. ASSUME NEW r \in Open, Collide(r) \/ Abort(r)
        PROVE  r \in Requests /\ KeyLocksFree(r)
    <2>1. r \in Requests /\ request[r] \in Request
      BY <1>1, RequestType
    <2>2. Finish(r) \/ request' = [request EXCEPT ![r].attempt = @ + 1, ![r].phase = "actor",
                                                 ![r].found = None, ![r].locks = {}]
      BY <1>7 DEF Collide, Abort
    <2>3. CASE Finish(r)
      BY <1>1, <2>1, <2>3 DEF Finish, KeyLocksFree
    <2>4. CASE ~Finish(r)
      <3>1. request'[r].locks = {} /\ \A o \in Requests \ {r} : request'[o] = request[o]
        BY <1>1, <2>1, <2>2, <2>4 DEF Request
      <3>. QED
        BY <2>1, <3>1 DEF KeyLocksFree
    <2>. QED
      BY <2>3, <2>4
  <1>8. \A o \in Open' : \A k \in request'[o].locks \intersect Keys : referring[k] = {}
    BY <1>3, <1>4, <1>5, <1>6, <1>7 DEF Manage, AccessNext
  <1>. QED
    BY <1>1, <1>2, <1>8 DEF KeysInv

\* What a step of a call does to what it has written and to the references to its key.
LEMMA ServeWrote ==
  ASSUME IngestionInv, NEW c \in Active, Serve(c) \/ Lose(c)
  PROVE  /\ \A o \in Calls \ {c} : call'[o] = call[o]
         /\ \/ End(c) /\ Release(c)
            \/ End(c) /\ UNCHANGED referring
            \/ Store(c) /\ HeldBy(KeyOf(c)) = {}
            \/ /\ call'[c].wrote = call[c].wrote /\ call'[c].load = call[c].load
               /\ UNCHANGED referring
  <1>1. /\ call \in [Calls -> Call \union {None}] /\ c \in Calls /\ call[c] \in Call
    BY CallType DEF IngestionInv, IngestionTypeOK
  <1> DEFINE Keeps == /\ call'[c].wrote = call[c].wrote /\ call'[c].load = call[c].load
                      /\ \A o \in Calls \ {c} : call'[o] = call[o]
  <1>2. ASSUME NEW phase, Goto(c, phase) PROVE Keeps
    BY <1>1, <1>2 DEF Goto, Call
  <1>3. ASSUME NEW answer, Answer(c, answer) PROVE Keeps
    BY <1>1, <1>3 DEF Answer, Call
  <1>4. End(c) \/ Store(c) => \A o \in Calls \ {c} : call'[o] = call[o]
    BY <1>1 DEF End, Store
  <1>5. CASE Prune(c) \/ Count(c)
    <2>1. Keeps \/ End(c)
      <3> HIDE DEF Keeps
      <3>. QED BY <1>2, <1>5 DEF Prune, Count
    <2>. QED
      BY <1>4, <1>5, <2>1 DEF Prune, Count, accessVars
  <1>6. CASE Find(c) \/ Activate(c) \/ Validate(c)
    <2>1. /\ call' = [call EXCEPT ![c].at = now, ![c].phase = "activate"] => Keeps
          /\ call' = [call EXCEPT ![c].at = now, ![c].phase = "item"] => Keeps
      BY <1>1 DEF Call
    <2>2. Keeps \/ End(c)
      <3> HIDE DEF Keeps
      <3>. QED BY <1>2, <1>6, <2>1 DEF Find, Activate, Validate
    <2>. QED
      BY <1>4, <1>6, <2>2 DEF Find, Activate, Validate, accessVars
  <1>7. CASE Look(c) \/ LookUpCorrection(c) \/ LockCorrected(c)
    <2>1. call' = [call EXCEPT ![c].locks = {At(c).of}, ![c].phase = "insert"] => Keeps
      BY <1>1 DEF Call
    <2>2. Keeps
      <3> HIDE DEF Keeps
      <3>. QED BY <1>2, <1>3, <1>7, <2>1 DEF Look, LookUpCorrection, LockCorrected
    <2>. QED
      BY <1>7, <2>2 DEF Look, LookUpCorrection, LockCorrected, accessVars
  <1>8. CASE Insert(c)
    <2>1. (Keeps /\ UNCHANGED referring) \/ (Store(c) /\ HeldBy(KeyOf(c)) = {})
      <3> HIDE DEF Keeps
      <3>. QED BY <1>3, <1>8 DEF Insert
    <2>. QED
      BY <1>4, <2>1
  <1>9. CASE Commit(c) \/ Lose(c)
    BY <1>4, <1>9 DEF Commit, Lose
  <1>. QED
    BY <1>5, <1>6, <1>7, <1>8, <1>9 DEF Serve

\* A call refers to its key from its first event to the end of its transaction.
LEMMA KeysAfterServe ==
  ASSUME IngestionInv, KeysInv, NEW c \in Active, Serve(c) \/ Lose(c)
  PROVE  KeysInv'
  <1>1. /\ call \in [Calls -> Call \union {None}] /\ c \in Calls /\ call[c] \in Call
        /\ referring \in [Keys -> SUBSET Calls] /\ KeyOf(c) \in Keys
        /\ \A o \in Active : KeyOf(o) \in Keys
    BY CallType DEF IngestionInv, IngestionTypeOK, AccessInv, AccessTypeOK, KeyOf
  <1>2. request' = request /\ \A o \in Calls \ {c} : call'[o] = call[o]
    BY ServeAccess, ServeWrote
  <1>3. CASE End(c) /\ (Release(c) \/ UNCHANGED referring)
    <2>1. call'[c] = None
      BY <1>1, <1>3 DEF End
    <2>2. \A k \in Keys : referring'[k] \subseteq referring[k] /\ referring[k] \ {c} \subseteq referring'[k]
      BY <1>1, <1>3 DEF Release
    <2>3. ASSUME NEW o \in Active', call'[o].wrote # {}
          PROVE  o \in referring'[KeyOf(o)']
      <3>1. o # c /\ o \in Active /\ call'[o] = call[o]
        BY <1>2, <2>1, <2>3 DEF Active
      <3>. QED
        BY <1>1, <2>2, <2>3, <3>1 DEF KeysInv, KeyOf
    <2>4. \A r \in Open' : \A k \in request'[r].locks \intersect Keys : referring'[k] = {}
      BY <1>2, <2>2 DEF KeysInv, Open
    <2>. QED
      BY <2>3, <2>4 DEF KeysInv
  <1>4. CASE Store(c) /\ HeldBy(KeyOf(c)) = {}
    <2>1. call'[c].load = call[c].load
      BY <1>1, <1>4 DEF Store, Call
    <2>2. \A k \in Keys : referring'[k] = IF k = KeyOf(c) THEN referring[k] \union {c} ELSE referring[k]
      BY <1>1, <1>4 DEF Store
    <2>3. ASSUME NEW o \in Active', call'[o].wrote # {}
          PROVE  o \in referring'[KeyOf(o)']
      <3>1. CASE o = c
        BY <1>1, <2>1, <2>2, <3>1 DEF KeyOf
      <3>2. CASE o # c
        <4>1. o \in Active /\ call'[o].wrote = call[o].wrote /\ KeyOf(o)' = KeyOf(o)
          BY <1>2, <2>3, <3>2 DEF Active, KeyOf
        <4>. QED
          BY <1>1, <2>2, <2>3, <4>1 DEF KeysInv
      <3>. QED
        BY <3>1, <3>2
    <2>4. ASSUME NEW r \in Open', NEW k \in request'[r].locks \intersect Keys
          PROVE  referring'[k] = {}
      <3>1. r \in Open /\ k \in request[r].locks /\ k # KeyOf(c)
        BY <1>2, <1>4, <2>4 DEF Open, HeldBy
      <3>. QED
        BY <2>2, <3>1 DEF KeysInv
    <2>. QED
      BY <2>3, <2>4 DEF KeysInv
  <1>5. CASE /\ call'[c].wrote = call[c].wrote /\ call'[c].load = call[c].load
             /\ UNCHANGED referring
    <2>1. ASSUME NEW o \in Active', call'[o].wrote # {}
          PROVE  o \in referring'[KeyOf(o)']
      <3>1. o \in Active /\ call'[o].wrote = call[o].wrote /\ KeyOf(o)' = KeyOf(o)
        BY <1>2, <1>5, <2>1 DEF Active, KeyOf
      <3>. QED
        BY <1>5, <2>1, <3>1 DEF KeysInv
    <2>2. \A r \in Open' : \A k \in request'[r].locks \intersect Keys : referring'[k] = {}
      BY <1>2, <1>5 DEF KeysInv, Open
    <2>. QED
      BY <2>1, <2>2 DEF KeysInv
  <1>. QED
    BY <1>3, <1>4, <1>5, ServeWrote

LEMMA KeysNextInv ==
  ASSUME IngestionInv, KeysInv, [Next]_vars
  PROVE  KeysInv'
  <1>1. CASE UNCHANGED <<request, referring, call>>
    BY <1>1 DEF KeysInv, Active, Open, KeyOf
  <1>2. ASSUME NEW c \in Calls, NEW load \in Loads(setting), Send(c, load)
        PROVE  KeysInv'
    <2>1. /\ call \in [Calls -> Call \union {None}] /\ UNCHANGED <<request, referring>>
      BY <1>2 DEF IngestionInv, IngestionTypeOK, Send, accessVars
    <2>2. call'[c].wrote = {} /\ \A o \in Calls \ {c} : call'[o] = call[o]
      BY <1>2, <2>1 DEF Send
    <2>3. ASSUME NEW o \in Active', call'[o].wrote # {}
          PROVE  o \in Active /\ call'[o] = call[o]
      BY <2>2, <2>3 DEF Active
    <2>. QED
      BY <2>1, <2>3 DEF KeysInv, Open, KeyOf
  <1>. QED
    BY <1>1, <1>2, KeysAfterAccess, KeysAfterServe DEF Next, Tick, Serve, vars, accessVars

\* Whoever ends a key holds its row, to which no call refers.
LEMMA RevocationStep ==
  ASSUME IngestionInv, KeysInv, [Next]_vars, NEW k \in Keys,
         key[k] # None, key[k].end = None, key'[k].end # None,
         NEW c \in Active, KeyOf(c) = k
  PROVE  call[c].wrote = {}
  <1>1. AccessInv /\ key \in [Keys -> Key \union {None}]
    BY DEF IngestionInv, AccessInv, AccessTypeOK
  <1>2. Manage /\ key' # key
    BY ServeAccess DEF Next, Tick, Send, Serve, vars, accessVars
  <1>3. PICK r \in Open : Write(r)
    BY <1>1, <1>2, OnlyWrites DEF Manage
  <1>4. k \in request[r].locks
    <2> DEFINE ask == request[r].ask
    <2>1. Knows(request[r]) /\ request[r].phase \in {"insert", "write"} /\ ask \in Ask
      BY <1>1, <1>3, RequestType DEF Write
    <2>2. WriteKey(ask)
      BY <1>2, <1>3 DEF Write, WriteMember
    <2>3. ask.op \in {"rotate", "revoke"} => ask.key \in request[r].locks
      BY <2>1 DEF Knows
    <2>4. ~CreateKey(ask)
      BY <1>1 DEF CreateKey
    <2>5. RotateKey(ask) => k = ask.key /\ ask.op = "rotate"
      BY <1>1 DEF RotateKey, NewKey
    <2>6. RevokeKey(ask) => k = ask.key /\ ask.op = "revoke"
      BY <1>1 DEF RevokeKey
    <2>. QED
      BY <2>2, <2>3, <2>4, <2>5, <2>6 DEF WriteKey
  <1>. QED
    BY <1>4 DEF KeysInv

\* The answers of a call that commits, about the events before and after the step.
AnswersHold(c) ==
  \A i \in DOMAIN call[c].answers :
    LET item == call[c].load.items[i]
        answer == call[c].answers[i]
    IN /\ answer = "accepted" => event[item.id] = None /\ event'[item.id] = item
       /\ answer = "duplicate" => event'[item.id] = item
       /\ answer = "idempotency_conflict" => event'[item.id] \notin {None, item}
       /\ answer = "already_corrected" =>
            \E e \in Events : event'[e] # None /\ event'[e].of = item.of

LEMMA AnswersStep ==
  ASSUME IngestionInv, [Next]_vars, NEW c \in Active,
         call[c].phase = "commit", call'[c] = None,
         call[c].wrote = {} \/ event' # event
  PROVE  AnswersHold(c)
  <1> DEFINE t == call[c]
  <1>1. /\ c \in Calls /\ t \in Call /\ t # None /\ Consistent(t)
        /\ t.load.items \in Seq(Item) /\ t.answers \in Seq(Answers) /\ t.wrote \subseteq Item
    BY CallType DEF Active
  <1>2. Commit(c) \/ Lose(c)
    BY <1>1, CallSteps DEF Serve, Prune, Count, Find, Activate, Validate, Look, LookUpCorrection,
                           LockCorrected, Insert
  <1>3. /\ \A e \in Events : event[e] # None => event'[e] = event[e]
        /\ \A row \in t.wrote : event[row.id] = None /\ event'[row.id] = row
    <2>1. CASE Commit(c)
      BY <2>1, CommitCalls
    <2>2. CASE Lose(c)
      BY <2>2 DEF Lose
    <2>. QED
      BY <1>2, <2>1, <2>2
  <1>. SUFFICES ASSUME NEW i \in DOMAIN t.answers
               PROVE  LET item == t.load.items[i]
                          answer == t.answers[i]
                      IN /\ answer = "accepted" => event[item.id] = None /\ event'[item.id] = item
                         /\ answer = "duplicate" => event'[item.id] = item
                         /\ answer = "idempotency_conflict" => event'[item.id] \notin {None, item}
                         /\ answer = "already_corrected" =>
                              \E e \in Events : event'[e] # None /\ event'[e].of = item.of
    BY DEF AnswersHold
  <1>4. i \in 1..Len(t.answers) /\ i \in 1..Len(t.load.items)
    BY <1>1 DEF Consistent
  <1>5. AnswerHolds(t, i)
    BY <1>1, <1>4 DEF Consistent
  <1>6. t.load.items[i] \in Item
    BY <1>1, <1>4
  <1>7. t.load.items[i].id \in Events /\ t.load.items[i] # None /\ None \notin Item
    BY <1>6, IngestionAssumption DEF Item
  <1>. QED
    <2> HIDE DEF t
    <2>. QED BY <1>1, <1>3, <1>5, <1>7 DEF AnswerHolds

-----------------------------------------------------------------------------
(* Theorems *)

\* The inductive invariant: shapes, one holder for each row lock, what every transaction has
\* learned under the locks it still holds, the origin of each key and answer, how many requests
\* of a key each window has let pass, and who refers to a key.
THEOREM Invariant == Spec => [](IngestionInv /\ RateInv /\ KeysInv)
  <1>1. Init => IngestionInv /\ RateInv /\ KeysInv
    BY IngestionInitInv
  <1>2. IngestionInv /\ RateInv /\ KeysInv /\ [Next]_vars => (IngestionInv /\ RateInv /\ KeysInv)'
    BY IngestionNextInv, RateNextInv, KeysNextInv
  <1>. QED
    BY <1>1, <1>2, PTL DEF Spec

\* Requests of the dashboard, calls of API clients, memberships, keys, events and windows keep
\* their shapes, whichever statements of theirs overlap.
THEOREM TypeCorrect == Spec => []IngestionTypeOK
  <1>1. IngestionInv => IngestionTypeOK
    BY DEF IngestionInv
  <1>. QED
    BY <1>1, Invariant, PTL

\* An organization never loses its last owner, although owners remove and demote each other at
\* once: who takes one away has locked and counted the others.
THEOREM OwnersRemain == Spec => []OwnerRemains
  <1>1. IngestionInv => OwnerRemains
    BY DEF IngestionInv, AccessInv
  <1>. QED
    BY <1>1, Invariant, PTL

\* A rotated key has exactly one replacement, and no other key has any: the lock of its row is
\* held from the check that it is live until it is revoked and replaced.
THEOREM RotationsReplace == Spec => []RotationReplaces
  <1>1. OneReplacement => RotationReplaces
    <2>1. \A c \in Keys : Cardinality({c}) = 1
      BY FS_Singleton
    <2>2. Cardinality({}) = 0
      BY FS_EmptySet
    <2>. QED
      BY <2>1, <2>2 DEF OneReplacement, RotationReplaces
  <1>2. IngestionInv => OneReplacement
    BY DEF IngestionInv, AccessInv
  <1>. QED
    BY <1>1, <1>2, Invariant, PTL

\* No more requests of a key pass in a window than the limit says until the window has been
\* over for as long as it lasted: until then nobody's clock lets its row be deleted.
THEOREM RatesAreLimited == Spec => []RateIsLimited
  <1>1. IngestionInv /\ RateInv => RateIsLimited
    <2> SUFFICES ASSUME IngestionInv, RateInv, NEW k \in Keys, NEW w \in Windows,
                        now < (w + 2) * Window
                 PROVE  served[k][w] <= setting.limit
      BY DEF RateIsLimited
    <2> DEFINE end == (w + 2) * Window
    <2>1. /\ window[k][w] <= setting.limit /\ (served[k][w] <= window[k][w] \/ end <= now)
          /\ now < end
      BY DEF RateInv
    <2>2. window[k][w] \in Nat /\ served[k][w] \in Nat /\ setting.limit \in Nat /\ now \in Nat
      BY IngestionAssumption DEF IngestionInv, IngestionTypeOK, AccessInv, AccessTypeOK
    <2>3. end \in Nat
      BY IngestionAssumption, ConstantsAssumption DEF Windows
    <2>. QED
      <3> HIDE DEF end
      <3>. QED BY <2>1, <2>2, <2>3
  <1>. QED
    BY <1>1, Invariant, PTL

\* Whoever changes a membership or a key is entitled to when the change commits, and not only
\* when the route looked: the row of the actor is locked in between.
THEOREM ChangesAreAuthorized == Spec => AuthorityHolds
  <1>1. IngestionInv /\ [Next]_vars =>
          [/\ \A u \in Users : role'[u] # role[u] /\ Owners # {} =>
                \E r \in Open :
                  /\ request'[r] = None /\ request[r].ask.user = u
                  /\ LET by == role[request[r].ask.actor]
                     IN IF role[u] = None THEN MayAssign(by, role'[u])
                        ELSE IF role'[u] = None THEN MayRemove(by, role[u])
                        ELSE MayChange(by, role[u], role'[u])
           /\ key' # key => \E r \in Open : /\ request'[r] = None
                                           /\ MayManageKeys(role[request[r].ask.actor])]_<<role, key>>
    BY AuthorityStep DEF RoleChangeAllowed, KeyChangeAllowed
  <1>. QED
    BY <1>1, Invariant, PTL DEF Spec, AuthorityHolds

\* No key is revoked or replaced while a call has uncommitted events that name it: the row of
\* the key is taken FOR UPDATE, and each of those events refers to that row.
THEOREM RevocationsWait == Spec => RevocationsWaitForBatches
  <1>1. IngestionInv /\ KeysInv /\ [Next]_vars =>
          [\A k \in Keys : key[k] # None /\ key[k].end = None /\ key'[k].end # None =>
             \A c \in Active : KeyOf(c) = k => call[c].wrote = {}]_vars
    BY RevocationStep
  <1>. QED
    BY <1>1, Invariant, PTL DEF Spec, RevocationsWaitForBatches

\* What a client is told when its call commits is so: an event it is told was accepted or known
\* is stored, with the contents it sent, and a conflict is with what is stored.
THEOREM AnswersTrue == Spec => AnswersAreTrue
  <1>1. IngestionInv /\ [Next]_vars =>
          [\A c \in Active : call[c].phase = "commit" /\ call'[c] = None
                            /\ (call[c].wrote = {} \/ event' # event) =>
             \A i \in DOMAIN call[c].answers :
               LET item == call[c].load.items[i]
                   answer == call[c].answers[i]
               IN /\ answer = "accepted" => event[item.id] = None /\ event'[item.id] = item
                  /\ answer = "duplicate" => event'[item.id] = item
                  /\ answer = "idempotency_conflict" => event'[item.id] \notin {None, item}
                  /\ answer = "already_corrected" =>
                       \E e \in Events : event'[e] # None /\ event'[e].of = item.of]_vars
    BY AnswersStep DEF AnswersHold
  <1>. QED
    BY <1>1, Invariant, PTL DEF Spec, AnswersAreTrue

\* Two corrections of one event are never stored, although a correction is looked for before
\* the corrected event is locked.
THEOREM CorrectionsAreUnique == Spec => []CorrectedOnce
  <1>1. IngestionInv => CorrectedOnce
    BY DEF IngestionInv, CallsInv
  <1>. QED
    BY <1>1, Invariant, PTL
=============================================================================

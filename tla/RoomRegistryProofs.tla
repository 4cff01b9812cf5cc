------------------------- MODULE RoomRegistryProofs -------------------------
(***************************************************************************)
(* Proofs about RoomRegistry, for any number of rooms, codes and requests. *)
(***************************************************************************)
EXTENDS RoomRegistry, TLAPS

\* A room and the absence of one are told apart by the id.
LEMMA NoRoomIsNone ==
    /\ NoRoom \notin Room /\ NoRoom.ID = NoId /\ NoId \notin RoomIds
    /\ NoId \notin Codes /\ RoomIds \intersect Codes = {}
  BY RegistryAssumption DEF NoRoom, Room, NoId

\* What a look-up in the repository returns is a room or none.
LEMMA GetByCodeType ==
    ASSUME TypeOK, NEW key
    PROVE  GetByCode(key) \in Room \union {NoRoom}
  BY NoRoomIsNone DEF TypeOK, GetByCode

\* CreateRoom builds a well-formed room.
LEMMA RoomType ==
    ASSUME TypeOK, NEW id \in RoomIds, NEW code \in Codes,
           NEW lifetime \in Lifetimes, NEW limit \in Limits,
           NEW temporary \in BOOLEAN
    PROVE  [ID |-> id, RoomCode |-> code, MaxMembers |-> maxMembers(limit),
            MemberCount |-> 0, IsLocked |-> FALSE,
            ExpiresAt |-> expiresAt(lifetime, temporary)] \in Room
  <1>1. maxMembers(limit) \in Nat \ {0}
    BY RegistryAssumption DEF maxMembers
  <1>2. expiresAt(lifetime, temporary) \in Nat \union {Never}
    <2>1. lifetime \in Int /\ Day \in Nat /\ now \in Nat
      BY RegistryAssumption DEF TypeOK
    <2>2. CASE lifetime > 0
      BY <2>1, <2>2 DEF expiresAt
    <2>3. CASE lifetime <= 0 /\ temporary
      BY <2>1, <2>3 DEF expiresAt
    <2>4. CASE ~(lifetime > 0) /\ ~(lifetime <= 0 /\ temporary)
      BY <2>1, <2>4 DEF expiresAt
    <2> QED BY <2>1, <2>2, <2>3, <2>4
  <1> QED BY <1>1, <1>2 DEF Room

\* What Create stores, signs and records.
CreatedBy(r, id, room) ==
    /\ room.ID = id
    /\ id \in drawn => "id" \in Collisions
    /\ room.RoomCode \in drawn => "code" \in Collisions
    /\ drawn' = drawn \union {id, room.RoomCode}
    /\ byID' = [byID EXCEPT ![id] = room]
    /\ byCode' = [byCode EXCEPT ![room.RoomCode] = id]
    /\ tokens' = tokens \union {GenerateRoomToken(room, r, "owner")}
    /\ barred' = {q \in barred : req[q].key \notin {id, room.RoomCode}}

\* Create stores a well-formed room.
LEMMA CreateStep ==
    ASSUME TypeOK, NEW r \in Requests, Create(r)
    PROVE  \E id \in RoomIds, room \in Room : CreatedBy(r, id, room)
  <1>1. PICK id \in RoomIds, code \in Codes, lifetime \in Lifetimes,
             limit \in Limits, temporary \in BOOLEAN :
           LET room == [ID |-> id, RoomCode |-> code,
                        MaxMembers |-> maxMembers(limit), MemberCount |-> 0,
                        IsLocked |-> FALSE,
                        ExpiresAt |-> expiresAt(lifetime, temporary)]
           IN /\ lifetime <= MaxLifetime
              /\ id \in drawn => "id" \in Collisions
              /\ code \in drawn => "code" \in Collisions
              /\ drawn' = drawn \union {id, code}
              /\ byID' = [byID EXCEPT ![id] = room]
              /\ byCode' = [byCode EXCEPT ![code] = id]
              /\ tokens' = tokens \union {GenerateRoomToken(room, r, "owner")}
              /\ barred' = {q \in barred : req[q].key \notin {id, code}}
    BY DEF Create
  <1> DEFINE room == [ID |-> id, RoomCode |-> code,
                        MaxMembers |-> maxMembers(limit), MemberCount |-> 0,
                        IsLocked |-> FALSE,
                        ExpiresAt |-> expiresAt(lifetime, temporary)]
  <1>2. room \in Room
    BY RoomType
  <1>3. CreatedBy(r, id, room)
    BY <1>1 DEF CreatedBy
  <1> HIDE DEF room
  <1> QED BY <1>2, <1>3

\* A signed token is well formed.
LEMMA TokenType ==
    ASSUME TypeOK, NEW room \in Room, NEW peer \in Requests,
           NEW role \in {"owner", "member"}
    PROVE  GenerateRoomToken(room, peer, role) \in Token
  <1>1. tokenExpiry(room) \in Nat
    BY RegistryAssumption DEF tokenExpiry, TypeOK, Room, Never
  <1> QED BY <1>1 DEF GenerateRoomToken, Token, Room

\* Deleting rooms keeps both maps well typed.
LEMMA DeleteType ==
    ASSUME TypeOK, NEW ids, deleteRooms(ids)
    PROVE  /\ byID' \in [RoomIds -> Room \union {NoRoom}]
           /\ byCode' \in [Codes -> RoomIds \union {NoId}]
  BY DEF TypeOK, deleteRooms, freedCodes

\* Moving a request to a program counter keeps req well typed.
LEMMA GotoType ==
    ASSUME TypeOK, NEW r \in Requests, NEW pc \in RequestPC, goto(r, pc)
    PROVE  req' \in [Requests -> [pc : RequestPC,
                             key : RoomIds \union Codes \union {NoId},
                             peer : Requests \union {NoId},
                             cp : Room \union {NoRoom}]]
  BY DEF TypeOK, goto

\* The arrival of a request keeps its record and barred well typed.
LEMMA ArriveType ==
    ASSUME TypeOK, NEW r \in Requests, NEW pc \in RequestPC,
           NEW key \in RoomIds \union Codes,
           NEW peer \in Requests \union {NoId}, arrive(r, pc, key, peer)
    PROVE  /\ req' \in [Requests -> [pc : RequestPC,
                             key : RoomIds \union Codes \union {NoId},
                             peer : Requests \union {NoId},
                             cp : Room \union {NoRoom}]]
           /\ barred' \in SUBSET Requests
  BY DEF TypeOK, arrive

\* A request that carries a token carries its room and its peer.
KeyOK ==
    \A r \in Requests :
        req[r].pc \in {"ws", "wsRead", "lock", "unlock", "destroy"}
            => req[r].key \in RoomIds /\ req[r].peer \in Requests

\* Every step of a request keeps the types.
LEMMA RequestTypeOK ==
    ASSUME TypeOK, KeyOK, NEW r \in Requests,
           \/ Create(r) \/ Join(r) \/ WSAuth(r) \/ GetMetadata(r)
           \/ ownerRequest(r) \/ readRoom(r) \/ lateCopy(r)
           \/ foundExpired(r) \/ purge(r)
           \/ joinDecide(r) \/ ValidateAccess(r) \/ metadataReply(r)
           \/ UpdateLock(r) \/ Destroy(r)
    PROVE  TypeOK'
  <1>0. {"join", "ws", "meta", "lock", "unlock", "destroy", "done", "refused",
         "purge", "admitted"} \subseteq RequestPC
    BY DEF RequestPC
  <1>1. CASE Create(r)
    <2>1. PICK id \in RoomIds, room \in Room : CreatedBy(r, id, room)
      BY <1>1, CreateStep
    <2>2. room.RoomCode \in Codes /\ GenerateRoomToken(room, r, "owner") \in Token
      BY TokenType DEF Room
    <2>5. /\ byID' \in [RoomIds -> Room \union {NoRoom}]
          /\ byCode' \in [Codes -> RoomIds \union {NoId}]
          /\ tokens' \in SUBSET Token
          /\ drawn' \in SUBSET (RoomIds \union Codes)
          /\ barred' \in SUBSET Requests
      BY <2>1, <2>2 DEF CreatedBy, TypeOK
    <2>6. goto(r, "done") /\ UNCHANGED <<now, members>>
      BY <1>1 DEF Create
    <2> QED BY <2>5, <2>6, <1>0, GotoType DEF TypeOK
  <1>2. CASE Join(r)
    <2>1. PICK key \in Codes \union RoomIds : arrive(r, "join", key, r)
      BY <1>2 DEF Join
    <2> QED BY <1>0, <1>2, <2>1, ArriveType DEF TypeOK, Join
  <1>3. CASE WSAuth(r)
    <2>1. PICK t \in validTokens : arrive(r, "ws", t.RoomID, t.PeerID)
      BY <1>3 DEF WSAuth
    <2>2. t.RoomID \in RoomIds /\ t.PeerID \in Requests
      BY DEF validTokens, TypeOK, Token
    <2> QED BY <1>0, <1>3, <2>1, <2>2, ArriveType DEF TypeOK, WSAuth
  <1>4. CASE GetMetadata(r)
    <2>1. PICK id \in RoomIds : arrive(r, "meta", id, NoId)
      BY <1>4 DEF GetMetadata
    <2> QED BY <1>0, <1>4, <2>1, ArriveType DEF TypeOK, GetMetadata
  <1>5. CASE ownerRequest(r)
    <2>1. PICK t \in validTokens, pc \in {"lock", "unlock", "destroy"} :
             arrive(r, pc, t.RoomID, t.PeerID)
      BY <1>5 DEF ownerRequest
    <2>2. t.RoomID \in RoomIds /\ t.PeerID \in Requests
      BY DEF validTokens, TypeOK, Token
    <2> QED BY <1>0, <1>5, <2>1, <2>2, ArriveType DEF TypeOK, ownerRequest
  <1>6. CASE readRoom(r)
    <2>1. GetByCode(req[r].key) \in Room \union {NoRoom}
      BY GetByCodeType
    <2> QED BY <1>6, <2>1 DEF TypeOK, readRoom, RequestPC
  <1>14. CASE lateCopy(r)
    <2>1. GetByCode(req[r].cp.ID) \in Room \union {NoRoom}
      BY GetByCodeType
    <2> QED BY <1>14, <2>1 DEF TypeOK, lateCopy
  <1>7. CASE foundExpired(r)
    BY <1>0, <1>7, GotoType DEF TypeOK, foundExpired
  <1>8. CASE purge(r)
    <2>1. deleteRooms({id \in {req[r].cp.ID} : IsRoom(id)}) /\ goto(r, "refused")
      BY <1>8 DEF purge
    <2> QED BY <1>0, <1>8, <2>1, DeleteType, GotoType DEF TypeOK, purge
  <1>9. CASE joinDecide(r)
    <2>1. CASE accessible(req[r].cp)
      <3>1. req[r].cp \in Room
        BY <1>9, <2>1 DEF TypeOK, accessible, NoRoom
      <3>2. GenerateRoomToken(req[r].cp, r, "member") \in Token
        BY <3>1, TokenType
      <3> QED BY <1>0, <1>9, <2>1, <3>2, GotoType DEF TypeOK, joinDecide
    <2>2. CASE ~accessible(req[r].cp)
      BY <1>0, <1>9, <2>2, GotoType DEF TypeOK, joinDecide
    <2> QED BY <2>1, <2>2
  <1>10. CASE metadataReply(r)
    BY <1>0, <1>10, GotoType DEF TypeOK, metadataReply
  <1>11. CASE UpdateLock(r)
    <2>1. CASE IsRoom(req[r].key)
      <3>1. goto(r, "done") /\ UNCHANGED <<byCode, now, tokens, members, drawn>>
        BY <1>11, <2>1 DEF UpdateLock
      <3>2. barred' \in SUBSET Requests
        BY <1>11, <2>1 DEF UpdateLock, TypeOK
      <3>3. byID' \in [RoomIds -> Room \union {NoRoom}]
        <4>1. byID' = [byID EXCEPT ![req[r].key].IsLocked = req[r].pc = "lock"]
          BY <1>11, <2>1 DEF UpdateLock
        <4>2. CASE req[r].key \in RoomIds
          <5>1. byID[req[r].key] \in Room
            BY <2>1, <4>2 DEF TypeOK, IsRoom
          <5>2. [byID[req[r].key] EXCEPT !.IsLocked = req[r].pc = "lock"] \in Room
            BY <5>1 DEF Room
          <5> QED BY <4>1, <4>2, <5>2 DEF TypeOK
        <4>3. CASE req[r].key \notin RoomIds
          BY <4>1, <4>3 DEF TypeOK
        <4> QED BY <4>2, <4>3
      <3> QED BY <1>0, <3>1, <3>2, <3>3, GotoType DEF TypeOK
    <2>2. CASE ~IsRoom(req[r].key)
      BY <1>0, <1>11, <2>2, GotoType DEF TypeOK, UpdateLock
    <2> QED BY <2>1, <2>2
  <1>12. CASE Destroy(r)
    <2>1. CASE IsRoom(req[r].key)
      <3>1. deleteRooms({req[r].key}) /\ goto(r, "done")
        BY <1>12, <2>1 DEF Destroy
      <3> QED BY <1>0, <1>12, <3>1, DeleteType, GotoType DEF TypeOK, Destroy
    <2>2. CASE ~IsRoom(req[r].key)
      BY <1>0, <1>12, <2>2, GotoType DEF TypeOK, Destroy
    <2> QED BY <2>1, <2>2
  <1>13. CASE ValidateAccess(r)
    <2>1. req[r].key \in RoomIds /\ req[r].peer \in Requests
      BY <1>13 DEF ValidateAccess, KeyOK
    <2>2. CASE accessible(req[r].cp)
      BY <1>0, <1>13, <2>1, <2>2, GotoType DEF TypeOK, ValidateAccess
    <2>3. CASE ~accessible(req[r].cp)
      BY <1>0, <1>13, <2>3, GotoType DEF TypeOK, ValidateAccess
    <2> QED BY <2>2, <2>3
  <1> QED BY <1>1, <1>2, <1>3, <1>4, <1>5, <1>6, <1>7, <1>8, <1>9, <1>10,
             <1>11, <1>12, <1>13, <1>14

\* What Next is made of, for the case splits below.
LEMMA NextCases ==
    ASSUME Next
    PROVE  \/ \E r \in Requests :
                 \/ Create(r) \/ Join(r) \/ WSAuth(r) \/ GetMetadata(r)
                 \/ ownerRequest(r) \/ readRoom(r) \/ lateCopy(r)
                 \/ foundExpired(r) \/ purge(r)
                 \/ joinDecide(r) \/ ValidateAccess(r) \/ metadataReply(r)
                 \/ UpdateLock(r) \/ Destroy(r)
           \/ \E m \in members : leave(m)
           \/ expireLoop
           \/ tick
  BY DEF Next

\* A token's request keeps its room and peer.
LEMMA NextKeyOK ==
    ASSUME TypeOK, KeyOK, Next
    PROVE  KeyOK'
  <1>1. ASSUME NEW r \in Requests,
               \/ Create(r) \/ foundExpired(r) \/ purge(r) \/ joinDecide(r)
               \/ ValidateAccess(r) \/ metadataReply(r) \/ UpdateLock(r)
               \/ Destroy(r)
        PROVE  KeyOK'
    <2>1. \E pc \in {"done", "purge", "refused", "admitted"} : goto(r, pc)
      BY <1>1 DEF Create, foundExpired, purge, joinDecide, ValidateAccess,
                  metadataReply, UpdateLock, Destroy
    <2> QED BY <2>1 DEF goto, KeyOK, TypeOK
  <1>2. ASSUME NEW r \in Requests,
               Join(r) \/ WSAuth(r) \/ GetMetadata(r) \/ ownerRequest(r)
        PROVE  KeyOK'
    <2>1. ASSUME NEW t \in validTokens
          PROVE  t.RoomID \in RoomIds /\ t.PeerID \in Requests
      BY DEF validTokens, TypeOK, Token
    <2>2. \E pc \in {"join", "meta", "ws", "lock", "unlock", "destroy"} : \E key, peer :
             /\ arrive(r, pc, key, peer)
             /\ pc \in {"join", "meta"} \/ (key \in RoomIds /\ peer \in Requests)
      <3>1. CASE Join(r) \/ GetMetadata(r)
        BY <3>1 DEF Join, GetMetadata
      <3>2. CASE WSAuth(r) \/ ownerRequest(r)
        BY <3>2, <2>1 DEF WSAuth, ownerRequest
      <3> QED BY <1>2, <3>1, <3>2
    <2> QED BY <2>2 DEF arrive, KeyOK, TypeOK
  <1>3. ASSUME NEW r \in Requests, readRoom(r) \/ lateCopy(r)
        PROVE  KeyOK'
    BY <1>3 DEF readRoom, lateCopy, KeyOK, TypeOK
  <1>4. CASE \E m \in members : leave(m)
    BY <1>4 DEF leave, KeyOK
  <1>5. CASE expireLoop \/ tick
    BY <1>5 DEF expireLoop, tick, KeyOK
  <1> QED BY <1>1, <1>2, <1>3, <1>4, <1>5, NextCases

\* Every step keeps the types.
LEMMA NextTypeOK ==
    ASSUME TypeOK, KeyOK, Next
    PROVE  TypeOK'
  <1>1. CASE \E m \in members : leave(m)
    BY <1>1 DEF leave, TypeOK
  <1>2. CASE expireLoop
    BY <1>2, DeleteType DEF expireLoop, TypeOK
  <1>3. CASE tick
    BY <1>3 DEF tick, TypeOK
  <1> QED BY <1>1, <1>2, <1>3, NextCases, RequestTypeOK

\* The initial state is well typed.
LEMMA InitTypeOK ==
    ASSUME Init
    PROVE  TypeOK /\ KeyOK
  BY DEF Init, TypeOK, KeyOK, NewRequest, RequestPC

\* RoomRegistry keeps its types: what the handlers store, copy and sign has
\* the shape of the Go structs, for every number of rooms and requests.
THEOREM TypeCorrect == Spec => [](TypeOK /\ KeyOK)
  <1>1. Init => TypeOK /\ KeyOK
    BY InitTypeOK
  <1>2. TypeOK /\ KeyOK /\ [Next]_vars => (TypeOK /\ KeyOK)'
    <2> SUFFICES ASSUME TypeOK, KeyOK, [Next]_vars
                 PROVE  TypeOK' /\ KeyOK'
      OBVIOUS
    <2>1. CASE Next
      BY <2>1, NextTypeOK, NextKeyOK
    <2>2. CASE UNCHANGED vars
      BY <2>2 DEF vars, TypeOK, KeyOK
    <2> QED BY <2>1, <2>2
  <1> QED BY <1>1, <1>2, PTL DEF Spec

-----------------------------------------------------------------------------
(* What a step does to the repository, when no draw repeats. *)

\* A request that has read a room holds a copy of one.
Held ==
    \A r \in Requests :
        req[r].pc \in {"joinRead", "wsRead", "metaRead", "purge"}
            => req[r].cp # NoRoom

\* Create stores a new room under a new id and a new code.
Created(id, room) ==
    /\ room \in Room /\ room.ID = id
    /\ id \notin drawn /\ room.RoomCode \notin drawn
    /\ byID' = [byID EXCEPT ![id] = room]
    /\ byCode' = [byCode EXCEPT ![room.RoomCode] = id]
    /\ drawn' = drawn \union {id, room.RoomCode}

\* Destroy, a lazy deletion or the expiry loop deletes rooms.
Deleted(ids) ==
    /\ ids \subseteq {id \in RoomIds : IsRoom(id)}
    /\ deleteRooms(ids)
    /\ drawn' = drawn

\* UpdateLock changes one field of one room.
Relocked(id, b) ==
    /\ IsRoom(id)
    /\ byID' = [byID EXCEPT ![id].IsLocked = b]
    /\ UNCHANGED <<byCode, drawn>>

\* Every step does one of these, or leaves the repository alone.
LEMMA RepoStep ==
    ASSUME TypeOK, KeyOK, Held, Collisions = {}, [Next]_vars
    PROVE  \/ \E id \in RoomIds : \E room : Created(id, room)
           \/ \E ids : Deleted(ids)
           \/ \E id \in RoomIds, b \in BOOLEAN : Relocked(id, b)
           \/ UNCHANGED <<byID, byCode, drawn>>
  <1>1. ASSUME NEW r \in Requests, Create(r)
        PROVE  \E id \in RoomIds : \E room : Created(id, room)
    <2>1. PICK id \in RoomIds, room \in Room : CreatedBy(r, id, room)
      BY <1>1, CreateStep
    <2>2. Created(id, room)
      BY <2>1 DEF Created, CreatedBy
    <2> QED BY <2>2
  <1>2. ASSUME NEW r \in Requests, purge(r)
        PROVE  \E ids : Deleted(ids)
    <2>1. req[r].cp \in Room
      BY <1>2 DEF purge, Held, TypeOK
    <2>2. Deleted({id \in {req[r].cp.ID} : IsRoom(id)})
      BY <1>2, <2>1 DEF purge, Deleted, Room
    <2> QED BY <2>2
  <1>3. ASSUME NEW r \in Requests, Destroy(r)
        PROVE  (\E ids : Deleted(ids)) \/ UNCHANGED <<byID, byCode, drawn>>
    <2>1. req[r].key \in RoomIds
      BY <1>3 DEF Destroy, KeyOK
    <2>2. CASE IsRoom(req[r].key)
      <3>1. Deleted({req[r].key})
        BY <1>3, <2>1, <2>2 DEF Destroy, Deleted
      <3> QED BY <3>1
    <2>3. CASE ~IsRoom(req[r].key)
      BY <1>3, <2>3 DEF Destroy
    <2> QED BY <2>2, <2>3
  <1>4. ASSUME NEW r \in Requests, UpdateLock(r)
        PROVE  \/ \E id \in RoomIds, b \in BOOLEAN : Relocked(id, b)
               \/ UNCHANGED <<byID, byCode, drawn>>
    <2>1. req[r].key \in RoomIds /\ (req[r].pc = "lock") \in BOOLEAN
      BY <1>4 DEF UpdateLock, KeyOK
    <2>2. CASE IsRoom(req[r].key)
      <3>1. Relocked(req[r].key, req[r].pc = "lock")
        BY <1>4, <2>2 DEF UpdateLock, Relocked
      <3> QED BY <2>1, <3>1
    <2>3. CASE ~IsRoom(req[r].key)
      BY <1>4, <2>3 DEF UpdateLock
    <2> QED BY <2>2, <2>3
  <1>5. CASE expireLoop
    <2>1. Deleted({id \in RoomIds : IsRoom(id) /\ expired(byID[id])})
      BY <1>5 DEF expireLoop, Deleted
    <2> QED BY <2>1
  <1>6. ASSUME NEW r \in Requests,
               \/ Join(r) \/ WSAuth(r) \/ GetMetadata(r) \/ ownerRequest(r)
               \/ readRoom(r) \/ lateCopy(r) \/ foundExpired(r) \/ joinDecide(r)
               \/ ValidateAccess(r) \/ metadataReply(r)
        PROVE  UNCHANGED <<byID, byCode, drawn>>
    BY <1>6 DEF Join, WSAuth, GetMetadata, ownerRequest, readRoom, lateCopy, foundExpired,
                joinDecide, ValidateAccess, metadataReply
  <1>7. CASE tick \/ UNCHANGED vars
    BY <1>7 DEF tick, vars
  <1>8. ASSUME NEW m \in members, leave(m)
        PROVE  UNCHANGED <<byID, byCode, drawn>>
    BY <1>8 DEF leave
  <1> QED BY <1>1, <1>2, <1>3, <1>4, <1>5, <1>6, <1>7, <1>8, NextCases

\* A request that has read a room keeps its copy until it decides.
LEMMA NextHeld ==
    ASSUME TypeOK, Held, [Next]_vars
    PROVE  Held'
  <1>1. ASSUME NEW r \in Requests,
               \/ Create(r) \/ foundExpired(r) \/ purge(r) \/ joinDecide(r)
               \/ ValidateAccess(r) \/ metadataReply(r) \/ UpdateLock(r)
               \/ Destroy(r)
        PROVE  Held'
    <2>1. \/ \E pc \in {"done", "refused", "admitted"} : goto(r, pc)
          \/ goto(r, "purge") /\ req[r].cp # NoRoom
      BY <1>1 DEF Create, foundExpired, purge, joinDecide, ValidateAccess,
                  metadataReply, UpdateLock, Destroy, Held
    <2> QED BY <2>1 DEF goto, Held, TypeOK
  <1>2. ASSUME NEW r \in Requests,
               Join(r) \/ WSAuth(r) \/ GetMetadata(r) \/ ownerRequest(r)
        PROVE  Held'
    <2>1. \E pc \in {"join", "meta", "ws", "lock", "unlock", "destroy"} : \E key, peer :
             arrive(r, pc, key, peer)
      BY <1>2 DEF Join, WSAuth, GetMetadata, ownerRequest
    <2> QED BY <2>1 DEF arrive, Held, TypeOK
  <1>3. ASSUME NEW r \in Requests, readRoom(r) \/ lateCopy(r)
        PROVE  Held'
    BY <1>3 DEF readRoom, lateCopy, Held, TypeOK
  <1>4. CASE (\E m \in members : leave(m)) \/ expireLoop \/ tick \/ UNCHANGED vars
    BY <1>4 DEF leave, expireLoop, tick, vars, Held
  <1> QED BY <1>1, <1>2, <1>3, <1>4, NextCases

\* What the repository holds has been drawn.
RepoDrawn ==
    /\ \A id \in RoomIds : IsRoom(id) => id \in drawn /\ byID[id].RoomCode \in drawn
    /\ \A code \in Codes : byCode[code] # NoId => code \in drawn

\* The two maps stay inverse to each other.
LEMMA NextCodeIndex ==
    ASSUME TypeOK, KeyOK, Held, RepoDrawn, CodeIndexExact, Collisions = {},
           [Next]_vars
    PROVE  RepoDrawn' /\ CodeIndexExact'
  <1> USE NoRoomIsNone
  <1>1. ASSUME NEW id \in RoomIds, NEW room, Created(id, room)
        PROVE  RepoDrawn' /\ CodeIndexExact'
    <2>1. room # NoRoom /\ room.RoomCode \in Codes
      BY <1>1 DEF Created, Room
    <2>2. RepoDrawn'
      BY <1>1, <2>1 DEF Created, RepoDrawn, TypeOK, IsRoom
    <2>3. CodeIndexExact'
      BY <1>1, <2>1 DEF Created, RepoDrawn, CodeIndexExact, TypeOK, IsRoom
    <2> QED BY <2>2, <2>3
  <1>2. ASSUME NEW ids, Deleted(ids)
        PROVE  RepoDrawn' /\ CodeIndexExact'
    <2>1. ids \subseteq RoomIds /\ \A id \in ids : IsRoom(id)
      BY <1>2 DEF Deleted
    <2>2. /\ byID' = [id \in RoomIds |-> IF id \in ids THEN NoRoom ELSE byID[id]]
          /\ byCode' = [code \in Codes |->
                IF \E id \in ids : byID[id].RoomCode = code
                THEN NoId ELSE byCode[code]]
          /\ drawn' = drawn
      BY <1>2 DEF Deleted, deleteRooms, freedCodes
    <2>3. RepoDrawn'
      BY <2>1, <2>2 DEF RepoDrawn, TypeOK, IsRoom
    <2>4. ASSUME NEW id \in RoomIds, IsRoom(id)'
          PROVE  byID'[id].ID = id /\ byCode'[byID'[id].RoomCode] = id
      <3>1. id \notin ids /\ byID'[id] = byID[id] /\ IsRoom(id)
        BY <2>2, <2>4 DEF IsRoom
      <3>2. byID[id].RoomCode \in Codes /\ byID[id].ID = id
            /\ byCode[byID[id].RoomCode] = id
        BY <3>1 DEF TypeOK, Room, CodeIndexExact, IsRoom
      <3>3. \A k \in ids : byID[k].RoomCode # byID[id].RoomCode
        BY <2>1, <3>1, <3>2 DEF CodeIndexExact
      <3> QED BY <2>2, <3>1, <3>2, <3>3
    <2>5. ASSUME NEW code \in Codes, byCode'[code] # NoId
          PROVE  byID'[byCode'[code]] # NoRoom /\ byID'[byCode'[code]].RoomCode = code
      <3>1. byCode'[code] = byCode[code] /\ \A id \in ids : byID[id].RoomCode # code
        BY <2>2, <2>5
      <3>2. /\ byCode[code] \in RoomIds /\ IsRoom(byCode[code])
            /\ byID[byCode[code]].RoomCode = code
        BY <2>5, <3>1 DEF CodeIndexExact, TypeOK
      <3>3. byCode[code] \notin ids
        BY <3>1, <3>2
      <3> QED BY <2>2, <3>1, <3>2, <3>3 DEF IsRoom
    <2>6. CodeIndexExact'
      BY <2>4, <2>5 DEF CodeIndexExact, IsRoom
    <2> QED BY <2>3, <2>6
  <1>3. ASSUME NEW id \in RoomIds, NEW b \in BOOLEAN, Relocked(id, b)
        PROVE  RepoDrawn' /\ CodeIndexExact'
    <2>1. byID[id] \in Room
      BY <1>3 DEF Relocked, IsRoom, TypeOK
    <2> DEFINE room == [byID[id] EXCEPT !.IsLocked = b]
    <2>2. /\ room \in Room /\ room.ID = byID[id].ID
          /\ room.RoomCode = byID[id].RoomCode
      BY <2>1 DEF Room
    <2>3. byID' = [byID EXCEPT ![id] = room] /\ byCode' = byCode /\ drawn' = drawn
      BY <1>3 DEF Relocked
    <2>4. room # NoRoom /\ IsRoom(id)
      BY <1>3, <2>2 DEF Relocked
    <2> HIDE DEF room
    <2>5. RepoDrawn'
      BY <2>2, <2>3, <2>4 DEF RepoDrawn, TypeOK, IsRoom
    <2>6. CodeIndexExact'
      BY <2>2, <2>3, <2>4 DEF CodeIndexExact, TypeOK, IsRoom
    <2> QED BY <2>5, <2>6
  <1>4. CASE UNCHANGED <<byID, byCode, drawn>>
    BY <1>4 DEF RepoDrawn, CodeIndexExact, IsRoom
  <1> QED BY <1>1, <1>2, <1>3, <1>4, RepoStep

\* Every room is reached by its code and every code leads to its room, as long
\* as no random id or code repeats (MemoryRoomRepository keeps two maps and
\* checks neither).
THEOREM CodeIndexInverse ==
    ASSUME Collisions = {}
    PROVE  Spec => []CodeIndexExact
  <1> DEFINE Inv == Held /\ RepoDrawn /\ CodeIndexExact
  <1>1. Init => Inv
    BY DEF Init, Held, RepoDrawn, CodeIndexExact, IsRoom, NewRequest
  <1>2. (TypeOK /\ KeyOK) /\ Inv /\ [Next]_vars => Inv'
    BY NextHeld, NextCodeIndex
  <1>3. Inv => CodeIndexExact
    OBVIOUS
  <1> HIDE DEF Inv
  <1> QED BY <1>1, <1>2, <1>3, TypeCorrect, PTL DEF Spec

-----------------------------------------------------------------------------
(* Copies and tokens *)

\* What has been copied or signed has been drawn.
CopyDrawn ==
    /\ \A r \in Requests : req[r].cp # NoRoom => req[r].cp.ID \in drawn
    /\ \A t \in tokens : t.RoomID \in drawn

\* A copy agrees on the expiry with the room it was made of while that lives.
CopySound ==
    \A r \in Requests : req[r].cp # NoRoom /\ IsRoom(req[r].cp.ID)
        => byID[req[r].cp.ID].ExpiresAt = req[r].cp.ExpiresAt

\* A lazy deletion is under way only for a copy that has expired.
PurgeSound ==
    \A r \in Requests : req[r].pc = "purge"
        => req[r].cp.ExpiresAt # Never /\ now > req[r].cp.ExpiresAt

\* The inductive invariant behind the theorems on tokens and deletions.
RegistryInv ==
    /\ TypeOK /\ KeyOK /\ Held /\ RepoDrawn /\ CodeIndexExact
    /\ CopyDrawn /\ CopySound /\ PurgeSound /\ TokensWithinRoomLife

\* An id that has been drawn never gets another room, and its room never
\* another expiry.
LEMMA ExpiryKept ==
    ASSUME TypeOK, KeyOK, Held, Collisions = {}, [Next]_vars,
           NEW id \in RoomIds, id \in drawn
    PROVE  /\ id \in drawn'
           /\ IsRoom(id)' => IsRoom(id) /\ byID'[id].ExpiresAt = byID[id].ExpiresAt
  <1>1. ASSUME NEW k \in RoomIds, NEW room, Created(k, room)
        PROVE  id \in drawn' /\ byID'[id] = byID[id]
    BY <1>1 DEF Created, TypeOK
  <1>2. ASSUME NEW ids, Deleted(ids)
        PROVE  id \in drawn' /\ byID'[id] \in {NoRoom, byID[id]}
    BY <1>2 DEF Deleted, deleteRooms
  <1>3. ASSUME NEW k \in RoomIds, NEW b \in BOOLEAN, Relocked(k, b)
        PROVE  /\ id \in drawn'
               /\ byID'[id] # NoRoom => byID[id] # NoRoom
               /\ byID[id] # NoRoom => byID'[id].ExpiresAt = byID[id].ExpiresAt
    <2>1. byID[k] \in Room /\ byID[k] # NoRoom
      BY <1>3 DEF Relocked, TypeOK, IsRoom
    <2>2. [byID[k] EXCEPT !.IsLocked = b].ExpiresAt = byID[k].ExpiresAt
      BY <2>1 DEF Room
    <2> QED BY <1>3, <2>1, <2>2 DEF Relocked, TypeOK
  <1>4. CASE UNCHANGED <<byID, byCode, drawn>>
    BY <1>4 DEF IsRoom
  <1> QED BY <1>1, <1>2, <1>3, <1>4, RepoStep DEF IsRoom

\* Where the copy of a request comes from.
LEMMA CopyStep ==
    ASSUME TypeOK, CodeIndexExact, [Next]_vars, NEW q \in Requests,
           req'[q].cp # NoRoom
    PROVE  \/ req'[q].cp = req[q].cp
           \/ /\ UNCHANGED <<byID, drawn>>
              /\ \E id \in RoomIds : IsRoom(id) /\ req'[q].cp = byID[id]
                                      /\ byID[id].ID = id
  <1>1. ASSUME NEW r \in Requests,
               \/ Create(r) \/ foundExpired(r) \/ purge(r) \/ joinDecide(r)
               \/ ValidateAccess(r) \/ metadataReply(r) \/ UpdateLock(r)
               \/ Destroy(r)
        PROVE  req'[q].cp = req[q].cp
    <2>1. \E pc : goto(r, pc)
      BY <1>1 DEF Create, foundExpired, purge, joinDecide, ValidateAccess,
                  metadataReply, UpdateLock, Destroy
    <2> QED BY <2>1 DEF goto, TypeOK
  <1>2. ASSUME NEW r \in Requests,
               Join(r) \/ WSAuth(r) \/ GetMetadata(r) \/ ownerRequest(r)
        PROVE  req'[q].cp = req[q].cp
    <2>1. \E pc, key, peer : arrive(r, pc, key, peer)
      BY <1>2 DEF Join, WSAuth, GetMetadata, ownerRequest
    <2> QED BY <2>1 DEF arrive, TypeOK
  <1>3. ASSUME NEW r \in Requests, readRoom(r)
        PROVE  \/ req'[q].cp = req[q].cp
               \/ /\ UNCHANGED <<byID, drawn>>
                  /\ \E id \in RoomIds : IsRoom(id) /\ req'[q].cp = byID[id]
                                          /\ byID[id].ID = id
    <2>1. CASE q # r
      BY <1>3, <2>1 DEF readRoom, TypeOK
    <2>2. CASE q = r
      <3>1. req'[q].cp = GetByCode(req[q].key) /\ UNCHANGED <<byID, drawn>>
        BY <1>3, <2>2 DEF readRoom, TypeOK
      <3>2. \E id \in RoomIds : GetByCode(req[q].key) = byID[id]
        BY <3>1 DEF GetByCode, TypeOK
      <3> QED BY <3>1, <3>2 DEF IsRoom, CodeIndexExact
    <2> QED BY <2>1, <2>2
  <1>4. CASE (\E m \in members : leave(m)) \/ expireLoop \/ tick \/ UNCHANGED vars
    BY <1>4 DEF leave, expireLoop, tick, vars
  <1>5. ASSUME NEW r \in Requests, lateCopy(r)
        PROVE  \/ req'[q].cp = req[q].cp
               \/ /\ UNCHANGED <<byID, drawn>>
                  /\ \E id \in RoomIds : IsRoom(id) /\ req'[q].cp = byID[id]
                                          /\ byID[id].ID = id
    <2>1. CASE q # r
      BY <1>5, <2>1 DEF lateCopy, TypeOK
    <2>2. CASE q = r
      <3>1. req'[q].cp = GetByCode(req[q].cp.ID) /\ UNCHANGED <<byID, drawn>>
        BY <1>5, <2>2 DEF lateCopy, TypeOK
      <3>2. \E id \in RoomIds : GetByCode(req[q].cp.ID) = byID[id]
        BY <3>1 DEF GetByCode, TypeOK
      <3> QED BY <3>1, <3>2 DEF IsRoom, CodeIndexExact
    <2> QED BY <2>1, <2>2
  <1> QED BY <1>1, <1>2, <1>3, <1>4, <1>5, NextCases

\* Copies stay drawn and agree with their rooms.
LEMMA NextCopy ==
    ASSUME RegistryInv, Collisions = {}, [Next]_vars, NEW q \in Requests,
           req'[q].cp # NoRoom, TypeOK'
    PROVE  /\ req'[q].cp.ID \in drawn'
           /\ byID'[req'[q].cp.ID] # NoRoom
                 => byID'[req'[q].cp.ID].ExpiresAt = req'[q].cp.ExpiresAt
  <1>1. CASE req'[q].cp = req[q].cp
    <2>1. req[q].cp \in Room /\ req[q].cp.ID \in RoomIds /\ req[q].cp.ID \in drawn
      BY <1>1 DEF RegistryInv, TypeOK, CopyDrawn, Room
    <2> QED BY <1>1, <2>1, ExpiryKept DEF RegistryInv, CopySound, IsRoom
  <1>2. CASE /\ UNCHANGED <<byID, drawn>>
             /\ \E id \in RoomIds : IsRoom(id) /\ req'[q].cp = byID[id]
                                     /\ byID[id].ID = id
    BY <1>2 DEF RegistryInv, RepoDrawn
  <1> QED BY <1>1, <1>2, CopyStep DEF RegistryInv

\* What becomes of the set of tokens: Create and Join add one.
LEMMA TokenStep ==
    ASSUME TypeOK, Held, [Next]_vars
    PROVE  \/ tokens' = tokens
           \/ \E r \in Requests :
                 /\ joinDecide(r) /\ req[r].cp \in Room
                 /\ tokens' = tokens \union {GenerateRoomToken(req[r].cp, r, "member")}
           \/ \E r \in Requests, id \in RoomIds, room \in Room :
                 /\ room.ID = id /\ byID' = [byID EXCEPT ![id] = room]
                 /\ id \in drawn'
                 /\ tokens' = tokens \union {GenerateRoomToken(room, r, "owner")}
  <1>1. ASSUME NEW r \in Requests, Create(r)
        PROVE  \E id \in RoomIds, room \in Room :
                 /\ room.ID = id /\ byID' = [byID EXCEPT ![id] = room]
                 /\ id \in drawn'
                 /\ tokens' = tokens \union {GenerateRoomToken(room, r, "owner")}
    <2>1. PICK id \in RoomIds, room \in Room : CreatedBy(r, id, room)
      BY <1>1, CreateStep
    <2> QED BY <2>1 DEF CreatedBy
  <1>2. ASSUME NEW r \in Requests, joinDecide(r)
        PROVE  \/ tokens' = tokens
               \/ /\ joinDecide(r) /\ req[r].cp \in Room
                  /\ tokens' = tokens \union {GenerateRoomToken(req[r].cp, r, "member")}
    BY <1>2 DEF joinDecide, Held, TypeOK
  <1>3. ASSUME NEW r \in Requests,
               \/ Join(r) \/ WSAuth(r) \/ GetMetadata(r)
               \/ ownerRequest(r) \/ readRoom(r) \/ lateCopy(r)
               \/ foundExpired(r) \/ purge(r)
               \/ ValidateAccess(r) \/ metadataReply(r)
               \/ UpdateLock(r) \/ Destroy(r)
        PROVE  tokens' = tokens
    BY <1>3 DEF Join, WSAuth, GetMetadata, ownerRequest, readRoom, lateCopy, foundExpired,
                purge, ValidateAccess, metadataReply, UpdateLock, Destroy
  <1>4. CASE (\E m \in members : leave(m)) \/ expireLoop \/ tick \/ UNCHANGED vars
    BY <1>4 DEF leave, expireLoop, tick, vars
  <1> QED BY <1>1, <1>2, <1>3, <1>4, NextCases

\* No token outlives its room.
LEMMA NextTokens ==
    ASSUME RegistryInv, Collisions = {}, [Next]_vars, NEW t \in tokens'
    PROVE  /\ t.RoomID \in drawn'
           /\ byID'[t.RoomID] # NoRoom /\ byID'[t.RoomID].ExpiresAt # Never
                 => t.exp <= byID'[t.RoomID].ExpiresAt
  <1>0. TypeOK /\ KeyOK /\ Held
    BY DEF RegistryInv
  <1>1. ASSUME t \in tokens
        PROVE  /\ t.RoomID \in drawn'
               /\ byID'[t.RoomID] # NoRoom /\ byID'[t.RoomID].ExpiresAt # Never
                     => t.exp <= byID'[t.RoomID].ExpiresAt
    <2>1. t.RoomID \in RoomIds /\ t.RoomID \in drawn
      BY <1>1 DEF RegistryInv, TypeOK, Token, CopyDrawn
    <2>2. IsRoom(t.RoomID) /\ byID[t.RoomID].ExpiresAt # Never
            => t.exp <= byID[t.RoomID].ExpiresAt
      BY <1>1 DEF RegistryInv, TokensWithinRoomLife
    <2> QED BY <1>0, <2>1, <2>2, ExpiryKept DEF IsRoom
  <1>2. ASSUME NEW r \in Requests, joinDecide(r), req[r].cp \in Room,
               t = GenerateRoomToken(req[r].cp, r, "member")
        PROVE  /\ t.RoomID \in drawn'
               /\ byID'[t.RoomID] # NoRoom /\ byID'[t.RoomID].ExpiresAt # Never
                     => t.exp <= byID'[t.RoomID].ExpiresAt
    <2>1. t.RoomID = req[r].cp.ID /\ t.exp = tokenExpiry(req[r].cp)
      BY <1>2 DEF GenerateRoomToken
    <2>2. UNCHANGED <<byID, drawn>> /\ req[r].cp # NoRoom
      BY <1>0, <1>2, NoRoomIsNone DEF joinDecide
    <2>3. /\ req[r].cp.ID \in drawn
          /\ IsRoom(req[r].cp.ID) => byID[req[r].cp.ID].ExpiresAt = req[r].cp.ExpiresAt
      BY <2>2 DEF RegistryInv, CopyDrawn, CopySound
    <2>4. req[r].cp.ExpiresAt \in Nat \union {Never} /\ Never \in Int
      BY <1>2 DEF Room, Never
    <2> QED BY <2>1, <2>2, <2>3, <2>4 DEF tokenExpiry, IsRoom
  <1>3. ASSUME NEW r \in Requests, NEW id \in RoomIds, NEW room \in Room,
               room.ID = id, byID' = [byID EXCEPT ![id] = room], id \in drawn',
               t = GenerateRoomToken(room, r, "owner")
        PROVE  /\ t.RoomID \in drawn'
               /\ byID'[t.RoomID] # NoRoom /\ byID'[t.RoomID].ExpiresAt # Never
                     => t.exp <= byID'[t.RoomID].ExpiresAt
    <2>1. t.RoomID = id /\ t.exp = tokenExpiry(room)
      BY <1>3 DEF GenerateRoomToken
    <2>2. byID'[id] = room
      BY <1>0, <1>3 DEF TypeOK
    <2>3. room.ExpiresAt \in Nat \union {Never} /\ Never \in Int
      BY DEF Room, Never
    <2> QED BY <1>3, <2>1, <2>2, <2>3 DEF tokenExpiry
  <1> QED BY <1>0, <1>1, <1>2, <1>3, TokenStep

\* A lazy deletion starts from an expired copy, and time does not go back.
LEMMA NextPurge ==
    ASSUME TypeOK, PurgeSound, [Next]_vars
    PROVE  PurgeSound'
  <1>1. ASSUME NEW r \in Requests,
               \/ Create(r) \/ purge(r) \/ joinDecide(r)
               \/ ValidateAccess(r) \/ metadataReply(r) \/ UpdateLock(r)
               \/ Destroy(r)
        PROVE  PurgeSound'
    <2>1. now' = now /\ \E pc \in {"done", "refused", "admitted"} : goto(r, pc)
      BY <1>1 DEF Create, purge, joinDecide, ValidateAccess, metadataReply,
                  UpdateLock, Destroy
    <2> QED BY <2>1 DEF goto, PurgeSound, TypeOK
  <1>2. ASSUME NEW r \in Requests, foundExpired(r)
        PROVE  PurgeSound'
    BY <1>2 DEF foundExpired, expired, goto, PurgeSound, TypeOK
  <1>3. ASSUME NEW r \in Requests,
               Join(r) \/ WSAuth(r) \/ GetMetadata(r) \/ ownerRequest(r)
        PROVE  PurgeSound'
    <2>1. /\ now' = now
          /\ \E pc \in {"join", "meta", "ws", "lock", "unlock", "destroy"} : \E key, peer :
                arrive(r, pc, key, peer)
      BY <1>3 DEF Join, WSAuth, GetMetadata, ownerRequest
    <2> QED BY <2>1 DEF arrive, PurgeSound, TypeOK
  <1>4. ASSUME NEW r \in Requests, readRoom(r) \/ lateCopy(r)
        PROVE  PurgeSound'
    BY <1>4 DEF readRoom, lateCopy, PurgeSound, TypeOK
  <1>5. CASE tick
    <2>1. \A q \in Requests : req[q].cp.ExpiresAt \in Int
      BY DEF TypeOK, Room, NoRoom, Never
    <2> QED BY <1>5, <2>1 DEF tick, PurgeSound, TypeOK
  <1>6. CASE (\E m \in members : leave(m)) \/ expireLoop \/ UNCHANGED vars
    BY <1>6 DEF leave, expireLoop, vars, PurgeSound
  <1> QED BY <1>1, <1>2, <1>3, <1>4, <1>5, <1>6, NextCases

\* RegistryInv holds at first.
LEMMA InitRegistryInv ==
    ASSUME Init
    PROVE  RegistryInv
  <1>1. TypeOK /\ KeyOK
    BY InitTypeOK
  <1> QED BY <1>1 DEF Init, RegistryInv, Held, RepoDrawn, CodeIndexExact, IsRoom,
              NewRequest, CopyDrawn, CopySound, PurgeSound, TokensWithinRoomLife

\* RegistryInv is inductive when no draw repeats.
LEMMA NextRegistryInv ==
    ASSUME RegistryInv, Collisions = {}, [Next]_vars
    PROVE  RegistryInv'
  <1>1. TypeOK /\ KeyOK /\ Held /\ RepoDrawn /\ CodeIndexExact /\ PurgeSound
    BY DEF RegistryInv
  <1>2. TypeOK' /\ KeyOK'
    <2>1. CASE Next
      BY <1>1, <2>1, NextTypeOK, NextKeyOK
    <2>2. CASE UNCHANGED vars
      BY <1>1, <2>2 DEF vars, TypeOK, KeyOK
    <2> QED BY <2>1, <2>2
  <1>3. Held' /\ RepoDrawn' /\ CodeIndexExact' /\ PurgeSound'
    BY <1>1, NextHeld, NextCodeIndex, NextPurge
  <1>4. CopyDrawn' /\ CopySound'
    BY <1>2, NextCopy, NextTokens DEF CopyDrawn, CopySound, IsRoom
  <1>5. TokensWithinRoomLife'
    BY NextTokens DEF TokensWithinRoomLife, IsRoom
  <1> QED BY <1>2, <1>3, <1>4, <1>5 DEF RegistryInv

\* No token, whether Create signed it or Join from a copy read earlier, is
\* valid beyond the expiry of its room.
THEOREM TokensExpireWithRoom ==
    ASSUME Collisions = {}
    PROVE  Spec => []TokensWithinRoomLife
  <1>1. Init => RegistryInv
    BY InitRegistryInv
  <1>2. RegistryInv /\ [Next]_vars => RegistryInv'
    BY NextRegistryInv
  <1>3. RegistryInv => TokensWithinRoomLife
    BY DEF RegistryInv
  <1> QED BY <1>1, <1>2, <1>3, PTL DEF Spec

\* A step takes away a room that has not expired only for its owner.
LEMMA LiveRoomStep ==
    ASSUME RegistryInv, [Next]_vars, NEW id \in RoomIds, IsRoom(id),
           ~(byID[id].ExpiresAt # Never /\ now > byID[id].ExpiresAt)
    PROVE  byID'[id] # NoRoom \/ \E r \in Requests :
               req[r].pc = "destroy" /\ req[r].key = id
  <1>0. TypeOK /\ KeyOK /\ Held /\ CopySound /\ PurgeSound
    BY DEF RegistryInv
  <1>1. ASSUME NEW r \in Requests, Create(r)
        PROVE  byID'[id] # NoRoom
    <2>1. PICK k \in RoomIds, room \in Room : CreatedBy(r, k, room)
      BY <1>0, <1>1, CreateStep
    <2> QED BY <1>0, <2>1, NoRoomIsNone DEF CreatedBy, TypeOK, IsRoom
  <1>2. ASSUME NEW r \in Requests, purge(r)
        PROVE  byID'[id] # NoRoom
    <2>1. req[r].cp # NoRoom /\ req[r].cp.ExpiresAt # Never
          /\ now > req[r].cp.ExpiresAt
      BY <1>0, <1>2 DEF purge, Held, PurgeSound
    <2>2. req[r].cp.ID # id
      BY <1>0, <2>1 DEF CopySound
    <2> QED BY <1>2, <2>2 DEF purge, deleteRooms, IsRoom
  <1>3. ASSUME NEW r \in Requests, Destroy(r)
        PROVE  byID'[id] # NoRoom \/ (req[r].pc = "destroy" /\ req[r].key = id)
    BY <1>3 DEF Destroy, deleteRooms, IsRoom
  <1>4. ASSUME NEW r \in Requests, UpdateLock(r)
        PROVE  byID'[id] # NoRoom
    <2>1. CASE IsRoom(req[r].key)
      <3>1. req[r].key \in RoomIds
        BY <1>0, <1>4 DEF UpdateLock, KeyOK
      <3>2. byID[req[r].key] \in Room
        BY <1>0, <2>1, <3>1 DEF TypeOK, IsRoom
      <3>3. [byID[req[r].key] EXCEPT !.IsLocked = req[r].pc = "lock"] \in Room
        BY <3>2 DEF Room
      <3> QED BY <1>0, <1>4, <2>1, <3>3, NoRoomIsNone DEF UpdateLock, TypeOK, IsRoom
    <2>2. CASE ~IsRoom(req[r].key)
      BY <1>4, <2>2 DEF UpdateLock, IsRoom
    <2> QED BY <2>1, <2>2
  <1>5. CASE expireLoop
    BY <1>5 DEF expireLoop, deleteRooms, expired, IsRoom
  <1>6. ASSUME NEW r \in Requests,
               \/ Join(r) \/ WSAuth(r) \/ GetMetadata(r) \/ ownerRequest(r)
               \/ readRoom(r) \/ lateCopy(r) \/ foundExpired(r) \/ joinDecide(r)
               \/ ValidateAccess(r) \/ metadataReply(r)
        PROVE  byID'[id] # NoRoom
    BY <1>6 DEF Join, WSAuth, GetMetadata, ownerRequest, readRoom, lateCopy, foundExpired,
                joinDecide, ValidateAccess, metadataReply, IsRoom
  <1>7. CASE (\E m \in members : leave(m)) \/ tick \/ UNCHANGED vars
    BY <1>7 DEF leave, tick, vars, IsRoom
  <1> QED BY <1>1, <1>2, <1>3, <1>4, <1>5, <1>6, <1>7, NextCases

\* The lazy deletions of GetRoom and GetRoomByCode, which delete by id after
\* the lock has been released, never take away a room that has not expired.
THEOREM LazyDeletionIsSafe ==
    ASSUME Collisions = {}
    PROVE  Spec => LiveRoomStays
  <1>1. Init => RegistryInv
    BY InitRegistryInv
  <1>2. RegistryInv /\ [Next]_vars => RegistryInv'
    BY NextRegistryInv
  <1>3. RegistryInv /\ [Next]_vars =>
          [\A id \in RoomIds :
             IsRoom(id) /\ ~(byID[id].ExpiresAt # Never /\ now > byID[id].ExpiresAt)
               => byID'[id] # NoRoom \/ \E r \in Requests :
                    req[r].pc = "destroy" /\ req[r].key = id]_vars
    BY LiveRoomStep
  <1> QED BY <1>1, <1>2, <1>3, PTL DEF Spec, LiveRoomStays

-----------------------------------------------------------------------------
(* The lock *)

\* The room of id is locked, if there is one.
Bolted(id) == id \in RoomIds /\ IsRoom(id) => byID[id].IsLocked

\* A request facing a locked room since it came in finds it locked or gone,
\* holds a locked copy, and is not let in.
LockSound ==
    \A r \in barred :
        /\ req[r].pc \notin {"new", "admitted"}
        /\ req[r].pc \in {"join", "ws"}
              => GetByCode(req[r].key) = NoRoom \/ GetByCode(req[r].key).IsLocked
        /\ req[r].pc \in {"joinRead", "wsRead"}
              => req[r].cp.IsLocked /\ Bolted(req[r].cp.ID)

\* Deleting rooms leads a key to the room it led to before, or to none.
LEMMA LookupAfterDelete ==
    ASSUME TypeOK, NEW ids, deleteRooms(ids), NEW key
    PROVE  GetByCode(key)' \in {NoRoom, GetByCode(key)}
  <1> USE NoRoomIsNone
  <1>1. CASE key \in RoomIds
    BY <1>1 DEF GetByCode, deleteRooms
  <1>2. CASE key \in Codes
    BY <1>2 DEF GetByCode, deleteRooms, freedCodes, TypeOK
  <1>3. CASE key \notin RoomIds /\ key \notin Codes
    BY <1>3 DEF GetByCode
  <1> QED BY <1>1, <1>2, <1>3

\* Creating a room changes what its own id and code lead to, nothing else.
LEMMA LookupAfterCreate ==
    ASSUME TypeOK, RepoDrawn, CodeIndexExact, NEW id \in RoomIds, NEW room,
           Created(id, room), NEW key, key # id, key # room.RoomCode
    PROVE  GetByCode(key)' = GetByCode(key)
  <1> USE NoRoomIsNone
  <1>1. CASE key \in RoomIds
    BY <1>1 DEF GetByCode, Created, TypeOK
  <1>2. CASE key \in Codes
    <2>1. byCode'[key] = byCode[key]
      BY <1>2 DEF Created, TypeOK
    <2>2. byCode[key] # id
      BY <1>2 DEF Created, CodeIndexExact, RepoDrawn
    <2> QED BY <1>2, <2>1, <2>2 DEF GetByCode, Created, TypeOK
  <1>3. CASE key \notin RoomIds /\ key \notin Codes
    BY <1>3 DEF GetByCode
  <1> QED BY <1>1, <1>2, <1>3

\* UpdateLock changes the lock of the room it is about, nothing else.
LEMMA LookupAfterLock ==
    ASSUME TypeOK, CodeIndexExact, NEW id \in RoomIds, NEW b \in BOOLEAN,
           Relocked(id, b), NEW key
    PROVE  /\ GetByCode(key) # byID[id] => GetByCode(key)' = GetByCode(key)
           /\ GetByCode(key) = byID[id] => GetByCode(key)'.IsLocked = b
  <1> USE NoRoomIsNone
  <1>1. byID[id] \in Room /\ byID[id].ID = id
    BY DEF Relocked, TypeOK, IsRoom, CodeIndexExact
  <1>2. ASSUME NEW k \in RoomIds
        PROVE  /\ byID[k] # byID[id] => byID'[k] = byID[k]
               /\ byID[k] = byID[id] => byID'[k].IsLocked = b
    <2>1. CASE k = id
      <3>1. byID'[id] = [byID[id] EXCEPT !.IsLocked = b]
        BY DEF Relocked, TypeOK
      <3>2. [byID[id] EXCEPT !.IsLocked = b].IsLocked = b
        BY <1>1 DEF Room
      <3> QED BY <2>1, <3>1, <3>2
    <2>2. CASE k # id
      <3>1. byID'[k] = byID[k]
        BY <2>2 DEF Relocked, TypeOK
      <3>2. byID[k] # byID[id]
        BY <1>1, <2>2 DEF CodeIndexExact, IsRoom
      <3> QED BY <3>1, <3>2
    <2> QED BY <2>1, <2>2
  <1>3. CASE key \in RoomIds
    BY <1>2, <1>3 DEF GetByCode
  <1>4. CASE key \in Codes /\ byCode[key] # NoId
    <2>1. byCode[key] \in RoomIds /\ byCode'[key] = byCode[key]
      BY <1>4 DEF TypeOK, Relocked
    <2> QED BY <1>2, <1>4, <2>1 DEF GetByCode
  <1>5. CASE key \notin RoomIds /\ (key \notin Codes \/ byCode[key] = NoId)
    <2>1. GetByCode(key) = NoRoom /\ GetByCode(key)' = NoRoom
      BY <1>5 DEF GetByCode, Relocked
    <2> QED BY <1>1, <2>1
  <1> QED BY <1>3, <1>4, <1>5

\* Key leads to a locked room or to none.
Shut(key) == GetByCode(key) = NoRoom \/ GetByCode(key).IsLocked

\* A request that is refused or goes on without being let in keeps LockSound,
\* if what the barred requests look for stays shut.
LEMMA LockGoto ==
    ASSUME TypeOK, LockSound, NEW r \in Requests,
           NEW pc \in {"refused", "done", "purge"}, goto(r, pc),
           barred' \subseteq barred,
           \A q \in barred' : \A key : key = req[q].key /\ Shut(key) => Shut(key)',
           \A q \in barred' : \A id : id = req[q].cp.ID /\ Bolted(id) => Bolted(id)'
    PROVE  LockSound'
  <1> SUFFICES ASSUME NEW q \in barred'
               PROVE  /\ req'[q].pc \notin {"new", "admitted"}
                      /\ req'[q].pc \in {"join", "ws"} => Shut(req[q].key)'
                      /\ req'[q].pc \in {"joinRead", "wsRead"}
                           => req'[q].cp.IsLocked /\ Bolted(req[q].cp.ID)'
    BY DEF LockSound, Shut
  <1>1. q \in barred /\ q \in Requests
    BY DEF TypeOK
  <1>2. CASE q = r
    BY <1>1, <1>2 DEF goto, TypeOK
  <1>3. CASE q # r
    <2>1. req'[q] = req[q]
      BY <1>1, <1>3 DEF goto, TypeOK
    <2>2. /\ req[q].pc \in {"join", "ws"} => Shut(req[q].key)
          /\ req[q].pc \in {"joinRead", "wsRead"}
                => req[q].cp.IsLocked /\ Bolted(req[q].cp.ID)
      BY <1>1 DEF LockSound, Shut
    <2>3. req[q].pc \in {"join", "ws"} => Shut(req[q].key)'
      <3>1. PICK k : k = req[q].key
        OBVIOUS
      <3>2. req[q].pc \in {"join", "ws"} => Shut(k)'
        BY <2>2, <3>1
      <3> QED BY <2>1, <3>1, <3>2 DEF Shut, GetByCode
    <2>4. req[q].pc \in {"joinRead", "wsRead"} => Bolted(req[q].cp.ID)'
      <3>1. PICK k : k = req[q].cp.ID
        OBVIOUS
      <3>2. req[q].pc \in {"joinRead", "wsRead"} => Bolted(k)'
        BY <2>2, <3>1
      <3> QED BY <2>1, <3>1, <3>2 DEF Bolted, IsRoom
    <2> QED BY <1>1, <2>1, <2>2, <2>3, <2>4 DEF LockSound
  <1> QED BY <1>2, <1>3

\* LockSound is inductive relative to RegistryInv.
LEMMA NextLockSound ==
    ASSUME RegistryInv, LockSound, Collisions = {}, [Next]_vars
    PROVE  LockSound'
  <1>0. TypeOK /\ KeyOK /\ Held /\ RepoDrawn /\ CodeIndexExact
    BY DEF RegistryInv
  <1>1. ASSUME NEW r \in Requests, Create(r)
        PROVE  LockSound'
    <2>1. PICK id \in RoomIds, room \in Room : CreatedBy(r, id, room)
      BY <1>0, <1>1, CreateStep
    <2>3. Created(id, room)
      BY <2>1 DEF Created, CreatedBy
    <2>4. ASSUME NEW q \in barred', NEW key, key = req[q].key, Shut(key)
          PROVE  Shut(key)'
      <3>1. key # id /\ key # room.RoomCode
        BY <2>1, <2>4 DEF CreatedBy
      <3> QED BY <1>0, <2>3, <2>4, <3>1, LookupAfterCreate DEF Shut
    <2>5. barred' \subseteq barred /\ goto(r, "done")
      BY <1>1, <2>1 DEF Create, CreatedBy
    <2>6. ASSUME NEW q \in barred', NEW k, k = req[q].cp.ID, Bolted(k)
          PROVE  Bolted(k)'
      <3>1. q \in Requests
        BY <1>0, <2>5 DEF TypeOK
      <3>2. k \in RoomIds => req[q].cp # NoRoom
        BY <2>6, NoRoomIsNone
      <3>3. k \in RoomIds => k # id
        BY <2>3, <2>6, <3>1, <3>2 DEF RegistryInv, CopyDrawn, Created
      <3> QED BY <1>0, <2>3, <2>6, <3>3 DEF Bolted, IsRoom, Created, TypeOK
    <2> QED BY <1>0, <2>4, <2>5, <2>6, LockGoto
  <1>2. ASSUME NEW r \in Requests,
               foundExpired(r) \/ metadataReply(r) \/ joinDecide(r) \/ ValidateAccess(r)
        PROVE  LockSound'
    <2>1. UNCHANGED <<byID, byCode, barred>>
      BY <1>2 DEF foundExpired, metadataReply, joinDecide, ValidateAccess
    <2>2. \A key : (Shut(key) => Shut(key)') /\ (Bolted(key) => Bolted(key)')
      BY <2>1 DEF Shut, GetByCode, Bolted, IsRoom
    <2>3. CASE \E pc \in {"purge", "done", "refused"} : goto(r, pc)
      BY <1>0, <2>1, <2>2, <2>3, LockGoto
    <2>4. CASE /\ goto(r, "admitted") /\ accessible(req[r].cp)
               /\ req[r].pc \in {"joinRead", "wsRead"}
      <3>1. r \notin barred
        BY <2>4 DEF LockSound, accessible
      <3>2. \A q \in barred : q # r /\ req'[q] = req[q]
        BY <1>0, <2>4, <3>1 DEF goto, TypeOK
      <3> QED BY <2>1, <3>2 DEF LockSound, GetByCode, Bolted, IsRoom
    <2> QED BY <1>2, <2>3, <2>4 DEF foundExpired, metadataReply, joinDecide,
                                    ValidateAccess
  <1>3. ASSUME NEW r \in Requests, NEW ids, NEW pc \in {"refused", "done"},
               deleteRooms(ids), goto(r, pc), barred' = barred
        PROVE  LockSound'
    <2>1. \A key : Shut(key) => Shut(key)'
      BY <1>0, <1>3, LookupAfterDelete DEF Shut
    <2>2. \A id : Bolted(id) => Bolted(id)'
      BY <1>3 DEF Bolted, IsRoom, deleteRooms
    <2> QED BY <1>0, <1>3, <2>1, <2>2, LockGoto
  <1>4. ASSUME NEW r \in Requests, purge(r) \/ Destroy(r)
        PROVE  LockSound'
    <2>1. CASE purge(r) \/ IsRoom(req[r].key)
      BY <1>3, <1>4, <2>1 DEF purge, Destroy
    <2>2. CASE Destroy(r) /\ ~IsRoom(req[r].key)
      <3>1. goto(r, "refused") /\ UNCHANGED <<byID, byCode, barred>>
        BY <2>2 DEF Destroy
      <3>2. \A key : (Shut(key) => Shut(key)') /\ (Bolted(key) => Bolted(key)')
        BY <3>1 DEF Shut, GetByCode, Bolted, IsRoom
      <3> QED BY <1>0, <3>1, <3>2, LockGoto
    <2> QED BY <1>4, <2>1, <2>2
  <1>5. ASSUME NEW r \in Requests, UpdateLock(r)
        PROVE  LockSound'
    <2>1. CASE IsRoom(req[r].key)
      <3> DEFINE id == req[r].key
                 b == req[r].pc = "lock"
      <3>1. id \in RoomIds /\ b \in BOOLEAN
        BY <1>0, <1>5 DEF UpdateLock, KeyOK
      <3>2. Relocked(id, b) /\ goto(r, "done")
        BY <1>5, <2>1 DEF UpdateLock, Relocked
      <3>3. barred' = IF b THEN barred
                      ELSE {q \in barred : GetByCode(req[q].key) # byID[id]
                                               /\ req[q].cp.ID # id}
        BY <1>5, <2>1 DEF UpdateLock
      <3>4. PICK k \in RoomIds, v \in BOOLEAN : k = id /\ v = b
        BY <3>1
      <3> HIDE DEF id, b
      <3>5. Relocked(k, v)
        BY <3>2, <3>4
      <3>6. ASSUME NEW q \in barred', NEW key, key = req[q].key, Shut(key)
            PROVE  Shut(key)'
        <4>1. v \/ GetByCode(key) # byID[k]
          BY <3>3, <3>4, <3>6
        <4> QED BY <1>0, <3>5, <3>6, <4>1, LookupAfterLock DEF Shut
      <3>7. barred' \subseteq barred
        BY <3>3
      <3>8. ASSUME NEW q \in barred', NEW i, i = req[q].cp.ID, Bolted(i)
            PROVE  Bolted(i)'
        <4>1. v \/ i # k
          BY <3>3, <3>4, <3>8
        <4>2. byID[k] \in Room
          BY <1>0, <3>5 DEF Relocked, TypeOK, IsRoom
        <4>3. [byID[k] EXCEPT !.IsLocked = v].IsLocked = v
          BY <4>2 DEF Room
        <4> QED BY <1>0, <3>5, <3>8, <4>1, <4>3 DEF Bolted, Relocked, TypeOK, IsRoom
      <3> QED BY <1>0, <3>2, <3>6, <3>7, <3>8, LockGoto
    <2>2. CASE ~IsRoom(req[r].key)
      <3>1. goto(r, "refused") /\ UNCHANGED <<byID, byCode, barred>>
        BY <1>5, <2>2 DEF UpdateLock
      <3>2. \A key : (Shut(key) => Shut(key)') /\ (Bolted(key) => Bolted(key)')
        BY <3>1 DEF Shut, GetByCode, Bolted, IsRoom
      <3> QED BY <1>0, <3>1, <3>2, LockGoto
    <2> QED BY <2>1, <2>2
  <1>6. ASSUME NEW r \in Requests,
               Join(r) \/ WSAuth(r) \/ GetMetadata(r) \/ ownerRequest(r)
        PROVE  LockSound'
    <2>0. PICK pc \in {"join", "meta", "ws", "lock", "unlock", "destroy"} :
             \E key, peer : arrive(r, pc, key, peer)
      BY <1>6 DEF Join, WSAuth, GetMetadata, ownerRequest
    <2>1. PICK key, peer : arrive(r, pc, key, peer)
      BY <2>0
    <2>2. UNCHANGED <<byID, byCode>>
      BY <1>6 DEF Join, WSAuth, GetMetadata, ownerRequest
    <2>3. ASSUME NEW q \in barred', q # r
          PROVE  q \in barred /\ req'[q] = req[q]
      BY <1>0, <2>1, <2>3 DEF arrive, TypeOK
    <2>4. req'[r].pc = pc /\ req'[r].key = key
      BY <1>0, <2>1 DEF arrive, TypeOK
    <2>5. r \in barred' => GetByCode(key).IsLocked
      BY <1>0, <2>1 DEF arrive, LockSound
    <2> QED BY <2>2, <2>3, <2>4, <2>5 DEF LockSound, GetByCode, Bolted, IsRoom
  <1>7. ASSUME NEW r \in Requests, readRoom(r)
        PROVE  LockSound'
    <2>1. UNCHANGED <<byID, byCode, barred>>
      BY <1>7 DEF readRoom
    <2>2. \A q \in barred : q # r => req'[q] = req[q]
      BY <1>0, <1>7 DEF readRoom, TypeOK
    <2>3. /\ req'[r].cp = GetByCode(req[r].key) /\ req'[r].key = req[r].key
          /\ req'[r].pc \in {"refused", "joinRead", "wsRead", "metaRead"}
          /\ GetByCode(req[r].key) = NoRoom => req'[r].pc = "refused"
      BY <1>0, <1>7 DEF readRoom, TypeOK
    <2>4. req'[r].pc \in {"joinRead", "wsRead"} => req[r].pc \in {"join", "ws"}
      BY <1>0, <1>7 DEF readRoom, TypeOK
    <2>5. GetByCode(req[r].key) # NoRoom
            => byID[GetByCode(req[r].key).ID] = GetByCode(req[r].key)
      BY <1>0 DEF GetByCode, CodeIndexExact, IsRoom, TypeOK
    <2>6. r \in barred /\ req'[r].pc \in {"joinRead", "wsRead"}
            => req'[r].cp.IsLocked /\ Bolted(req'[r].cp.ID)
      BY <2>1, <2>3, <2>4, <2>5 DEF LockSound, Bolted, IsRoom
    <2> QED BY <2>1, <2>2, <2>3, <2>6, ZenonT(60) DEF LockSound, GetByCode, Bolted, IsRoom
  <1>10. ASSUME NEW r \in Requests, lateCopy(r)
         PROVE  LockSound'
    <2>1. UNCHANGED <<byID, byCode, barred>>
      BY <1>10 DEF lateCopy
    <2>2. \A q \in barred : q # r => req'[q] = req[q]
      BY <1>0, <1>10 DEF lateCopy, TypeOK
    <2>3. /\ req'[r].cp = GetByCode(req[r].cp.ID) /\ req'[r].key = req[r].key
          /\ req'[r].pc = req[r].pc /\ GetByCode(req[r].cp.ID) # NoRoom
          /\ req[r].pc \in {"joinRead", "wsRead", "metaRead"}
      BY <1>0, <1>10 DEF lateCopy, TypeOK
    <2>4. req[r].cp.ID \in RoomIds
      BY <1>0, <2>3 DEF Held, TypeOK, Room
    <2>5. req'[r].cp = byID[req[r].cp.ID] /\ req'[r].cp.ID = req[r].cp.ID
      <3>1. GetByCode(req[r].cp.ID) = byID[req[r].cp.ID]
        BY <2>4, NoRoomIsNone DEF GetByCode
      <3> QED BY <1>0, <2>3, <2>4, <3>1 DEF CodeIndexExact, IsRoom
    <2>6. r \in barred /\ req'[r].pc \in {"joinRead", "wsRead"}
            => req'[r].cp.IsLocked /\ Bolted(req'[r].cp.ID)
      BY <2>1, <2>3, <2>4, <2>5 DEF LockSound, Bolted, IsRoom
    <2>7. ASSUME NEW q \in barred, q # r
          PROVE  req'[q] = req[q] /\ Bolted(req[q].cp.ID)' = Bolted(req[q].cp.ID)
                 /\ GetByCode(req[q].key)' = GetByCode(req[q].key)
      BY <2>1, <2>2, <2>7 DEF GetByCode, Bolted, IsRoom
    <2>8. r \in barred => /\ req'[r].pc \notin {"new", "admitted", "join", "ws"}
                          /\ req'[r].pc \in {"joinRead", "wsRead"}
                                => req'[r].cp.IsLocked /\ Bolted(req[r].cp.ID)'
      BY <2>1, <2>3, <2>5, <2>6 DEF Bolted, IsRoom
    <2> QED BY <2>1, <2>5, <2>7, <2>8 DEF LockSound
  <1>8. CASE expireLoop
    <2>1. PICK ids : deleteRooms(ids)
      BY <1>8 DEF expireLoop
    <2>2. UNCHANGED <<req, barred>>
      BY <1>8 DEF expireLoop
    <2>3. \A key : GetByCode(key)' \in {NoRoom, GetByCode(key)}
      BY <1>0, <2>1, LookupAfterDelete
    <2>4. \A q \in barred : Bolted(req[q].cp.ID) => Bolted(req[q].cp.ID)'
      BY <2>1, <2>2 DEF Bolted, IsRoom, deleteRooms
    <2> QED BY <2>2, <2>3, <2>4 DEF LockSound
  <1>9. CASE (\E m \in members : leave(m)) \/ tick \/ UNCHANGED vars
    BY <1>9 DEF leave, tick, vars, LockSound, GetByCode, Bolted, IsRoom
  <1> QED BY <1>1, <1>2, <1>4, <1>5, <1>6, <1>7, <1>8, <1>9, <1>10, NextCases

\* A lock holds although Join and ValidateAccess decide on a copy: whoever
\* comes in after the lock and meets no unlock gets neither token nor upgrade.
THEOREM LockIsEffective ==
    ASSUME Collisions = {}
    PROVE  Spec => []LockHolds
  <1>1. Init => RegistryInv /\ LockSound
    BY InitRegistryInv DEF Init, LockSound
  <1>2. (RegistryInv /\ LockSound) /\ [Next]_vars => (RegistryInv /\ LockSound)'
    BY NextRegistryInv, NextLockSound
  <1>3. RegistryInv /\ LockSound => LockHolds
    BY DEF LockSound, LockHolds
  <1> QED BY <1>1, <1>2, <1>3, PTL DEF Spec
=============================================================================

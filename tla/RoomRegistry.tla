---------------------------- MODULE RoomRegistry ----------------------------
(***************************************************************************)
(* The REST side of one server: MemoryRoomRepository, RoomService, the     *)
(* RoomHandler and the check in front of the WebSocket upgrade.            *)
(*                                                                         *)
(* Every HTTP request runs in a goroutine of its own.  What it does under  *)
(* one acquisition of the repository's mutex is one action, so a request   *)
(* decides on a copy of the room that others may have changed or deleted   *)
(* since.  Every page that creates or joins a room draws a new random peer *)
(* id: the request stands for it.  A refused request changes nothing.      *)
(***************************************************************************)
EXTENDS Integers, FiniteSets

CONSTANTS
    RoomIds,      \* room ids (UUIDs drawn by the page, or by CreateRoom)
    Codes,        \* room codes
    Requests,     \* HTTP requests over the lifetime of the instance (a bound)
    Lifetimes,    \* lifetimes asked for; 0 or less is none
    MaxLifetime,  \* 720 hours
    Day,          \* 24 hours: default lifetime of temporary rooms and of tokens
    Limits,       \* max_members asked for; 0 or less is the default
    DefaultLimit, \* 10
    MaxTime,      \* end of the clock (a bound)
    Collisions    \* which random draws may repeat: "id", "code"

NoId == "no id"
Never == -1
NoRoom == [ID |-> NoId, RoomCode |-> NoId, MaxMembers |-> 0, MemberCount |-> 0,
           IsLocked |-> FALSE, ExpiresAt |-> Never]

ASSUME RegistryAssumption ==
    /\ NoId \notin RoomIds \union Codes \union Requests
    /\ RoomIds \intersect Codes = {}
    /\ Lifetimes \subseteq Int /\ Limits \subseteq Int
    /\ Day \in Nat /\ MaxLifetime \in Nat /\ MaxTime \in Nat
    /\ DefaultLimit \in Nat \ {0}
    /\ Collisions \subseteq {"id", "code"}

VARIABLES
    byID,     \* room id -> Room
    byCode,   \* room code -> room id
    now,      \* time.Now()
    req,      \* what each request is about to do
    tokens,   \* room tokens that have been signed
    members,  \* WebSocket connections admitted and still up
    drawn,    \* history: ids and codes drawn so far
    barred    \* history: requests facing a locked room ever since they came in

vars == <<byID, byCode, now, req, tokens, members, drawn, barred>>

Room == [ID : RoomIds, RoomCode : Codes, MaxMembers : Nat \ {0},
         MemberCount : Nat, IsLocked : BOOLEAN, ExpiresAt : Nat \union {Never}]
Token == [RoomID : RoomIds, PeerID : Requests, Role : {"owner", "member"},
          exp : Nat]
RequestPC == {"new", "join", "joinRead", "ws", "wsRead", "meta", "metaRead",
              "purge", "lock", "unlock", "destroy", "refused", "admitted", "done"}

NewRequest == [pc |-> "new", key |-> NoId, peer |-> NoId, cp |-> NoRoom]

Init ==
    /\ byID = [id \in RoomIds |-> NoRoom]
    /\ byCode = [code \in Codes |-> NoId]
    /\ now = 0
    /\ req = [r \in Requests |-> NewRequest]
    /\ tokens = {}
    /\ members = {}
    /\ drawn = {}
    /\ barred = {}

-----------------------------------------------------------------------------
(* Helpers *)

IsRoom(id) == byID[id] # NoRoom

\* room.ExpiresAt != nil && now.After(*room.ExpiresAt)
BugExpiresEarly(room) == room.ExpiresAt # Never /\ now + 1 > room.ExpiresAt
BugNeverExpires(room) == FALSE
expired(room) == room.ExpiresAt # Never /\ now > room.ExpiresAt

\* The expiry CreateRoom gives a room.
expiresAt(lifetime, temporary) ==
    CASE lifetime > 0 -> now + lifetime
      [] lifetime <= 0 /\ temporary -> now + Day
      [] OTHER -> Never

maxMembers(limit) == IF limit <= 0 THEN DefaultLimit ELSE limit

\* A token lives as long as its room, or a day.
BugTokenLivesADay(room) == now + Day
tokenExpiry(room) == IF room.ExpiresAt = Never THEN now + Day ELSE room.ExpiresAt

GenerateRoomToken(room, peer, role) ==
    [RoomID |-> room.ID, PeerID |-> peer, Role |-> role,
     exp |-> tokenExpiry(room)]

\* ValidateRoomToken: the signature is one of ours and exp is ahead.
validTokens == {t \in tokens : now < t.exp}

\* GetByCode: a code, or else a room id; with a room id it is GetByID.
GetByCode(key) ==
    CASE key \in RoomIds -> byID[key]
      [] key \in Codes /\ byCode[key] # NoId -> byID[byCode[key]]
      [] OTHER -> NoRoom

\* Join and ValidateAccess let a request in.
BugIgnoresLock(room) == room.MemberCount < room.MaxMembers
accessible(room) == ~room.IsLocked /\ room.MemberCount < room.MaxMembers

\* delete(r.byCode, room.RoomCode); delete(r.byID, id) for a set of rooms.
BugForgetsCode(ids) == byCode
freedCodes(ids) ==
    [code \in Codes |-> IF \E id \in ids : byID[id].RoomCode = code
                        THEN NoId ELSE byCode[code]]

deleteRooms(ids) ==
    /\ byCode' = freedCodes(ids)
    /\ byID' = [id \in RoomIds |-> IF id \in ids THEN NoRoom ELSE byID[id]]

\* Request r goes on at pc.
goto(r, pc) == req' = [req EXCEPT ![r].pc = pc]

\* Request r arrives and is about to look at the room of key.
arrive(r, pc, key, peer) ==
    /\ req[r].pc = "new"
    /\ req' = [req EXCEPT ![r] = [pc |-> pc, key |-> key, peer |-> peer,
                                  cp |-> NoRoom]]
    /\ barred' = IF GetByCode(key) # NoRoom /\ GetByCode(key).IsLocked
                 THEN barred \union {r} ELSE barred

-----------------------------------------------------------------------------
(* POST /rooms *)

Create(r) ==
    /\ req[r].pc = "new"
    /\ \E id \in RoomIds, code \in Codes, lifetime \in Lifetimes,
          limit \in Limits, temporary \in BOOLEAN :
          LET room == [ID |-> id, RoomCode |-> code,
                       MaxMembers |-> maxMembers(limit), MemberCount |-> 0,
                       IsLocked |-> FALSE,
                       ExpiresAt |-> expiresAt(lifetime, temporary)]
          IN /\ lifetime <= MaxLifetime
             /\ id \in drawn => "id" \in Collisions
             /\ code \in drawn => "code" \in Collisions
             /\ drawn' = drawn \union {id, code}
             /\ byID' = [byID EXCEPT ![id] = room]
             /\ byCode' = [byCode EXCEPT ![code] = id]
             /\ tokens' = tokens \union {GenerateRoomToken(room, r, "owner")}
             /\ barred' = {q \in barred : req[q].key \notin {id, code}}
    /\ goto(r, "done")
    /\ UNCHANGED <<now, members>>

-----------------------------------------------------------------------------
(* POST /rooms/join *)

Join(r) ==
    /\ \E key \in Codes \union RoomIds : arrive(r, "join", key, r)
    /\ UNCHANGED <<byID, byCode, now, tokens, members, drawn>>

\* GetByID and GetByCode find the room under the read lock and copy it.
readRoom(r) ==
    LET room == GetByCode(req[r].key) IN
    /\ req[r].pc \in {"join", "ws", "meta"}
    /\ req' = [req EXCEPT ![r].cp = room,
                          ![r].pc = CASE room = NoRoom -> "refused"
                                      [] room # NoRoom /\ @ = "join" -> "joinRead"
                                      [] room # NoRoom /\ @ = "ws" -> "wsRead"
                                      [] OTHER -> "metaRead"]
    /\ UNCHANGED <<byID, byCode, now, tokens, members, drawn, barred>>

\* The copy is made after the read lock is released (in GetByCode only when
\* the key is a code), so it races with UpdateLock and may show what the room
\* has become until the request looks at it.  A deleted room no longer changes.
lateCopy(r) ==
    LET room == GetByCode(req[r].cp.ID) IN
    /\ req[r].pc \in {"joinRead", "wsRead", "metaRead"}
    /\ req[r].pc = "joinRead" => req[r].key \in Codes
    /\ room # NoRoom /\ room.RoomCode = req[r].cp.RoomCode
    /\ req' = [req EXCEPT ![r].cp = room]
    /\ UNCHANGED <<byID, byCode, now, tokens, members, drawn, barred>>

\* GetRoom and GetRoomByCode: an expired copy leads to a lazy deletion.
foundExpired(r) ==
    /\ req[r].pc \in {"joinRead", "wsRead", "metaRead"}
    /\ expired(req[r].cp)
    /\ goto(r, "purge")
    /\ UNCHANGED <<byID, byCode, now, tokens, members, drawn, barred>>

\* Delete of the lazy deletion: by id, whatever room it names by now.
purge(r) ==
    /\ req[r].pc = "purge"
    /\ deleteRooms({id \in {req[r].cp.ID} : IsRoom(id)})
    /\ goto(r, "refused")
    /\ UNCHANGED <<now, tokens, members, drawn, barred>>

\* The rest of Join: the copy decides.
joinDecide(r) ==
    /\ req[r].pc = "joinRead"
    /\ ~expired(req[r].cp)
    /\ IF accessible(req[r].cp)
       THEN /\ tokens' = tokens \union {GenerateRoomToken(req[r].cp, r, "member")}
            /\ goto(r, "admitted")
       ELSE UNCHANGED tokens /\ goto(r, "refused")
    /\ UNCHANGED <<byID, byCode, now, members, drawn, barred>>

-----------------------------------------------------------------------------
(* GET /ws: WSAuthMiddleware and the upgrade *)

WSAuth(r) ==
    /\ \E t \in validTokens : arrive(r, "ws", t.RoomID, t.PeerID)
    /\ UNCHANGED <<byID, byCode, now, tokens, members, drawn>>

\* ValidateAccess on the copy, then WSHandler; nothing counts the member.
ValidateAccess(r) ==
    /\ req[r].pc = "wsRead"
    /\ ~expired(req[r].cp)
    /\ IF accessible(req[r].cp)
       THEN /\ members' = members \union {[RoomID |-> req[r].key, PeerID |-> req[r].peer]}
            /\ goto(r, "admitted")
       ELSE UNCHANGED members /\ goto(r, "refused")
    /\ UNCHANGED <<byID, byCode, now, tokens, drawn, barred>>

\* A member's connection ends.
leave(m) ==
    /\ members' = members \ {m}
    /\ UNCHANGED <<byID, byCode, now, req, tokens, drawn, barred>>

-----------------------------------------------------------------------------
(* GET /rooms/:id, and the owner's requests *)

GetMetadata(r) ==
    /\ \E id \in RoomIds : arrive(r, "meta", id, NoId)
    /\ UNCHANGED <<byID, byCode, now, tokens, members, drawn>>

metadataReply(r) ==
    /\ req[r].pc = "metaRead"
    /\ ~expired(req[r].cp)
    /\ goto(r, "done")
    /\ UNCHANGED <<byID, byCode, now, tokens, members, drawn, barred>>

\* RoomAuthMiddleware and the check of the claims.
ownerRequest(r) ==
    /\ \E t \in validTokens, pc \in {"lock", "unlock", "destroy"} :
          t.Role = "owner" /\ arrive(r, pc, t.RoomID, t.PeerID)
    /\ UNCHANGED <<byID, byCode, now, tokens, members, drawn>>

\* UpdateLock in place, or room not found.
UpdateLock(r) ==
    LET id == req[r].key IN
    /\ req[r].pc \in {"lock", "unlock"}
    /\ IF IsRoom(id)
       THEN /\ byID' = [byID EXCEPT ![id].IsLocked = req[r].pc = "lock"]
            /\ goto(r, "done")
            /\ barred' = IF req[r].pc = "lock" THEN barred
                         ELSE {q \in barred : GetByCode(req[q].key) # byID[id]
                                             /\ req[q].cp.ID # id}
       ELSE UNCHANGED <<byID, barred>> /\ goto(r, "refused")
    /\ UNCHANGED <<byCode, now, tokens, members, drawn>>

\* Destroy deletes the room; nobody tells the hub.
Destroy(r) ==
    LET id == req[r].key IN
    /\ req[r].pc = "destroy"
    /\ IF IsRoom(id)
       THEN deleteRooms({id}) /\ goto(r, "done")
       ELSE UNCHANGED <<byID, byCode>> /\ goto(r, "refused")
    /\ UNCHANGED <<now, tokens, members, drawn, barred>>

-----------------------------------------------------------------------------
(* The repository's ticker and the clock *)

expireLoop ==
    LET ids == {id \in RoomIds : IsRoom(id) /\ expired(byID[id])} IN
    /\ ids # {}
    /\ deleteRooms(ids)
    /\ UNCHANGED <<now, req, tokens, members, drawn, barred>>

tick ==
    /\ now < MaxTime
    /\ now' = now + 1
    /\ UNCHANGED <<byID, byCode, req, tokens, members, drawn, barred>>

Next ==
    \/ \E r \in Requests :
          \/ Create(r) \/ Join(r) \/ WSAuth(r) \/ GetMetadata(r)
          \/ ownerRequest(r) \/ readRoom(r) \/ lateCopy(r)
          \/ foundExpired(r) \/ purge(r) \/ joinDecide(r) \/ ValidateAccess(r)
          \/ metadataReply(r) \/ UpdateLock(r) \/ Destroy(r)
    \/ \E m \in members : leave(m)
    \/ expireLoop \/ tick

Spec == Init /\ [][Next]_vars

\* The ticker fires every minute for as long as the process lives.
FairSpec == Spec /\ WF_vars(expireLoop)

-----------------------------------------------------------------------------
(* Properties *)

\* Every variable keeps its type.
TypeOK ==
    /\ byID \in [RoomIds -> Room \union {NoRoom}]
    /\ byCode \in [Codes -> RoomIds \union {NoId}]
    /\ now \in Nat
    /\ req \in [Requests -> [pc : RequestPC,
                             key : RoomIds \union Codes \union {NoId},
                             peer : Requests \union {NoId},
                             cp : Room \union {NoRoom}]]
    /\ tokens \in SUBSET Token
    /\ members \in SUBSET [RoomID : RoomIds, PeerID : Requests]
    /\ drawn \in SUBSET (RoomIds \union Codes)
    /\ barred \in SUBSET Requests

\* The two maps of the repository are inverse to each other: a code leads to
\* the room that has it, and every room is reached by its code, however
\* creations, deletions, lazy deletions and the expiry loop interleave.
CodeIndexExact ==
    /\ \A id \in RoomIds : IsRoom(id) =>
          byID[id].ID = id /\ byCode[byID[id].RoomCode] = id
    /\ \A code \in Codes : byCode[code] # NoId =>
          IsRoom(byCode[code]) /\ byID[byCode[code]].RoomCode = code

\* No token outlives its room, the ones Join signs from a copy included.
TokensWithinRoomLife ==
    \A t \in tokens : IsRoom(t.RoomID) /\ byID[t.RoomID].ExpiresAt # Never
        => t.exp <= byID[t.RoomID].ExpiresAt

\* A lock holds: a join or an upgrade that comes in after the lock and meets
\* no unlock is never let in.
LockHolds == \A r \in barred : req[r].pc # "admitted"

\* A room that has not expired goes away only through Destroy, although purge
\* and expireLoop delete by what they have read before.
LiveRoomStays ==
    [][\A id \in RoomIds :
         IsRoom(id) /\ ~(byID[id].ExpiresAt # Never /\ now > byID[id].ExpiresAt)
             => byID'[id] # NoRoom \/ \E r \in Requests :
                    req[r].pc = "destroy" /\ req[r].key = id]_vars

\* An expired room is purged although nobody asks for it.
ExpiredRoomPurged ==
    \A id \in RoomIds :
        (IsRoom(id) /\ byID[id].ExpiresAt # Never /\ now > byID[id].ExpiresAt)
            ~> ~IsRoom(id)
=============================================================================

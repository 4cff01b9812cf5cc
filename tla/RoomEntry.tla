------------------------------ MODULE RoomEntry ------------------------------
(***************************************************************************)
(* How tabs get into rooms and out again: the home page (app/page.tsx),    *)
(* the start of the room page, its leave, lock and destroy buttons, and    *)
(* createRoom, joinRoom, connectSignaling and disconnectRoom of            *)
(* roomStore.ts, with sessionStorage and the server's rooms.               *)
(*                                                                         *)
(* Every navigation loads a new page: the store and all calls are gone,    *)
(* sessionStorage stays.  RoomRegistry has the server's side in detail,    *)
(* SignalingClient the client's.                                           *)
(***************************************************************************)
EXTENDS Naturals, Sequences, FiniteSets

CONSTANTS
    Tabs, Rooms,
    Made,      \* rooms that others have made
    Builds,    \* what the pages run: "development" builds mount them twice
    MaxPeers,  \* identities the server hands out (a bound)
    MaxLoads   \* room pages a tab loads (a bound)

None == "none"

ASSUME EntryAssumption ==
    /\ None \notin Rooms /\ Made \subseteq Rooms
    /\ Builds \subseteq {"production", "development"}
    /\ MaxPeers \in Nat /\ MaxLoads \in Nat

VARIABLES
    build,     \* which build is deployed
    room,      \* each room on the server
    minted,    \* identities handed out
    page,      \* the page of each tab
    store,     \* the room store of that page
    session,   \* token_<room> and role_<room> in sessionStorage
    busy,      \* isCreating and isJoining
    scanner,   \* isScannerOpen
    tasks,     \* calls of createRoom, joinRoom and the room page's initialize
    guard,     \* initializingRoomId
    conns,     \* connectSignaling calls that generate keys
    clients,   \* signaling clients made by the page
    loads

vars == <<build, room, minted, page, store, session, busy, scanner, tasks, guard, conns,
          clients, loads>>
server == <<build, room, minted>>
homeVars == <<busy, scanner>>
linkVars == <<guard, conns, clients>>

\* The claims of a room token; every token is issued for a new identity.
Token == [room : Rooms, role : {"owner", "member"}, peer : 1..MaxPeers]

NoToken == [room |-> None, role |-> None, peer |-> 0]
EmptyStore == [token |-> NoToken, role |-> None, peer |-> 0, locked |-> FALSE]
NoSession == [token |-> NoToken, role |-> None]
Home == [at |-> None, byId |-> FALSE]

Init ==
    /\ build \in Builds
    /\ room = [r \in Rooms |-> IF r \in Made THEN "open" ELSE "none"] /\ minted = 0
    /\ page = [t \in Tabs |-> Home] /\ store = [t \in Tabs |-> EmptyStore]
    /\ session = [t \in Tabs |-> [r \in Rooms |-> NoSession]]
    /\ busy = [t \in Tabs |-> FALSE] /\ scanner = [t \in Tabs |-> FALSE]
    /\ tasks = [t \in Tabs |-> {}]
    /\ guard = [t \in Tabs |-> None] /\ conns = [t \in Tabs |-> <<>>]
    /\ clients = [t \in Tabs |-> <<>>]
    /\ loads = [t \in Tabs |-> 0]

\* React's Strict Mode.
StrictMode == build = "development"

Task(op, r, at) == [op |-> op, room |-> r, at |-> at, cancelled |-> FALSE]
next(t, k, r, at) ==
    [tasks EXCEPT ![t] = (@ \ {k}) \union {[k EXCEPT !.room = r, !.at = at]}]
done(t, k) == [tasks EXCEPT ![t] = @ \ {k}]

-----------------------------------------------------------------------------
(* connectSignaling and disconnectRoom *)

\* A call for a room that is being connected shares the promise of the first.
BugNoGuard(initializing, r) == FALSE
sharesPromise(initializing, r) == initializing = r

\* The identity is the store's, or that of the token.
BugFreshIdentity(peer, tok) == IF peer = 0 THEN MaxPeers + 1 ELSE peer
identity(peer, tok) == IF peer = 0 THEN tok.peer ELSE peer

connectSignaling(t, peer, tok) ==
    IF sharesPromise(guard[t], tok.room) \/ \E i \in DOMAIN clients[t] : clients[t][i].open
    THEN UNCHANGED <<guard, conns>>
    ELSE /\ guard' = [guard EXCEPT ![t] = tok.room]
         /\ conns' = [conns EXCEPT ![t] = Append(@, [token |-> tok, peer |-> identity(peer, tok)])]

\* The keys are there: the state is set and the client starts to connect.
keysGenerated(t) ==
    /\ conns[t] # <<>>
    /\ LET c == Head(conns[t]) IN
       /\ store' = [store EXCEPT ![t] = [@ EXCEPT !.token = c.token, !.role = c.token.role,
                                                  !.peer = c.peer]]
       /\ clients' = [clients EXCEPT ![t] = Append(@, [token |-> c.token, open |-> FALSE])]
    /\ conns' = [conns EXCEPT ![t] = Tail(@)]
    /\ UNCHANGED <<server, page, session, homeVars, tasks, guard, loads>>

\* The upgrade is allowed into a room that is not locked; the client retries.
clientOpens(t, i) ==
    /\ ~clients[t][i].open /\ room[clients[t][i].token.room] = "open"
    /\ clients' = [clients EXCEPT ![t][i].open = TRUE]
    /\ guard' = [guard EXCEPT ![t] = None]
    /\ UNCHANGED <<server, page, store, session, homeVars, tasks, conns, loads>>

connectionLost(t, i) ==
    /\ clients[t][i].open
    /\ clients' = [clients EXCEPT ![t][i].open = FALSE]
    /\ UNCHANGED <<server, page, store, session, homeVars, tasks, guard, conns, loads>>

-----------------------------------------------------------------------------
(* Navigation *)

unload(t) ==
    /\ tasks' = [tasks EXCEPT ![t] = {}] /\ guard' = [guard EXCEPT ![t] = None]
    /\ conns' = [conns EXCEPT ![t] = <<>>] /\ clients' = [clients EXCEPT ![t] = <<>>]
    /\ store' = [store EXCEPT ![t] = EmptyStore]
    /\ busy' = [busy EXCEPT ![t] = FALSE] /\ scanner' = [scanner EXCEPT ![t] = FALSE]

goHome(t) == unload(t) /\ page' = [page EXCEPT ![t] = Home]

\* What initialize does before its first await, on a page that has just been
\* loaded: a token of the session connects; else the room is looked up by its
\* id, or joined by its code.  A second mount, after the cleanup of the first
\* has cancelled it and emptied the store, does the same.
lookup(r, byId) == Task("init", r, IF byId THEN "lookup" ELSE "join")

mount(t, r, byId) ==
    LET tok == session[t][r].token
        c == [token |-> tok, peer |-> identity(0, tok)] IN
    IF byId /\ tok # NoToken
    THEN /\ guard' = [guard EXCEPT ![t] = r]
         /\ conns' = [conns EXCEPT ![t] = IF StrictMode /\ ~sharesPromise(r, r)
                                          THEN <<c, c>> ELSE <<c>>]
         /\ tasks' = [tasks EXCEPT ![t] = {}]
    ELSE /\ tasks' = [tasks EXCEPT ![t] =
               {lookup(r, byId)} \union
               (IF StrictMode THEN {[lookup(r, byId) EXCEPT !.cancelled = TRUE]} ELSE {})]
         /\ guard' = [guard EXCEPT ![t] = None] /\ conns' = [conns EXCEPT ![t] = <<>>]

loadRoom(t, r, byId) ==
    /\ loads[t] < MaxLoads /\ loads' = [loads EXCEPT ![t] = @ + 1]
    /\ page' = [page EXCEPT ![t] = [at |-> r, byId |-> byId]]
    /\ mount(t, r, byId)
    /\ clients' = [clients EXCEPT ![t] = <<>>] /\ store' = [store EXCEPT ![t] = EmptyStore]
    /\ busy' = [busy EXCEPT ![t] = FALSE] /\ scanner' = [scanner EXCEPT ![t] = FALSE]

\* A shared link names a room by its code: an invitation.
openLink(t, r) ==
    /\ page[t] = Home /\ ~busy[t] /\ room[r] # "none"
    /\ loadRoom(t, r, FALSE)
    /\ UNCHANGED <<server, session>>

\* The history of the browser has the room's id, as has a reload.
revisit(t, r) ==
    /\ session[t][r] # NoSession
    /\ (page[t] = Home /\ ~busy[t]) \/ page[t] = [at |-> r, byId |-> TRUE]
    /\ loadRoom(t, r, TRUE)
    /\ UNCHANGED <<server, session>>

\* Leave room: disconnectRoom, then the home page.
leave(t) ==
    /\ page[t] # Home
    /\ goHome(t)
    /\ UNCHANGED <<server, session, loads>>

-----------------------------------------------------------------------------
(* The home page *)

\* Both forms are disabled while one of them is busy.
BugStaysEnabled(t) == TRUE
enabled(t) == ~busy[t]

\* The scanner covers the forms.
usesForm(t) == page[t] = Home /\ enabled(t) /\ ~scanner[t]

handleCreateRoom(t) ==
    /\ usesForm(t) /\ loads[t] < MaxLoads
    /\ busy' = [busy EXCEPT ![t] = TRUE]
    /\ tasks' = [tasks EXCEPT ![t] = @ \union {Task("create", None, "request")}]
    /\ UNCHANGED <<server, page, store, session, scanner, linkVars, loads>>

\* A code, typed or scanned, is an invitation.
joins(t, r) ==
    /\ room[r] # "none" /\ loads[t] < MaxLoads
    /\ busy' = [busy EXCEPT ![t] = TRUE]
    /\ tasks' = [tasks EXCEPT ![t] = @ \union {Task("join", r, "join")}]
    /\ UNCHANGED <<server, page, store, session, linkVars, loads>>

handleJoinRoom(t, r) == usesForm(t) /\ joins(t, r) /\ UNCHANGED scanner

openScanner(t) ==
    /\ usesForm(t) /\ ~scanner[t]
    /\ scanner' = [scanner EXCEPT ![t] = TRUE]
    /\ UNCHANGED <<server, page, store, session, busy, tasks, linkVars, loads>>

closeScanner(t) ==
    /\ scanner[t]
    /\ scanner' = [scanner EXCEPT ![t] = FALSE]
    /\ UNCHANGED <<server, page, store, session, busy, tasks, linkVars, loads>>

handleScanSuccess(t, r) ==
    /\ page[t] = Home /\ scanner[t] /\ joins(t, r)
    /\ scanner' = [scanner EXCEPT ![t] = FALSE]

-----------------------------------------------------------------------------
(* createRoom and joinRoom, and what their callers do with the result *)

\* What createRoom and joinRoom keep of an answer.
entered(t, tok) ==
    /\ minted' = tok.peer
    /\ store' = [store EXCEPT ![t] = [token |-> tok, role |-> tok.role, peer |-> tok.peer,
                                      locked |-> FALSE]]
issued(r, role) == [room |-> r, role |-> role, peer |-> minted + 1]

createAnswered(t, k) ==
    /\ k.op = "create" /\ k.at = "request" /\ minted < MaxPeers
    /\ \E r \in Rooms :
          /\ room[r] = "none" /\ room' = [room EXCEPT ![r] = "open"]
          /\ entered(t, issued(r, "owner"))
          /\ tasks' = next(t, k, r, "saved")
    /\ UNCHANGED <<build, page, session, homeVars, linkVars, loads>>

joinAnswered(t, k) ==
    /\ k.at = "join" /\ room[k.room] = "open" /\ minted < MaxPeers
    /\ entered(t, issued(k.room, "member"))
    /\ tasks' = next(t, k, k.room, "saved")
    /\ UNCHANGED <<build, room, page, session, homeVars, linkVars, loads>>

\* Locked, expired, unknown, or no answer: the home page offers its forms again,
\* the room page goes home after three seconds unless it has been cancelled.
\* (A user who has touched the page is warned and may stay; that is left out.)
BugDoesNotGiveUp(t, k) == done(t, k)
failed(t, k) == IF k.cancelled THEN done(t, k) ELSE next(t, k, k.room, "giveUp")

requestFailed(t, k) ==
    /\ k.at \in {"request", "join"}
    /\ IF k.op # "init"
       THEN tasks' = done(t, k) /\ busy' = [busy EXCEPT ![t] = FALSE]
       ELSE tasks' = failed(t, k) /\ UNCHANGED busy
    /\ UNCHANGED <<server, page, store, session, scanner, linkVars, loads>>

\* The home page redirects a second after it has written the session; the room
\* page connects.  Either takes the token the store has by now.
remember(t, r) ==
    session' = [session EXCEPT ![t][r] = [token |-> store[t].token, role |-> store[t].role]]

roomSaved(t, k) ==
    LET r == IF k.op = "create" THEN store[t].token.room ELSE k.room IN
    /\ k.at = "saved"
    /\ IF k.cancelled THEN tasks' = done(t, k) /\ UNCHANGED <<session, page, linkVars>>
       ELSE /\ remember(t, r)
            /\ IF k.op = "init"
               THEN /\ tasks' = done(t, k)
                    /\ page' = [page EXCEPT ![t].byId = TRUE]
                    /\ connectSignaling(t, store[t].peer, store[t].token)
                    /\ UNCHANGED clients
               ELSE tasks' = next(t, k, r, "redirect") /\ UNCHANGED <<page, linkVars>>
    /\ UNCHANGED <<server, store, homeVars, loads>>

redirect(t, k) ==
    /\ k.at = "redirect" /\ loadRoom(t, k.room, TRUE)
    /\ UNCHANGED <<server, session>>

\* GET /rooms/:id answers, or not: the id is then tried as a code and refused.
lookedUp(t, k) ==
    /\ k.at = "lookup"
    /\ tasks' = IF k.cancelled THEN done(t, k) ELSE next(t, k, k.room, "join")
    /\ UNCHANGED <<server, page, store, session, homeVars, linkVars, loads>>

giveUp(t, k) ==
    /\ k.at = "giveUp" /\ goHome(t)
    /\ UNCHANGED <<server, session, loads>>

-----------------------------------------------------------------------------
(* Room controls *)

\* Who sees the owner's buttons; the server looks at the token.
owns(t, r) ==
    /\ page[t].at = r /\ store[t].role = "owner"
    /\ store[t].token.room = r /\ store[t].token.role = "owner"

lockRoom(t, r) ==
    /\ owns(t, r) /\ ~store[t].locked /\ room[r] \in {"open", "locked"}
    /\ room' = [room EXCEPT ![r] = "locked"]
    /\ store' = [store EXCEPT ![t].locked = TRUE]
    /\ UNCHANGED <<build, minted, page, session, homeVars, tasks, linkVars, loads>>

unlockRoom(t, r) ==
    /\ owns(t, r) /\ store[t].locked /\ room[r] \in {"open", "locked"}
    /\ room' = [room EXCEPT ![r] = "open"]
    /\ store' = [store EXCEPT ![t].locked = FALSE]
    /\ UNCHANGED <<build, minted, page, session, homeVars, tasks, linkVars, loads>>

\* The page goes home, unless the user answers the warning of beforeunload by
\* staying.
destroyRoom(t, r) ==
    /\ owns(t, r) /\ room[r] \in {"open", "locked"}
    /\ room' = [room EXCEPT ![r] = "gone"]
    /\ \/ goHome(t)
       \/ /\ store' = [store EXCEPT ![t] = EmptyStore]
          /\ clients' = [clients EXCEPT ![t] = <<>>]
          /\ UNCHANGED <<page, homeVars, tasks, guard, conns>>
    /\ UNCHANGED <<build, minted, session, loads>>

expire(r) ==
    /\ room[r] \in {"open", "locked"}
    /\ room' = [room EXCEPT ![r] = "gone"]
    /\ UNCHANGED <<build, minted, page, store, session, homeVars, tasks, linkVars, loads>>

-----------------------------------------------------------------------------
taskStep(t) ==
    \E k \in tasks[t] :
        \/ createAnswered(t, k) \/ joinAnswered(t, k) \/ requestFailed(t, k)
        \/ roomSaved(t, k) \/ redirect(t, k) \/ lookedUp(t, k) \/ giveUp(t, k)

clientStep(t) == keysGenerated(t) \/ \E i \in DOMAIN clients[t] : clientOpens(t, i)

Next ==
    \/ \E t \in Tabs :
          \/ taskStep(t) \/ clientStep(t)
          \/ handleCreateRoom(t) \/ openScanner(t) \/ closeScanner(t) \/ leave(t)
          \/ \E i \in DOMAIN clients[t] : connectionLost(t, i)
          \/ \E r \in Rooms :
                \/ openLink(t, r) \/ revisit(t, r)
                \/ handleJoinRoom(t, r) \/ handleScanSuccess(t, r)
                \/ lockRoom(t, r) \/ unlockRoom(t, r) \/ destroyRoom(t, r)
    \/ \E r \in Rooms : expire(r)

Spec == Init /\ [][Next]_vars

\* The server answers, timers fire and clients retry.
FairSpec == Spec /\ \A t \in Tabs : WF_vars(taskStep(t)) /\ WF_vars(clientStep(t))

-----------------------------------------------------------------------------
(* Properties *)

Tokens == Token \union {NoToken}
Roles == {"owner", "member", None}

\* Every variable keeps its type.
TypeOK ==
    /\ build \in Builds
    /\ room \in [Rooms -> {"none", "open", "locked", "gone"}] /\ minted \in 0..MaxPeers
    /\ page \in [Tabs -> [at : Rooms \union {None}, byId : BOOLEAN]]
    /\ store \in [Tabs -> [token : Tokens, role : Roles, peer : 0..MaxPeers, locked : BOOLEAN]]
    /\ session \in [Tabs -> [Rooms -> [token : Tokens, role : Roles]]]
    /\ busy \in [Tabs -> BOOLEAN] /\ scanner \in [Tabs -> BOOLEAN]
    /\ tasks \in [Tabs -> SUBSET
           [op : {"create", "join", "init"}, room : Rooms \union {None},
            at : {"request", "lookup", "join", "saved", "redirect", "giveUp"},
            cancelled : BOOLEAN]]
    /\ guard \in [Tabs -> Rooms \union {None}]
    /\ conns \in [Tabs -> Seq([token : Tokens, peer : 0..MaxPeers])]
    /\ clients \in [Tabs -> Seq([token : Tokens, open : BOOLEAN])]
    /\ loads \in [Tabs -> 0..MaxLoads]

\* What sessionStorage has for a room is a token of that room with its role,
\* although a call reads the store again after its awaits.
SessionTokenFits ==
    \A t \in Tabs, r \in Rooms :
        session[t][r] # NoSession =>
            session[t][r].token.room = r /\ session[t][r].token.role = session[t][r].role

\* A page has one signaling client, or one call that makes it, however often
\* React mounts it.
OneClient == \A t \in Tabs : Len(conns[t]) + Len(clients[t]) <= 1

\* The page knows itself by the identity the hub knows it by; peers are told
\* apart and the initiator of a connection is chosen by it.  (A page that is
\* mounted twice without a token joins twice, and takes over the identity of
\* the answer that comes last.)
IdentityAgrees ==
    ~StrictMode => \A t \in Tabs : \A i \in DOMAIN clients[t] :
        store[t].peer \in {0, clients[t][i].token.peer}

\* A home page that is busy gets to a room or offers its forms again, and a room
\* page that is being entered connects, goes home, or waits before a room that
\* lets nobody in.
VisitDecides ==
    \A t \in Tabs :
        /\ busy[t] ~> ~busy[t]
        /\ \A r \in Rooms :
              (page[t].at = r /\ (tasks[t] # {} \/ conns[t] # <<>>))
              ~> (page[t].at # r \/ clients[t] # <<>>)
=============================================================================

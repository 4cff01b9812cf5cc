--------------------------- MODULE RoomEntryProofs ---------------------------
(***************************************************************************)
(* Proofs about RoomEntry, for any tabs, rooms and bounds and for both     *)
(* builds: a page makes one signaling client, what sessionStorage has for  *)
(* a room is a token of that room, and a page knows itself by the identity *)
(* its client has.                                                         *)
(***************************************************************************)
EXTENDS RoomEntry, TLAPS, SequenceTheorems

\* What a variable may hold for a tab.
Pages == [at : Rooms \union {None}, byId : BOOLEAN]
Stores == [token : Tokens, role : Roles, peer : 0..MaxPeers, locked : BOOLEAN]
Sessions == [token : Tokens, role : Roles]
Tasks == [op : {"create", "join", "init"}, room : Rooms \union {None},
          at : {"request", "lookup", "join", "saved", "redirect", "giveUp"},
          cancelled : BOOLEAN]
Conns == [token : Tokens, peer : 0..MaxPeers]
Clients == [token : Tokens, open : BOOLEAN]

\* The home page has one call at most, which keeps its forms disabled, and
\* nothing of a room.
HomeInv(t) ==
    page[t].at = None =>
        /\ page[t] = Home /\ conns[t] = <<>> /\ clients[t] = <<>>
        /\ scanner[t] => ~busy[t]
        /\ \A k \in tasks[t] : busy[t] /\ ~k.cancelled /\ k.op # "init"

\* A page has one call that is not cancelled, and while it has it no client.
TasksInv(t) ==
    /\ \A k \in tasks[t] : k.room \in Rooms \/ (k.op = "create" /\ k.at = "request")
    /\ page[t].at # None => \A k \in tasks[t] : k.op = "init" /\ k.room = page[t].at
    /\ \A k, l \in tasks[t] : ~k.cancelled /\ ~l.cancelled => k = l
    /\ (\E k \in tasks[t] : ~k.cancelled) => conns[t] = <<>> /\ clients[t] = <<>>

\* The store has the answer of the call that is about to read it again.
SavedInv(t) ==
    \A k \in tasks[t] : ~k.cancelled /\ k.at = "saved" =>
        /\ store[t].token.room = k.room /\ store[t].token.role = store[t].role
        /\ k.op = "init" => store[t].role = "member"

FitsInv(t) ==
    \A r \in Rooms : session[t][r] # NoSession =>
        session[t][r].token.room = r /\ session[t][r].token.role = session[t][r].role

\* The identity a page goes by is that of its token, and unless it has been
\* mounted twice that of its client's token.
IdentityInv(t) ==
    /\ store[t].peer = store[t].token.peer
    /\ \A i \in DOMAIN conns[t] : conns[t][i].peer = conns[t][i].token.peer
    /\ ~StrictMode => /\ \A k \in tasks[t] : ~k.cancelled
                      /\ \A i \in DOMAIN clients[t] : store[t].token = clients[t][i].token

OneInv(t) == Len(conns[t]) + Len(clients[t]) <= 1

TabInv(t) == /\ HomeInv(t) /\ TasksInv(t) /\ SavedInv(t)
             /\ FitsInv(t) /\ IdentityInv(t) /\ OneInv(t)

Inv == TypeOK /\ \A t \in Tabs : TabInv(t)

-----------------------------------------------------------------------------
(* Helpers *)

LEMMA TypeForms ==
    TypeOK <=>
    /\ build \in Builds
    /\ room \in [Rooms -> {"none", "open", "locked", "gone"}] /\ minted \in 0..MaxPeers
    /\ page \in [Tabs -> Pages] /\ store \in [Tabs -> Stores]
    /\ session \in [Tabs -> [Rooms -> Sessions]]
    /\ busy \in [Tabs -> BOOLEAN] /\ scanner \in [Tabs -> BOOLEAN]
    /\ tasks \in [Tabs -> SUBSET Tasks] /\ guard \in [Tabs -> Rooms \union {None}]
    /\ conns \in [Tabs -> Seq(Conns)] /\ clients \in [Tabs -> Seq(Clients)]
    /\ loads \in [Tabs -> 0..MaxLoads]
  BY DEF TypeOK, Pages, Stores, Sessions, Tasks, Conns, Clients

\* The types of the variables that belong to tabs, and of the server's.
TabTypes ==
    /\ page \in [Tabs -> Pages] /\ store \in [Tabs -> Stores]
    /\ busy \in [Tabs -> BOOLEAN] /\ scanner \in [Tabs -> BOOLEAN]
    /\ tasks \in [Tabs -> SUBSET Tasks] /\ guard \in [Tabs -> Rooms \union {None}]
    /\ conns \in [Tabs -> Seq(Conns)] /\ clients \in [Tabs -> Seq(Clients)]
RestTypes ==
    /\ build \in Builds
    /\ room \in [Rooms -> {"none", "open", "locked", "gone"}] /\ minted \in 0..MaxPeers
    /\ session \in [Tabs -> [Rooms -> Sessions]] /\ loads \in [Tabs -> 0..MaxLoads]

LEMMA TypeParts == TypeOK <=> TabTypes /\ RestTypes
  BY TypeForms DEF TabTypes, RestTypes

LEMMA TypePartsNext == ASSUME TabTypes', RestTypes' PROVE TypeOK'
  BY DEF TypeOK, TabTypes, RestTypes, Pages, Stores, Sessions, Tasks, Conns, Clients

LEMMA TokenFacts ==
    /\ NoToken \in Tokens /\ NoToken.room = None /\ NoToken.peer = 0
    /\ EmptyStore \in Stores /\ EmptyStore.token = NoToken /\ EmptyStore.peer = 0
    /\ Home \in Pages /\ Home.at = None
    /\ NoSession \in Sessions /\ NoSession.token = NoToken
    /\ \A tok \in Tokens : tok.peer \in 0..MaxPeers /\ tok.role \in Roles
                           /\ tok.room \in Rooms \union {None}
    /\ None \notin Rooms
  BY EntryAssumption
     DEF NoToken, Tokens, Token, EmptyStore, Stores, Home, Pages, NoSession, Sessions, Roles

\* Nothing of tab t changes.
Same(t) ==
    /\ page'[t] = page[t] /\ store'[t] = store[t] /\ session'[t] = session[t]
    /\ busy'[t] = busy[t] /\ scanner'[t] = scanner[t] /\ tasks'[t] = tasks[t]
    /\ conns'[t] = conns[t] /\ clients'[t] = clients[t]

LEMMA SameTab ==
    ASSUME NEW u \in Tabs, TabInv(u), Same(u), build' = build
    PROVE  TabInv(u)'
<1>1. HomeInv(u)' /\ TasksInv(u)' /\ SavedInv(u)'
  BY DEF TabInv, Same, HomeInv, TasksInv, SavedInv
<1>2. FitsInv(u)' /\ OneInv(u)'
  BY DEF TabInv, Same, FitsInv, OneInv
<1>3. IdentityInv(u)'
  BY DEF TabInv, Same, IdentityInv, StrictMode
<1> QED  BY <1>1, <1>2, <1>3 DEF TabInv

\* A step of one tab keeps the invariant if it keeps that tab's part.
LEMMA OneTab ==
    ASSUME Inv, NEW t \in Tabs, TypeOK', build' = build,
           \A u \in Tabs \ {t} : Same(u), TabInv(t)'
    PROVE  Inv'
  BY SameTab DEF Inv

\* Nothing of any tab changes.
LEMMA NoTab ==
    ASSUME Inv, TypeOK', build' = build, \A u \in Tabs : Same(u)
    PROVE  Inv'
  BY SameTab DEF Inv

\* Call k of tab t, now g, goes on in room r at another place.
Moved(t, k, g, r, at) ==
    /\ g \in Tasks /\ g.op = k.op /\ g.room = r /\ g.at = at /\ g.cancelled = k.cancelled
    /\ tasks' \in [Tabs -> SUBSET Tasks]
    /\ tasks'[t] = (tasks[t] \ {k}) \union {g}
    /\ \A u \in Tabs \ {t} : tasks'[u] = tasks[u]

LEMMA NextFacts ==
    ASSUME TypeOK, NEW t \in Tabs, NEW k \in tasks[t], NEW r \in Rooms \union {None},
           NEW at \in {"request", "lookup", "join", "saved", "redirect", "giveUp"},
           tasks' = next(t, k, r, at)
    PROVE  \E g \in Tasks : Moved(t, k, g, r, at)
<1> DEFINE g == [k EXCEPT !.room = r, !.at = at]
<1>1. k \in Tasks /\ tasks \in [Tabs -> SUBSET Tasks]
  BY TypeForms
<1>2. g \in Tasks /\ g.op = k.op /\ g.room = r /\ g.at = at /\ g.cancelled = k.cancelled
  BY <1>1 DEF Tasks
<1>3. tasks' = [tasks EXCEPT ![t] = (tasks[t] \ {k}) \union {g}]
  BY DEF next
<1> HIDE DEF g
<1>4. Moved(t, k, g, r, at)
  BY <1>1, <1>2, <1>3 DEF Moved
<1> QED  BY <1>2, <1>4

LEMMA DoneFacts ==
    ASSUME TypeOK, NEW t \in Tabs, NEW k \in tasks[t]
    PROVE  /\ done(t, k) \in [Tabs -> SUBSET Tasks]
           /\ done(t, k)[t] = tasks[t] \ {k}
           /\ \A u \in Tabs \ {t} : done(t, k)[u] = tasks[u]
<1>1. tasks \in [Tabs -> SUBSET Tasks]
  BY TypeForms
<1> QED  BY <1>1 DEF done

-----------------------------------------------------------------------------
(* Navigation *)

LEMMA InitInv == Init => Inv
<1> SUFFICES ASSUME Init PROVE Inv
  OBVIOUS
<1> USE TokenFacts
<1>1. <<>> \in Seq(Conns) /\ <<>> \in Seq(Clients) /\ Len(<<>>) = 0 /\ DOMAIN <<>> = {}
  OBVIOUS
<1>2. TypeOK
  <2>1. RestTypes
    BY EntryAssumption DEF Init, RestTypes
  <2>2. TabTypes
    BY <1>1 DEF Init, TabTypes
  <2> QED  BY <2>1, <2>2, TypeParts
<1>3. ASSUME NEW t \in Tabs PROVE TabInv(t)
  <2>1. /\ page[t] = Home /\ store[t] = EmptyStore /\ tasks[t] = {} /\ ~scanner[t]
        /\ conns[t] = <<>> /\ clients[t] = <<>>
        /\ \A r \in Rooms : session[t][r] = NoSession
    BY DEF Init
  <2>2. HomeInv(t) /\ TasksInv(t) /\ SavedInv(t) /\ FitsInv(t)
    BY <2>1 DEF HomeInv, TasksInv, SavedInv, FitsInv
  <2>3. IdentityInv(t) /\ OneInv(t)
    BY <1>1, <2>1 DEF IdentityInv, OneInv
  <2> QED  BY <2>2, <2>3 DEF TabInv
<1> QED  BY <1>2, <1>3 DEF Inv

LEMMA GoHomeInv ==
    ASSUME Inv, NEW t \in Tabs, goHome(t), UNCHANGED <<session, loads, build, minted>>,
           room' \in [Rooms -> {"none", "open", "locked", "gone"}]
    PROVE  Inv'
<1> USE TokenFacts
<1>0. TabTypes /\ RestTypes /\ TabInv(t)
  BY TypeParts DEF Inv
<1>1. <<>> \in Seq(Conns) /\ <<>> \in Seq(Clients) /\ Len(<<>>) = 0 /\ DOMAIN <<>> = {}
  OBVIOUS
<1>2. TabTypes'
  BY <1>0, <1>1 DEF goHome, unload, TabTypes
<1>3. RestTypes'
  BY <1>0 DEF RestTypes
<1>4. \A u \in Tabs \ {t} : Same(u)
  BY <1>0 DEF goHome, unload, TabTypes, Same
<1>5. /\ page'[t] = Home /\ store'[t] = EmptyStore /\ tasks'[t] = {} /\ ~scanner'[t]
      /\ conns'[t] = <<>> /\ clients'[t] = <<>> /\ session'[t] = session[t]
  BY <1>0 DEF goHome, unload, TabTypes
<1>6. HomeInv(t)' /\ TasksInv(t)' /\ SavedInv(t)'
  BY <1>5 DEF HomeInv, TasksInv, SavedInv
<1>7. FitsInv(t)'
  BY <1>0, <1>5 DEF TabInv, FitsInv
<1>8. IdentityInv(t)' /\ OneInv(t)'
  BY <1>1, <1>5 DEF IdentityInv, OneInv
<1> QED  BY <1>2, <1>3, <1>4, <1>6, <1>7, <1>8, OneTab, TypePartsNext DEF TabInv

\* A page that is loaded has a connection in the making, or calls of which one
\* is not cancelled.
LEMMA MountFacts ==
    ASSUME Inv, NEW t \in Tabs, NEW r \in Rooms, NEW byId \in BOOLEAN, mount(t, r, byId)
    PROVE  /\ tasks' \in [Tabs -> SUBSET Tasks] /\ guard' \in [Tabs -> Rooms \union {None}]
           /\ conns' \in [Tabs -> Seq(Conns)]
           /\ \A u \in Tabs \ {t} : tasks'[u] = tasks[u] /\ conns'[u] = conns[u]
           /\ \A k \in tasks'[t] : k.op = "init" /\ k.room = r /\ k.at # "saved"
           /\ \A k, l \in tasks'[t] : ~k.cancelled /\ ~l.cancelled => k = l
           /\ ~StrictMode => \A k \in tasks'[t] : ~k.cancelled
           /\ \/ conns'[t] = <<>>
              \/ /\ tasks'[t] = {}
                 /\ \E c \in Conns : conns'[t] = <<c>> /\ c.peer = c.token.peer
<1> USE TokenFacts
<1> DEFINE tok == session[t][r].token
           c == [token |-> tok, peer |-> identity(0, tok)]
           k1 == lookup(r, byId)
           k2 == [lookup(r, byId) EXCEPT !.cancelled = TRUE]
<1>0. TabTypes /\ RestTypes
  BY TypeParts DEF Inv
<1>1. tok \in Tokens
  BY <1>0 DEF RestTypes, Sessions
<1>2. c \in Conns /\ c.peer = c.token.peer
  BY <1>1 DEF identity, Conns
<1>3. CASE byId /\ tok # NoToken
  <2>1. /\ tasks' = [tasks EXCEPT ![t] = {}] /\ guard' = [guard EXCEPT ![t] = r]
        /\ conns' = [conns EXCEPT ![t] = <<c>>]
    BY <1>3 DEF mount, sharesPromise
  <2> HIDE DEF c
  <2>2. <<c>> \in Seq(Conns)
    BY <1>2
  <2> QED  BY <1>0, <1>2, <2>1, <2>2 DEF TabTypes
<1>4. CASE ~(byId /\ tok # NoToken)
  <2>1. /\ guard' = [guard EXCEPT ![t] = None] /\ conns' = [conns EXCEPT ![t] = <<>>]
        /\ tasks' = [tasks EXCEPT ![t] = {k1} \union (IF StrictMode THEN {k2} ELSE {})]
    BY <1>4 DEF mount
  <2>2. /\ k1 \in Tasks /\ k1.op = "init" /\ k1.room = r /\ k1.at # "saved" /\ ~k1.cancelled
        /\ k2 \in Tasks /\ k2.op = "init" /\ k2.room = r /\ k2.at # "saved" /\ k2.cancelled
    BY DEF lookup, Task, Tasks
  <2> HIDE DEF k1, k2
  <2>3. <<>> \in Seq(Conns)
    OBVIOUS
  <2>4. tasks'[t] = {k1} \union (IF StrictMode THEN {k2} ELSE {})
    BY <1>0, <2>1 DEF TabTypes
  <2>5. tasks' \in [Tabs -> SUBSET Tasks]
    BY <1>0, <2>1, <2>2 DEF TabTypes
  <2> QED  BY <1>0, <2>1, <2>2, <2>3, <2>4, <2>5 DEF TabTypes
<1> QED  BY <1>3, <1>4

LEMMA LoadInv ==
    ASSUME Inv, NEW t \in Tabs, NEW r \in Rooms, NEW byId \in BOOLEAN,
           loadRoom(t, r, byId), UNCHANGED <<server, session>>
    PROVE  Inv'
<1> USE TokenFacts
<1>0. TabTypes /\ RestTypes /\ TabInv(t)
  BY TypeParts DEF Inv
<1>1. <<>> \in Seq(Clients) /\ Len(<<>>) = 0 /\ DOMAIN <<>> = {}
  OBVIOUS
<1>2. mount(t, r, byId)
  BY DEF loadRoom
<1>3. [at |-> r, byId |-> byId] \in Pages
  BY DEF Pages
<1>4. TabTypes'
  <2>1. /\ tasks' \in [Tabs -> SUBSET Tasks] /\ guard' \in [Tabs -> Rooms \union {None}]
        /\ conns' \in [Tabs -> Seq(Conns)]
    BY <1>2, MountFacts
  <2> QED  BY <1>0, <1>1, <1>3, <2>1 DEF loadRoom, TabTypes
<1>5. RestTypes'
  BY <1>0, EntryAssumption DEF loadRoom, server, RestTypes
<1>6. \A u \in Tabs \ {t} : Same(u)
  <2>1. \A u \in Tabs \ {t} : tasks'[u] = tasks[u] /\ conns'[u] = conns[u]
    BY <1>2, MountFacts
  <2> QED  BY <1>0, <2>1 DEF loadRoom, TabTypes, Same
<1>7. /\ page'[t].at = r /\ clients'[t] = <<>> /\ store'[t] = EmptyStore
      /\ session'[t] = session[t] /\ build' = build
  BY <1>0 DEF loadRoom, server, TabTypes
<1>8. HomeInv(t)' /\ FitsInv(t)'
  BY <1>0, <1>7 DEF TabInv, HomeInv, FitsInv
<1>9. TasksInv(t)' /\ SavedInv(t)'
  <2>1. /\ \A k \in tasks'[t] : k.op = "init" /\ k.room = r /\ k.at # "saved"
        /\ \A k, l \in tasks'[t] : ~k.cancelled /\ ~l.cancelled => k = l
        /\ tasks'[t] = {} \/ conns'[t] = <<>>
    BY <1>2, MountFacts
  <2> QED  BY <1>7, <2>1 DEF TasksInv, SavedInv
<1>10. IdentityInv(t)' /\ OneInv(t)'
  <2>1. \/ conns'[t] = <<>>
        \/ \E c \in Conns : conns'[t] = <<c>> /\ c.peer = c.token.peer
    BY <1>2, MountFacts
  <2>2. /\ Len(conns'[t]) <= 1
        /\ \A i \in DOMAIN conns'[t] : conns'[t][i].peer = conns'[t][i].token.peer
    <3>1. CASE conns'[t] = <<>>
      BY <1>1, <3>1
    <3>2. CASE \E c \in Conns : conns'[t] = <<c>> /\ c.peer = c.token.peer
      BY <3>2
    <3> QED  BY <2>1, <3>1, <3>2
  <2>3. ~StrictMode => \A k \in tasks'[t] : ~k.cancelled
    BY <1>2, MountFacts
  <2>4. Len(conns'[t]) \in Nat
    BY <1>4 DEF TabTypes
  <2> QED  BY <1>1, <1>7, <2>2, <2>3, <2>4 DEF IdentityInv, OneInv, StrictMode
<1> QED  BY <1>4, <1>5, <1>6, <1>7, <1>8, <1>9, <1>10, OneTab, TypePartsNext DEF TabInv

LEMMA NavigationInv ==
    ASSUME Inv, NEW t \in Tabs,
           \/ leave(t) \/ \E r \in Rooms : openLink(t, r) \/ revisit(t, r)
    PROVE  Inv'
<1>1. CASE leave(t)
  <2>1. room' \in [Rooms -> {"none", "open", "locked", "gone"}]
    BY <1>1 DEF leave, server, Inv, TypeOK
  <2> QED  BY <1>1, <2>1, GoHomeInv DEF leave, server
<1>2. ASSUME NEW r \in Rooms, openLink(t, r) \/ revisit(t, r) PROVE Inv'
  BY <1>2, LoadInv DEF openLink, revisit
<1> QED  BY <1>1, <1>2

-----------------------------------------------------------------------------
(* The signaling client *)

LEMMA OneOfTwo == \A m, n \in Nat : m # 0 /\ m + n <= 1 => m = 1 /\ n = 0
  OBVIOUS

LEMMA KeysGeneratedInv == ASSUME Inv, NEW t \in Tabs, keysGenerated(t) PROVE Inv'
<1> USE TokenFacts
<1>0. TabTypes /\ RestTypes /\ TabInv(t)
  BY TypeParts DEF Inv
<1> DEFINE c == Head(conns[t])
           e == [token |-> c.token, open |-> FALSE]
           st == [store[t] EXCEPT !.token = c.token, !.role = c.token.role, !.peer = c.peer]
<1>1. conns[t] \in Seq(Conns) /\ conns[t] # <<>> /\ clients[t] \in Seq(Clients)
  BY <1>0 DEF keysGenerated, TabTypes
<1>2. /\ Len(conns[t]) = 1 /\ clients[t] = <<>> /\ Len(clients[t]) = 0
  <2>1. Len(conns[t]) \in Nat /\ Len(conns[t]) # 0 /\ Len(clients[t]) \in Nat
    BY <1>1
  <2>2. Len(conns[t]) + Len(clients[t]) <= 1
    BY <1>0 DEF TabInv, OneInv
  <2>3. Len(conns[t]) = 1 /\ Len(clients[t]) = 0
    BY <2>1, <2>2, OneOfTwo
  <2> QED  BY <1>1, <2>3, EmptySeq
<1>3. c \in Conns /\ c.peer = c.token.peer /\ Tail(conns[t]) = <<>>
  <2>1. c = conns[t][1] /\ 1 \in DOMAIN conns[t] /\ c \in Conns
    BY <1>1, <1>2
  <2>2. Tail(conns[t]) \in Seq(Conns) /\ Len(Tail(conns[t])) = 0
    BY <1>1, <1>2, HeadTailProperties
  <2>3. Tail(conns[t]) = <<>>
    BY <2>2, EmptySeq
  <2> QED  BY <1>0, <2>1, <2>3 DEF TabInv, IdentityInv
<1>4. \A k \in tasks[t] : k.cancelled
  BY <1>0, <1>1 DEF TabInv, TasksInv
<1>5. page[t].at # None
  BY <1>0, <1>1 DEF TabInv, HomeInv
<1>6. /\ store' = [store EXCEPT ![t] = st]
      /\ clients' = [clients EXCEPT ![t] = Append(clients[t], e)]
      /\ conns' = [conns EXCEPT ![t] = Tail(conns[t])]
      /\ UNCHANGED <<server, page, session, homeVars, tasks, guard, loads>>
  BY DEF keysGenerated
<1>7. st \in Stores /\ st.token = c.token /\ st.peer = c.peer
  <2>1. store[t] \in Stores /\ c.token \in Tokens /\ c.token.role \in Roles /\ c.peer \in 0..MaxPeers
    BY <1>0, <1>3 DEF TabTypes, Conns
  <2> QED  BY <2>1 DEF Stores
<1>8. e \in Clients /\ e.token = c.token
  BY <1>3 DEF Conns, Clients
<1> HIDE DEF c, e, st
<1>9. Append(clients[t], e) = <<e>> /\ <<e>> \in Seq(Clients) /\ <<>> \in Seq(Conns)
  BY <1>2, <1>8
<1>10. TabTypes'
  BY <1>0, <1>3, <1>6, <1>7, <1>9 DEF TabTypes, homeVars
<1>11. RestTypes'
  BY <1>0, <1>6 DEF server, RestTypes
<1>12. \A u \in Tabs \ {t} : Same(u)
  BY <1>0, <1>6 DEF TabTypes, homeVars, Same
<1>13. /\ store'[t].token = c.token /\ store'[t].peer = c.peer /\ page'[t] = page[t]
       /\ conns'[t] = <<>> /\ clients'[t] = <<e>> /\ tasks'[t] = tasks[t]
       /\ session'[t] = session[t] /\ build' = build
  BY <1>0, <1>3, <1>6, <1>7, <1>9 DEF TabTypes, server
<1>14. HomeInv(t)' /\ TasksInv(t)' /\ SavedInv(t)' /\ FitsInv(t)'
  BY <1>0, <1>4, <1>5, <1>13 DEF TabInv, HomeInv, TasksInv, SavedInv, FitsInv
<1>15. IdentityInv(t)'
  <2>1. DOMAIN conns'[t] = {}
    BY <1>13
  <2>2. \A i \in DOMAIN clients'[t] : clients'[t][i] = e
    BY <1>13
  <2> QED  BY <1>0, <1>3, <1>8, <1>13, <2>1, <2>2 DEF TabInv, IdentityInv, StrictMode
<1>16. OneInv(t)'
  <2>1. Len(conns'[t]) = 0 /\ Len(clients'[t]) = 1
    BY <1>13
  <2> QED  BY <2>1 DEF OneInv
<1> QED  BY <1>10, <1>11, <1>12, <1>13, <1>14, <1>15, <1>16, OneTab, TypePartsNext DEF TabInv

\* A client opens or loses its connection and is the same client.
LEMMA ClientChangeInv ==
    ASSUME Inv, NEW t \in Tabs, NEW i \in DOMAIN clients[t], NEW b \in BOOLEAN,
           clients' = [clients EXCEPT ![t][i].open = b],
           guard' \in [Tabs -> Rooms \union {None}],
           UNCHANGED <<server, page, store, session, homeVars, tasks, conns, loads>>
    PROVE  Inv'
<1>0. TabTypes /\ RestTypes /\ TabInv(t)
  BY TypeParts DEF Inv
<1> DEFINE e == [clients[t][i] EXCEPT !.open = b]
           cs == [clients[t] EXCEPT ![i] = e]
<1>1. clients[t] \in Seq(Clients) /\ i \in 1..Len(clients[t]) /\ clients[t][i] \in Clients
  BY <1>0 DEF TabTypes
<1>2. e \in Clients /\ e.token = clients[t][i].token
  BY <1>1 DEF Clients
<1>3. clients' = [clients EXCEPT ![t] = cs]
  OBVIOUS
<1> HIDE DEF e
<1>4. /\ cs \in Seq(Clients) /\ Len(cs) = Len(clients[t]) /\ DOMAIN cs = DOMAIN clients[t]
      /\ \A j \in DOMAIN cs : cs[j].token = clients[t][j].token
  <2>1. cs \in Seq(Clients) /\ Len(cs) = Len(clients[t])
    BY <1>1, <1>2, ExceptSeq
  <2>2. DOMAIN cs = DOMAIN clients[t]
    BY <1>1
  <2> QED  BY <1>1, <1>2, <2>1, <2>2
<1>5. cs # <<>> /\ clients[t] # <<>>
  BY <1>1, <1>4
<1> HIDE DEF cs
<1>6. TabTypes' /\ RestTypes'
  BY <1>0, <1>3, <1>4 DEF TabTypes, RestTypes, server, homeVars
<1>7. \A u \in Tabs \ {t} : Same(u)
  BY <1>0, <1>3 DEF TabTypes, homeVars, Same
<1>8. /\ clients'[t] = cs /\ page'[t] = page[t] /\ store'[t] = store[t]
      /\ session'[t] = session[t] /\ tasks'[t] = tasks[t] /\ conns'[t] = conns[t]
      /\ build' = build
  BY <1>0, <1>3 DEF TabTypes, server
<1>9. HomeInv(t)' /\ TasksInv(t)' /\ SavedInv(t)' /\ FitsInv(t)'
  BY <1>0, <1>5, <1>8 DEF TabInv, HomeInv, TasksInv, SavedInv, FitsInv
<1>10. IdentityInv(t)' /\ OneInv(t)'
  BY <1>0, <1>4, <1>8 DEF TabInv, IdentityInv, OneInv, StrictMode
<1> QED  BY <1>6, <1>7, <1>8, <1>9, <1>10, OneTab, TypePartsNext DEF TabInv

LEMMA ClientsInv ==
    ASSUME Inv, NEW t \in Tabs,
           \/ keysGenerated(t)
           \/ \E i \in DOMAIN clients[t] : clientOpens(t, i) \/ connectionLost(t, i)
    PROVE  Inv'
<1>1. ASSUME NEW i \in DOMAIN clients[t], clientOpens(t, i) PROVE Inv'
  <2>1. guard' \in [Tabs -> Rooms \union {None}]
    BY <1>1 DEF clientOpens, Inv, TypeOK
  <2> QED  BY <1>1, <2>1, ClientChangeInv DEF clientOpens
<1>2. ASSUME NEW i \in DOMAIN clients[t], connectionLost(t, i) PROVE Inv'
  <2>1. guard' \in [Tabs -> Rooms \union {None}]
    BY <1>2 DEF connectionLost, Inv, TypeOK
  <2> QED  BY <1>2, <2>1, ClientChangeInv DEF connectionLost
<1> QED  BY <1>1, <1>2, KeysGeneratedInv

-----------------------------------------------------------------------------
(* The home page *)

\* A form of the home page that is used starts the one call the page has.
LEMMA FormInv ==
    ASSUME Inv, NEW t \in Tabs, page[t] = Home, ~busy[t],
           NEW k \in Tasks, k.op # "init", ~k.cancelled, k.at # "saved",
           k.room \in Rooms \/ (k.op = "create" /\ k.at = "request"),
           busy' = [busy EXCEPT ![t] = TRUE],
           tasks' = [tasks EXCEPT ![t] = @ \union {k}],
           scanner' \in [Tabs -> BOOLEAN], ~scanner'[t],
           \A u \in Tabs \ {t} : scanner'[u] = scanner[u],
           UNCHANGED <<server, page, store, session, linkVars, loads>>
    PROVE  Inv'
<1> USE TokenFacts
<1>0. TabTypes /\ RestTypes /\ TabInv(t)
  BY TypeParts DEF Inv
<1>1. tasks[t] = {} /\ conns[t] = <<>> /\ clients[t] = <<>>
  BY <1>0 DEF TabInv, HomeInv
<1>2. TabTypes' /\ RestTypes'
  BY <1>0 DEF TabTypes, RestTypes, server, linkVars
<1>3. \A u \in Tabs \ {t} : Same(u)
  BY <1>0 DEF TabTypes, linkVars, Same
<1>4. /\ tasks'[t] = {k} /\ busy'[t] /\ page'[t] = page[t] /\ store'[t] = store[t]
      /\ session'[t] = session[t] /\ conns'[t] = <<>> /\ clients'[t] = <<>>
      /\ build' = build
  BY <1>0, <1>1 DEF TabTypes, server, linkVars
<1>5. HomeInv(t)' /\ TasksInv(t)' /\ SavedInv(t)' /\ FitsInv(t)'
  BY <1>0, <1>4 DEF TabInv, HomeInv, TasksInv, SavedInv, FitsInv
<1>6. IdentityInv(t)' /\ OneInv(t)'
  BY <1>0, <1>1, <1>4 DEF TabInv, IdentityInv, OneInv, StrictMode
<1> QED  BY <1>2, <1>3, <1>4, <1>5, <1>6, OneTab, TypePartsNext DEF TabInv

LEMMA HomePageInv ==
    ASSUME Inv, NEW t \in Tabs,
           \/ handleCreateRoom(t) \/ openScanner(t) \/ closeScanner(t)
           \/ \E r \in Rooms : handleJoinRoom(t, r) \/ handleScanSuccess(t, r)
    PROVE  Inv'
<1> USE TokenFacts
<1>0. TabTypes /\ RestTypes /\ TabInv(t)
  BY TypeParts DEF Inv
<1>1. CASE handleCreateRoom(t)
  <2>1. LET k == Task("create", None, "request") IN
        k \in Tasks /\ k.op = "create" /\ ~k.cancelled /\ k.at = "request"
    BY DEF Task, Tasks
  <2>2. page[t] = Home /\ ~busy[t] /\ ~scanner[t]
    BY <1>1 DEF handleCreateRoom, usesForm, enabled
  <2> QED  BY <1>0, <1>1, <2>1, <2>2, FormInv DEF handleCreateRoom, TabTypes
<1>2. ASSUME NEW r \in Rooms, handleJoinRoom(t, r) \/ handleScanSuccess(t, r) PROVE Inv'
  <2>1. LET k == Task("join", r, "join") IN
        k \in Tasks /\ k.op = "join" /\ ~k.cancelled /\ k.at = "join" /\ k.room = r
    BY DEF Task, Tasks
  <2>2. page[t] = Home /\ ~busy[t]
    BY <1>0, <1>2 DEF handleJoinRoom, handleScanSuccess, usesForm, enabled, TabInv, HomeInv
  <2>3. /\ scanner' \in [Tabs -> BOOLEAN] /\ ~scanner'[t]
        /\ \A u \in Tabs \ {t} : scanner'[u] = scanner[u]
    BY <1>0, <1>2 DEF handleJoinRoom, handleScanSuccess, usesForm, TabTypes
  <2>4. joins(t, r)
    BY <1>2 DEF handleJoinRoom, handleScanSuccess
  <2> QED  BY <2>1, <2>2, <2>3, <2>4, FormInv DEF joins
<1>3. CASE openScanner(t) \/ closeScanner(t)
  <2>1. /\ scanner' \in [Tabs -> BOOLEAN] /\ (scanner'[t] => page[t] = Home /\ ~busy[t])
        /\ \A u \in Tabs \ {t} : scanner'[u] = scanner[u]
    BY <1>0, <1>3 DEF openScanner, closeScanner, usesForm, enabled, TabTypes
  <2>2. UNCHANGED <<server, page, store, session, busy, tasks, linkVars, loads>>
    BY <1>3 DEF openScanner, closeScanner
  <2>3. TabTypes' /\ RestTypes'
    BY <1>0, <2>1, <2>2 DEF TabTypes, RestTypes, server, linkVars
  <2>4. \A u \in Tabs \ {t} : Same(u)
    BY <2>1, <2>2 DEF linkVars, Same
  <2>5. HomeInv(t)' /\ TasksInv(t)' /\ SavedInv(t)'
    BY <1>0, <2>1, <2>2 DEF linkVars, TabInv, HomeInv, TasksInv, SavedInv
  <2>6. FitsInv(t)' /\ IdentityInv(t)' /\ OneInv(t)' /\ build' = build
    BY <1>0, <2>2 DEF server, linkVars, TabInv, FitsInv, IdentityInv, OneInv, StrictMode
  <2> QED  BY <2>3, <2>4, <2>5, <2>6, OneTab, TypePartsNext DEF TabInv
<1> QED  BY <1>1, <1>2, <1>3

-----------------------------------------------------------------------------
(* createRoom and joinRoom *)

\* What a call does that leaves the place it is at, or ends.
StepsOn(t, k) ==
    /\ tasks' \in [Tabs -> SUBSET Tasks]
    /\ \A u \in Tabs \ {t} : tasks'[u] = tasks[u]
    /\ \A l \in tasks'[t] :
          \/ l \in tasks[t] \ {k}
          \/ l.op = k.op /\ l.cancelled = k.cancelled /\ l.room = k.room /\ l.at # "saved"
    /\ \A l, m \in tasks'[t] : l \in tasks[t] \ {k} \/ m \in tasks[t] \ {k} \/ l = m

\* A call leaves the place it is at, or ends; the store stays as it is.
LEMMA MoveInv ==
    ASSUME Inv, NEW t \in Tabs, NEW k \in tasks[t], k.room \in Rooms,
           \/ tasks' = done(t, k)
           \/ \E at \in {"join", "redirect", "giveUp"} : tasks' = next(t, k, k.room, at),
           session' \in [Tabs -> [Rooms -> Sessions]],
           \A u \in Tabs \ {t} : session'[u] = session[u],
           FitsInv(t)',
           UNCHANGED <<server, page, store, homeVars, linkVars, loads>>
    PROVE  Inv'
<1>0. TabTypes /\ RestTypes /\ TabInv(t) /\ TypeOK
  BY TypeParts DEF Inv
<1>9. StepsOn(t, k)
  <2>1. CASE tasks' = done(t, k)
    BY <1>0, <2>1, DoneFacts DEF StepsOn
  <2>2. ASSUME NEW at \in {"join", "redirect", "giveUp"}, tasks' = next(t, k, k.room, at)
        PROVE  StepsOn(t, k)
    <3>1. PICK g \in Tasks : Moved(t, k, g, k.room, at)
      BY <1>0, <2>2, NextFacts
    <3> QED  BY <2>2, <3>1 DEF Moved, StepsOn
  <2> QED  BY <2>1, <2>2
<1>1. TabTypes' /\ RestTypes'
  BY <1>0, <1>9 DEF StepsOn, TabTypes, RestTypes, server, homeVars, linkVars
<1>2. \A u \in Tabs \ {t} : Same(u)
  BY <1>9 DEF StepsOn, homeVars, linkVars, Same
<1>3. /\ page'[t] = page[t] /\ store'[t] = store[t] /\ conns'[t] = conns[t]
      /\ clients'[t] = clients[t] /\ busy'[t] = busy[t] /\ scanner'[t] = scanner[t]
      /\ build' = build
  BY DEF homeVars, linkVars, server
<1>5. HomeInv(t)'
  BY <1>0, <1>3, <1>9 DEF StepsOn, TabInv, HomeInv
<1>6. TasksInv(t)'
  BY <1>0, <1>3, <1>9 DEF StepsOn, TabInv, TasksInv
<1>7. SavedInv(t)'
  BY <1>0, <1>3, <1>9 DEF StepsOn, TabInv, SavedInv
<1>8. IdentityInv(t)' /\ OneInv(t)'
  BY <1>0, <1>3, <1>9 DEF StepsOn, TabInv, IdentityInv, OneInv, StrictMode
<1> QED  BY <1>1, <1>2, <1>3, <1>5, <1>6, <1>7, <1>8, OneTab, TypePartsNext DEF TabInv

\* An answer replaces what the store has; another call that has been answered is
\* one for the same room, or has been cancelled.
LEMMA AnswerInv ==
    ASSUME Inv, NEW t \in Tabs, NEW k \in tasks[t], NEW r \in Rooms,
           NEW role \in {"owner", "member"}, minted < MaxPeers,
           entered(t, issued(r, role)), tasks' = next(t, k, r, "saved"),
           k.op = "init" => r = k.room /\ role = "member",
           room' \in [Rooms -> {"none", "open", "locked", "gone"}],
           UNCHANGED <<build, page, session, homeVars, linkVars, loads>>
    PROVE  Inv'
<1> DEFINE tok == issued(r, role)
           st == [token |-> tok, role |-> tok.role, peer |-> tok.peer, locked |-> FALSE]
<1>0. TabTypes /\ RestTypes /\ TabInv(t)
  BY TypeParts DEF Inv
<1>1. /\ tok \in Token /\ tok.room = r /\ tok.role = role /\ tok.peer \in 0..MaxPeers
  BY <1>0, EntryAssumption DEF issued, Token, RestTypes
<1>2. st \in Stores /\ st.token = tok /\ st.role = role /\ st.peer = tok.peer
  BY <1>1 DEF Stores, Tokens, Roles
<1>3. store' = [store EXCEPT ![t] = st] /\ minted' = tok.peer
  BY DEF entered
<1> HIDE DEF tok, st
<1>15. PICK g \in Tasks : Moved(t, k, g, r, "saved")
  BY NextFacts DEF Inv
<1>4. /\ g.op = k.op /\ g.room = r /\ g.at = "saved" /\ g.cancelled = k.cancelled
      /\ tasks' \in [Tabs -> SUBSET Tasks] /\ tasks'[t] = (tasks[t] \ {k}) \union {g}
      /\ \A u \in Tabs \ {t} : tasks'[u] = tasks[u]
  BY <1>15 DEF Moved
<1>5. TabTypes' /\ RestTypes'
  BY <1>0, <1>1, <1>2, <1>3, <1>4 DEF TabTypes, RestTypes, homeVars, linkVars
<1>6. \A u \in Tabs \ {t} : Same(u)
  BY <1>0, <1>3, <1>4 DEF TabTypes, homeVars, linkVars, Same
<1>7. /\ page'[t] = page[t] /\ conns'[t] = conns[t] /\ clients'[t] = clients[t]
      /\ busy'[t] = busy[t] /\ scanner'[t] = scanner[t] /\ session'[t] = session[t]
      /\ store'[t] = st
  BY <1>0, <1>3 DEF TabTypes, homeVars, linkVars
<1>8. \A l \in tasks'[t] : l \in tasks[t] \ {k} \/ l = g
  BY <1>4
<1>9. page[t].at # None => k.op = "init"
  BY <1>0 DEF TabInv, TasksInv
<1>10. HomeInv(t)' /\ FitsInv(t)'
  BY <1>0, <1>4, <1>7, <1>8 DEF TabInv, HomeInv, FitsInv
<1>11. TasksInv(t)'
  BY <1>0, <1>4, <1>7, <1>8, <1>9 DEF TabInv, TasksInv
<1>12. SavedInv(t)'
  <2>1. ASSUME NEW l \in tasks'[t], ~l.cancelled, l.at = "saved"
        PROVE  r = l.room /\ (l.op = "init" => role = "member")
    <3>1. CASE l = g
      BY <1>4, <3>1
    <3>2. CASE l \in tasks[t] \ {k}
      <4>1. CASE page[t].at = None
        BY <1>0, <2>1, <3>2, <4>1 DEF TabInv, HomeInv, TasksInv
      <4>2. CASE page[t].at # None
        BY <1>0, <1>9, <3>2, <4>2 DEF TabInv, TasksInv
      <4> QED  BY <4>1, <4>2
    <3> QED  BY <1>8, <2>1, <3>1, <3>2
  <2> QED  BY <1>1, <1>2, <1>7, <2>1 DEF SavedInv
<1>13. IdentityInv(t)'
  <2>1. ASSUME ~StrictMode PROVE clients[t] = <<>> /\ ~k.cancelled
    BY <1>0, <2>1 DEF TabInv, IdentityInv, TasksInv
  <2>2. clients[t] = <<>> => DOMAIN clients'[t] = {}
    BY <1>7
  <2> QED  BY <1>0, <1>2, <1>4, <1>7, <1>8, <2>1, <2>2 DEF TabInv, IdentityInv, StrictMode
<1>14. OneInv(t)'
  BY <1>0, <1>7 DEF TabInv, OneInv
<1> QED  BY <1>5, <1>6, <1>10, <1>11, <1>12, <1>13, <1>14, OneTab, TypePartsNext DEF TabInv

LEMMA AnsweredInv ==
    ASSUME Inv, NEW t \in Tabs, NEW k \in tasks[t], createAnswered(t, k) \/ joinAnswered(t, k)
    PROVE  Inv'
<1>0. TabTypes /\ RestTypes /\ TabInv(t) /\ k \in Tasks
  BY TypeParts DEF Inv, TabTypes
<1>1. CASE createAnswered(t, k)
  <2>1. PICK r \in Rooms : /\ room' = [room EXCEPT ![r] = "open"]
                           /\ entered(t, issued(r, "owner")) /\ tasks' = next(t, k, r, "saved")
    BY <1>1 DEF createAnswered
  <2>2. room' \in [Rooms -> {"none", "open", "locked", "gone"}]
    BY <1>0, <2>1 DEF RestTypes
  <2> QED  BY <1>1, <2>1, <2>2, AnswerInv DEF createAnswered
<1>2. CASE joinAnswered(t, k)
  <2>1. k.room \in Rooms /\ k.at = "join"
    BY <1>0, <1>2 DEF joinAnswered, TabInv, TasksInv
  <2>2. room' \in [Rooms -> {"none", "open", "locked", "gone"}]
    BY <1>0, <1>2 DEF joinAnswered, RestTypes
  <2> QED  BY <1>2, <2>1, <2>2, AnswerInv DEF joinAnswered
<1> QED  BY <1>1, <1>2

LEMMA RequestFailedInv ==
    ASSUME Inv, NEW t \in Tabs, NEW k \in tasks[t], requestFailed(t, k)
    PROVE  Inv'
<1>0. TabTypes /\ RestTypes /\ TabInv(t) /\ k \in Tasks /\ TypeOK
  BY TypeParts DEF Inv, TabTypes
<1>1. CASE k.op = "init"
  <2>1. k.room \in Rooms
    BY <1>0, <1>1 DEF TabInv, TasksInv
  <2>2. tasks' = done(t, k) \/ tasks' = next(t, k, k.room, "giveUp")
    BY <1>1 DEF requestFailed, failed
  <2>3. UNCHANGED <<server, page, store, session, homeVars, linkVars, loads>>
    BY <1>1 DEF requestFailed, homeVars
  <2>4. session' \in [Tabs -> [Rooms -> Sessions]] /\ FitsInv(t)'
    BY <1>0, <2>3 DEF RestTypes, TabInv, FitsInv
  <2> QED  BY <2>1, <2>2, <2>3, <2>4, MoveInv
<1>2. CASE k.op # "init"
  <2>1. /\ tasks' = done(t, k) /\ busy' = [busy EXCEPT ![t] = FALSE]
        /\ UNCHANGED <<server, page, store, session, scanner, linkVars, loads>>
    BY <1>2 DEF requestFailed
  <2>2. /\ tasks' \in [Tabs -> SUBSET Tasks] /\ tasks'[t] = tasks[t] \ {k}
        /\ \A u \in Tabs \ {t} : tasks'[u] = tasks[u]
    BY <1>0, <2>1, DoneFacts
  <2>3. page[t].at = None /\ tasks'[t] = {}
    <3>1. page[t].at = None
      BY <1>0, <1>2 DEF TabInv, TasksInv
    <3> QED  BY <1>0, <2>2, <3>1 DEF TabInv, HomeInv, TasksInv
  <2>4. TabTypes' /\ RestTypes'
    BY <1>0, <2>1, <2>2 DEF TabTypes, RestTypes, server, linkVars
  <2>5. \A u \in Tabs \ {t} : Same(u)
    BY <1>0, <2>1, <2>2 DEF TabTypes, linkVars, Same
  <2>6. ~busy'[t]
    BY <1>0, <2>1 DEF TabTypes
  <2>7. HomeInv(t)' /\ TasksInv(t)' /\ SavedInv(t)' /\ FitsInv(t)'
    BY <1>0, <2>1, <2>3, <2>6 DEF linkVars, TabInv, HomeInv, TasksInv, SavedInv, FitsInv
  <2>8. IdentityInv(t)' /\ OneInv(t)' /\ build' = build
    BY <1>0, <2>1, <2>3 DEF server, linkVars, TabInv, IdentityInv, OneInv, StrictMode
  <2> QED  BY <2>4, <2>5, <2>7, <2>8, OneTab, TypePartsNext DEF TabInv
<1> QED  BY <1>1, <1>2

LEMMA LookedUpInv ==
    ASSUME Inv, NEW t \in Tabs, NEW k \in tasks[t], lookedUp(t, k)
    PROVE  Inv'
<1>0. TabTypes /\ RestTypes /\ TabInv(t) /\ k \in Tasks /\ TypeOK
  BY TypeParts DEF Inv, TabTypes
<1>1. k.room \in Rooms
  BY <1>0 DEF lookedUp, TabInv, TasksInv
<1>2. tasks' = done(t, k) \/ tasks' = next(t, k, k.room, "join")
  BY DEF lookedUp
<1>3. UNCHANGED <<server, page, store, session, homeVars, linkVars, loads>>
  BY DEF lookedUp
<1>4. session' \in [Tabs -> [Rooms -> Sessions]] /\ FitsInv(t)'
  BY <1>0, <1>3 DEF RestTypes, TabInv, FitsInv
<1> QED  BY <1>1, <1>2, <1>3, <1>4, MoveInv

\* What is written to the session fits its room.
LEMMA RememberFacts ==
    ASSUME Inv, NEW t \in Tabs, NEW r \in Rooms, remember(t, r),
           store[t].token.room = r, store[t].token.role = store[t].role
    PROVE  /\ session' \in [Tabs -> [Rooms -> Sessions]] /\ FitsInv(t)'
           /\ \A u \in Tabs \ {t} : session'[u] = session[u]
<1>0. TabTypes /\ RestTypes /\ TabInv(t)
  BY TypeParts DEF Inv
<1> DEFINE e == [token |-> store[t].token, role |-> store[t].role]
<1>1. store[t] \in Stores
  BY <1>0 DEF TabTypes
<1>2. e \in Sessions /\ e.token.room = r /\ e.token.role = e.role
  BY <1>1 DEF Sessions, Stores
<1>3. session' = [session EXCEPT ![t][r] = e]
  BY DEF remember
<1> HIDE DEF e
<1>4. /\ session' \in [Tabs -> [Rooms -> Sessions]] /\ session'[t][r] = e
      /\ \A q \in Rooms \ {r} : session'[t][q] = session[t][q]
      /\ \A u \in Tabs \ {t} : session'[u] = session[u]
  BY <1>0, <1>2, <1>3 DEF RestTypes
<1>5. FitsInv(t)'
  BY <1>0, <1>2, <1>4 DEF TabInv, FitsInv
<1> QED  BY <1>4, <1>5

LEMMA RoomSavedInv ==
    ASSUME Inv, NEW t \in Tabs, NEW k \in tasks[t], roomSaved(t, k)
    PROVE  Inv'
<1>0. TabTypes /\ RestTypes /\ TabInv(t) /\ k \in Tasks /\ TypeOK
  BY TypeParts DEF Inv, TabTypes
<1>1. k.at = "saved" /\ k.room \in Rooms
  BY <1>0 DEF roomSaved, TabInv, TasksInv
<1>2. UNCHANGED <<server, store, homeVars, loads>>
  BY DEF roomSaved
<1>3. CASE k.cancelled
  <2>1. tasks' = done(t, k) /\ UNCHANGED <<session, page, linkVars>>
    BY <1>3 DEF roomSaved
  <2>2. session' \in [Tabs -> [Rooms -> Sessions]] /\ FitsInv(t)'
    BY <1>0, <2>1 DEF RestTypes, TabInv, FitsInv
  <2> QED  BY <1>1, <1>2, <2>1, <2>2, MoveInv
<1>4. CASE ~k.cancelled
  <2>1. store[t].token.room = k.room /\ store[t].token.role = store[t].role
    BY <1>0, <1>1, <1>4 DEF TabInv, SavedInv
  <2>2. remember(t, k.room)
    BY <1>4, <2>1 DEF roomSaved
  <2>3. /\ session' \in [Tabs -> [Rooms -> Sessions]] /\ FitsInv(t)'
        /\ \A u \in Tabs \ {t} : session'[u] = session[u]
    BY <1>1, <2>1, <2>2, RememberFacts
  <2>4. CASE k.op # "init"
    <3>1. tasks' = next(t, k, k.room, "redirect") /\ UNCHANGED <<page, linkVars>>
      BY <1>4, <2>1, <2>4 DEF roomSaved
    <3> QED  BY <1>1, <1>2, <2>3, <3>1, MoveInv
  <2>5. CASE k.op = "init"
    <3> DEFINE tok == store[t].token
               c == [token |-> tok, peer |-> identity(store[t].peer, tok)]
    <3>1. /\ tasks' = done(t, k) /\ page' = [page EXCEPT ![t].byId = TRUE]
          /\ connectSignaling(t, store[t].peer, tok) /\ UNCHANGED clients
      BY <1>4, <2>5 DEF roomSaved
    <3>2. /\ tasks' \in [Tabs -> SUBSET Tasks] /\ tasks'[t] = tasks[t] \ {k}
          /\ \A u \in Tabs \ {t} : tasks'[u] = tasks[u]
      BY <1>0, <3>1, DoneFacts
    <3>3. conns[t] = <<>> /\ clients[t] = <<>>
      BY <1>0, <1>4 DEF TabInv, TasksInv
    <3>4. c \in Conns /\ c.peer = tok.peer /\ c.token = tok /\ tok.room \in Rooms
      <4>1. store[t] \in Stores /\ store[t].peer = tok.peer
        BY <1>0 DEF TabTypes, TabInv, IdentityInv
      <4> QED  BY <1>1, <2>1, <4>1 DEF identity, Conns, Stores
    <3>5. \/ UNCHANGED <<guard, conns>>
          \/ /\ guard' = [guard EXCEPT ![t] = tok.room]
             /\ conns' = [conns EXCEPT ![t] = Append(conns[t], c)]
      BY <3>1 DEF connectSignaling
    <3> HIDE DEF c, tok
    <3>6. Append(conns[t], c) = <<c>> /\ <<c>> \in Seq(Conns)
      BY <3>3, <3>4
    <3>7. /\ guard' \in [Tabs -> Rooms \union {None}] /\ conns' \in [Tabs -> Seq(Conns)]
          /\ conns'[t] = <<>> \/ conns'[t] = <<c>>
          /\ \A u \in Tabs \ {t} : conns'[u] = conns[u]
      <4>1. CASE UNCHANGED <<guard, conns>>
        BY <1>0, <3>3, <4>1 DEF TabTypes
      <4>2. CASE /\ guard' = [guard EXCEPT ![t] = tok.room]
                 /\ conns' = [conns EXCEPT ![t] = Append(conns[t], c)]
        BY <1>0, <3>4, <3>6, <4>2 DEF TabTypes
      <4> QED  BY <3>5, <4>1, <4>2
    <3>8. /\ page' \in [Tabs -> Pages] /\ page'[t].at = page[t].at
          /\ \A u \in Tabs \ {t} : page'[u] = page[u]
      BY <1>0, <3>1 DEF TabTypes, Pages
    <3>9. page[t].at # None
      BY <1>0, <2>5 DEF TabInv, HomeInv
    <3>10. TabTypes' /\ RestTypes'
      BY <1>0, <1>2, <2>3, <3>1, <3>2, <3>7, <3>8 DEF TabTypes, RestTypes, server, homeVars
    <3>11. \A u \in Tabs \ {t} : Same(u)
      BY <1>2, <2>3, <3>1, <3>2, <3>7, <3>8 DEF homeVars, Same
    <3>12. \A l \in tasks'[t] : l \in tasks[t] /\ l.cancelled
      BY <1>0, <1>4, <3>2 DEF TabInv, TasksInv
    <3>13. HomeInv(t)' /\ TasksInv(t)' /\ SavedInv(t)'
      BY <1>0, <3>8, <3>9, <3>12 DEF TabInv, HomeInv, TasksInv, SavedInv
    <3>14. IdentityInv(t)'
      <4>1. clients'[t] = <<>> /\ DOMAIN clients'[t] = {}
        BY <3>1, <3>3
      <4>2. \A i \in DOMAIN conns'[t] : conns'[t][i].peer = conns'[t][i].token.peer
        BY <3>4, <3>7
      <4>3. ~StrictMode => tasks'[t] = {}
        BY <1>0, <3>12 DEF TabInv, IdentityInv
      <4> QED  BY <1>0, <1>2, <4>1, <4>2, <4>3 DEF TabInv, IdentityInv, StrictMode, server
    <3>15. OneInv(t)'
      <4>1. Len(clients'[t]) = 0
        BY <3>1, <3>3
      <4>2. CASE conns'[t] = <<>>
        BY <4>1, <4>2 DEF OneInv
      <4>3. CASE conns'[t] = <<c>>
        BY <4>1, <4>3 DEF OneInv
      <4> QED  BY <3>7, <4>2, <4>3
    <3>16. build' = build
      BY <1>2 DEF server
    <3> QED  BY <2>3, <3>10, <3>11, <3>13, <3>14, <3>15, <3>16, OneTab, TypePartsNext DEF TabInv
  <2> QED  BY <2>4, <2>5
<1> QED  BY <1>3, <1>4

LEMMA TaskInv ==
    ASSUME Inv, NEW t \in Tabs, taskStep(t)
    PROVE  Inv'
<1>1. ASSUME NEW k \in tasks[t], redirect(t, k) PROVE Inv'
  <2>1. k.room \in Rooms
    BY <1>1 DEF redirect, Inv, TabInv, TasksInv
  <2> QED  BY <1>1, <2>1, LoadInv DEF redirect
<1>2. ASSUME NEW k \in tasks[t], giveUp(t, k) PROVE Inv'
  <2>1. room' \in [Rooms -> {"none", "open", "locked", "gone"}]
    BY <1>2 DEF giveUp, server, Inv, TypeOK
  <2> QED  BY <1>2, <2>1, GoHomeInv DEF giveUp, server
<1> QED  BY <1>1, <1>2, AnsweredInv, RequestFailedInv, RoomSavedInv, LookedUpInv DEF taskStep

-----------------------------------------------------------------------------
(* Room controls *)

LEMMA LockInv ==
    ASSUME Inv, NEW t \in Tabs, NEW r \in Rooms, lockRoom(t, r) \/ unlockRoom(t, r)
    PROVE  Inv'
<1>0. TabTypes /\ RestTypes /\ TabInv(t)
  BY TypeParts DEF Inv
<1>1. PICK b \in BOOLEAN : store' = [store EXCEPT ![t].locked = b]
  BY DEF lockRoom, unlockRoom
<1>2. /\ store' \in [Tabs -> Stores] /\ store'[t].token = store[t].token
      /\ store'[t].role = store[t].role /\ store'[t].peer = store[t].peer
      /\ \A u \in Tabs \ {t} : store'[u] = store[u]
  BY <1>0, <1>1 DEF TabTypes, Stores
<1>3. room' \in [Rooms -> {"none", "open", "locked", "gone"}]
  BY <1>0 DEF lockRoom, unlockRoom, RestTypes
<1>4. UNCHANGED <<build, minted, page, session, homeVars, tasks, linkVars, loads>>
  BY DEF lockRoom, unlockRoom
<1>5. TabTypes' /\ RestTypes'
  BY <1>0, <1>2, <1>3, <1>4 DEF TabTypes, RestTypes, homeVars, linkVars
<1>6. \A u \in Tabs \ {t} : Same(u)
  BY <1>2, <1>4 DEF homeVars, linkVars, Same
<1>7. HomeInv(t)' /\ TasksInv(t)' /\ FitsInv(t)' /\ OneInv(t)'
  BY <1>0, <1>4 DEF homeVars, linkVars, TabInv, HomeInv, TasksInv, FitsInv, OneInv
<1>8. SavedInv(t)'
  BY <1>0, <1>2, <1>4 DEF TabInv, SavedInv
<1>9. IdentityInv(t)'
  BY <1>0, <1>2, <1>4 DEF linkVars, TabInv, IdentityInv, StrictMode
<1> QED  BY <1>4, <1>5, <1>6, <1>7, <1>8, <1>9, OneTab, TypePartsNext DEF TabInv

LEMMA SumFact == \A m, n \in Nat : m + n <= 1 => m + 0 <= 1
  OBVIOUS

LEMMA DestroyInv ==
    ASSUME Inv, NEW t \in Tabs, NEW r \in Rooms, destroyRoom(t, r)
    PROVE  Inv'
<1> USE TokenFacts
<1>0. TabTypes /\ RestTypes /\ TabInv(t)
  BY TypeParts DEF Inv
<1>1. room' \in [Rooms -> {"none", "open", "locked", "gone"}]
  BY <1>0 DEF destroyRoom, RestTypes
<1>2. CASE goHome(t)
  BY <1>1, <1>2, GoHomeInv DEF destroyRoom
<1>3. CASE /\ store' = [store EXCEPT ![t] = EmptyStore]
           /\ clients' = [clients EXCEPT ![t] = <<>>]
           /\ UNCHANGED <<page, homeVars, tasks, guard, conns>>
  <2>1. <<>> \in Seq(Clients) /\ Len(<<>>) = 0 /\ DOMAIN <<>> = {}
    OBVIOUS
  <2>2. UNCHANGED <<build, minted, session, loads>> /\ owns(t, r)
    BY DEF destroyRoom
  <2>3. TabTypes' /\ RestTypes'
    BY <1>0, <1>1, <1>3, <2>1, <2>2 DEF TabTypes, RestTypes, homeVars
  <2>4. \A u \in Tabs \ {t} : Same(u)
    BY <1>0, <1>3, <2>2 DEF TabTypes, homeVars, Same
  <2>5. store'[t] = EmptyStore /\ clients'[t] = <<>>
    BY <1>0, <1>3 DEF TabTypes
  <2>6. page[t].at # None /\ store[t].role = "owner"
    BY <2>2 DEF owns
  <2>7. HomeInv(t)' /\ TasksInv(t)' /\ FitsInv(t)'
    BY <1>0, <1>3, <2>2, <2>5, <2>6 DEF TabInv, HomeInv, TasksInv, FitsInv
  <2>8. SavedInv(t)'
    BY <1>0, <1>3, <2>6 DEF TabInv, SavedInv, TasksInv
  <2>9. IdentityInv(t)'
    BY <1>0, <1>3, <2>1, <2>2, <2>5 DEF TabInv, IdentityInv, StrictMode
  <2>10. OneInv(t)'
    <3>1. Len(conns[t]) \in Nat /\ Len(clients[t]) \in Nat
      BY <1>0 DEF TabTypes
    <3>2. Len(conns[t]) + Len(clients[t]) <= 1
      BY <1>0 DEF TabInv, OneInv
    <3>3. Len(conns[t]) + 0 <= 1
      BY <3>1, <3>2, SumFact
    <3> QED  BY <1>3, <2>1, <2>5, <3>3 DEF OneInv
  <2> QED  BY <2>2, <2>3, <2>4, <2>7, <2>8, <2>9, <2>10, OneTab, TypePartsNext DEF TabInv
<1> QED  BY <1>2, <1>3 DEF destroyRoom

LEMMA ExpireInv == ASSUME Inv, NEW r \in Rooms, expire(r) PROVE Inv'
<1>0. TabTypes /\ RestTypes
  BY TypeParts DEF Inv
<1>1. TabTypes' /\ RestTypes'
  BY <1>0 DEF expire, homeVars, linkVars, TabTypes, RestTypes
<1>2. \A u \in Tabs : Same(u)
  BY DEF expire, homeVars, linkVars, Same
<1> QED  BY <1>1, <1>2, NoTab, TypePartsNext DEF expire

-----------------------------------------------------------------------------
(* The theorems *)

LEMMA StepInv == Inv /\ [Next]_vars => Inv'
<1> SUFFICES ASSUME Inv, [Next]_vars PROVE Inv'
  OBVIOUS
<1>1. ASSUME NEW t \in Tabs,
             \/ taskStep(t) \/ clientStep(t)
             \/ handleCreateRoom(t) \/ openScanner(t) \/ closeScanner(t) \/ leave(t)
             \/ \E i \in DOMAIN clients[t] : connectionLost(t, i)
      PROVE  Inv'
  BY <1>1, TaskInv, ClientsInv, HomePageInv, NavigationInv DEF clientStep
<1>2. ASSUME NEW t \in Tabs, NEW r \in Rooms,
             \/ openLink(t, r) \/ revisit(t, r)
             \/ handleJoinRoom(t, r) \/ handleScanSuccess(t, r)
             \/ lockRoom(t, r) \/ unlockRoom(t, r) \/ destroyRoom(t, r)
      PROVE  Inv'
  BY <1>2, NavigationInv, HomePageInv, LockInv, DestroyInv
<1>3. CASE UNCHANGED vars
  <2>1. TabTypes /\ RestTypes
    BY TypeParts DEF Inv
  <2>2. TabTypes' /\ RestTypes'
    BY <1>3, <2>1 DEF vars, TabTypes, RestTypes
  <2>3. build' = build /\ \A u \in Tabs : Same(u)
    BY <1>3 DEF vars, Same
  <2> QED  BY <2>2, <2>3, NoTab, TypePartsNext
<1> QED  BY <1>1, <1>2, <1>3, ExpireInv DEF Next

\* The inductive invariant holds of every reachable state.
THEOREM Invariant == Spec => []Inv
<1>1. Init => Inv
  BY InitInv
<1>2. Inv /\ [Next]_vars => Inv'
  BY StepInv
<1> QED  BY <1>1, <1>2, PTL DEF Spec

\* Every variable keeps its type.
THEOREM TypeCorrect == Spec => []TypeOK
<1>1. Inv => TypeOK
  BY DEF Inv
<1> QED  BY <1>1, Invariant, PTL

\* A page has one signaling client, or one call that makes it, although
\* connectSignaling is called again and React mounts the page twice.
THEOREM OneClientOnly == Spec => []OneClient
<1>1. Inv => OneClient
  BY DEF Inv, TabInv, OneInv, OneClient
<1> QED  BY <1>1, Invariant, PTL

\* The token a tab keeps for a room is one of that room with the role it keeps,
\* although it is read from the store after the call has been awaited.
THEOREM TokenFitsRoom == Spec => []SessionTokenFits
<1>1. Inv => SessionTokenFits
  BY DEF Inv, TabInv, FitsInv, SessionTokenFits
<1> QED  BY <1>1, Invariant, PTL

\* A page that is mounted once goes by the identity the hub has for its client.
THEOREM PageKnowsItself == Spec => []IdentityAgrees
<1>1. ASSUME Inv, ~StrictMode, NEW t \in Tabs, NEW i \in DOMAIN clients[t]
      PROVE  store[t].peer \in {0, clients[t][i].token.peer}
  BY <1>1 DEF Inv, TabInv, IdentityInv
<1>2. Inv => IdentityAgrees
  BY <1>1 DEF IdentityAgrees
<1> QED  BY <1>2, Invariant, PTL
=============================================================================

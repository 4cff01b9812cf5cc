-------------------------------- MODULE Chat --------------------------------
(***************************************************************************)
(* The message list of a room: roomStore.ts (finalizeKeyExchange with its  *)
(* history bundle and its cache, onMessage, sendChatMessage, and the file  *)
(* messages of transfers) over storage.ts and encryptText / decryptText.   *)
(*                                                                         *)
(* How two pages get a connection and a key is PeerSession's subject; here *)
(* a key exchange is final and a control channel opens at some moment.     *)
(* Every handler is a task that goes on after its awaits, so that tasks of *)
(* one page overlap.  A text or a file is written once.                    *)
(***************************************************************************)
EXTENDS Integers, Sequences, SequencesExt

CONSTANTS
    Pages,       \* pages
    Texts,       \* chat messages
    Files,       \* file messages
    HistoryMax,  \* messages of a history bundle (50 in the code)
    Scenes       \* the rooms to look at

None == "none"
NoKey == -1

\* A room: the pages in it, the pairs of them whose networks let them connect,
\* who writes which texts and files, what may happen ("lose" a connection,
\* "reload" a page) and how often, and how many key exchanges of a connection
\* complete on a page (bounds).
ASSUME ChatAssumption ==
    /\ None \notin Pages /\ Texts \cap Files = {} /\ HistoryMax \in Nat \ {0}
    /\ \A s \in Scenes :
          /\ s.pages \subseteq Pages /\ s.reachable \subseteq SUBSET s.pages
          /\ s.writers \subseteq s.pages /\ s.items \subseteq Texts \union Files
          /\ s.faults \subseteq {"lose", "reload"}
          /\ s.maxFaults \in Nat /\ s.maxFinals \in Nat

VARIABLES
    scene,     \* the room, fixed at the start
    shown,     \* messages
    stored,    \* the messages table of IndexedDB
    session,   \* which key pairs the page has; a reload makes new ones
    key,       \* roomKey of each peer entry
    finals,    \* key exchanges completed since the peers met
    open,      \* pairs of pages with an open control channel
    chan,      \* what is on its way over a control channel
    retries,   \* history bundles that wait for the channel to open
    sending,   \* sendChatMessage calls
    tasks,     \* what else a page awaits
    author,    \* who wrote a message (observed)
    sent,      \* texts put on an open channel (observed)
    handed,    \* and those put on one for a page that can read them
    faults

vars == <<scene, shown, stored, session, key, finals, open, chan, retries, sending,
          tasks, author, sent, handed, faults>>
linkVars == <<scene, session, key, finals, open>>

Items == Texts \union Files
Others(p) == scene.pages \ {p}
Seen(p) == {m.item : m \in Range(shown[p])}

\* A message as it is shown, with the page whose clock it was dated by.  A text
\* gets an id of its own on every page, a file that of its transfer.
Msg(p, x, from) ==
    [id |-> <<IF x \in Files THEN "transfer" ELSE p, x>>, item |-> x, from |-> from,
     stamp |-> p]

\* What a page has left to do of a handler.
Task(kind, peer, k, msgs, steps) ==
    [kind |-> kind, peer |-> peer, key |-> k, msgs |-> msgs, steps |-> steps]

Init ==
    /\ scene \in Scenes
    /\ shown = [p \in Pages |-> <<>>] /\ stored = [p \in Pages |-> <<>>]
    /\ session = [p \in Pages |-> 0]
    /\ key = [p \in Pages |-> [q \in Pages |-> NoKey]]
    /\ finals = [p \in Pages |-> [q \in Pages |-> 0]]
    /\ open = {}
    /\ chan = [p \in Pages |-> [q \in Pages |-> <<>>]]
    /\ retries = [p \in Pages |-> <<>>]
    /\ sending = [p \in Pages |-> <<>>] /\ tasks = [p \in Pages |-> <<>>]
    /\ author = [x \in Items |-> None]
    /\ sent = {} /\ handed = {}
    /\ faults = 0

-----------------------------------------------------------------------------
(* Helpers *)

Linked(p, q) == {p, q} \in open
put(p, q, packet) == [chan EXCEPT ![p][q] = Append(@, packet)]
start(p, task) == [tasks EXCEPT ![p] = Append(@, task)]

Bundle(msgs) == [type |-> "history", item |-> None, key |-> NoKey, msgs |-> msgs]
recent(msgs) == SubSeq(msgs, IF Len(msgs) > HistoryMax THEN Len(msgs) - HistoryMax + 1
                             ELSE 1, Len(msgs))

\* Two pages derive the same key from their key pairs; sessions only grow, so
\* their sum tells keys apart.
derived(p, q) == session[p] + session[q]

\* The elements of s at the indices in I, in their order.
at(s, I) ==
    LET kept[n \in 0..Len(s)] ==
            IF n = 0 THEN <<>>
            ELSE IF n \in I THEN Append(kept[n - 1], s[n]) ELSE kept[n - 1]
    IN kept[Len(s)]

\* The messages of a bundle a page does not have yet, each of them once.
BugMergesNothing(p, msgs) == <<>>
unseen(p, msgs) ==
    at(msgs, {i \in DOMAIN msgs :
                 /\ \A n \in Range(shown[p]) : n.id # msgs[i].id
                 /\ \A j \in 1..(i - 1) : msgs[j].id # msgs[i].id})

\* Under whose name a message of a bundle is shown.
BugNamesTheSender(p, q, m) == q
bundleAuthor(p, q, m) == m.from

\* The list after the cached messages have been loaded.
BugReplaces(p, msgs) == msgs
withCached(p, msgs) == msgs \o shown[p]

-----------------------------------------------------------------------------
(* Keys and channels *)

\* The key is installed; a page that shows messages sends the last of them,
\* at once or when the channel opens, one that shows none reads its cache.
finalizeKeyExchange(p, q) ==
    /\ q \in Others(p) /\ finals[p][q] < scene.maxFinals
    /\ finals' = [finals EXCEPT ![p][q] = @ + 1]
    /\ key' = [key EXCEPT ![p][q] = derived(p, q)]
    /\ IF shown[p] = <<>>
       THEN /\ tasks' = start(p, Task("cache", q, derived(p, q), <<>>, <<"load">>))
            /\ UNCHANGED <<chan, retries, handed>>
       ELSE /\ IF Linked(p, q)
               THEN /\ chan' = put(p, q, Bundle(recent(shown[p])))
                    /\ handed' = handed \union
                          {<<q, m.item>> : m \in Range(recent(shown[p]))}
                    /\ UNCHANGED retries
               ELSE /\ retries' = [retries EXCEPT ![p] =
                                     Append(@, [to |-> q, msgs |-> recent(shown[p])])]
                    /\ UNCHANGED <<chan, handed>>
            /\ UNCHANGED tasks
    /\ UNCHANGED <<scene, shown, stored, session, open, sending, author, sent, faults>>

\* trySend: every 150 ms, ten times.
trySend(p, i) ==
    LET r == retries[p][i] IN
    /\ retries' = [retries EXCEPT ![p] = RemoveAt(@, i)]
    /\ IF Linked(p, r.to)
       THEN /\ chan' = put(p, r.to, Bundle(r.msgs))
            /\ handed' = handed \union {<<r.to, m.item>> : m \in Range(r.msgs)}
       ELSE UNCHANGED <<chan, handed>>
    /\ UNCHANGED <<shown, stored, linkVars, sending, tasks, author, sent, faults>>

channelOpens(p, q) ==
    /\ p # q /\ {p, q} \in scene.reachable \ open
    /\ open' = open \union {{p, q}}
    /\ UNCHANGED <<scene, shown, stored, session, key, finals, chan, retries,
                   sending, tasks, author, sent, handed, faults>>

-----------------------------------------------------------------------------
(* sendChatMessage *)

\* The call keeps the peers map it has read: every peer with a key, and any
\* that is being set up.
sendChatMessage(p, t) ==
    /\ p \in scene.writers /\ t \in Texts \cap scene.items /\ author[t] = None
    /\ author' = [author EXCEPT ![t] = p]
    /\ \E peers \in (SUBSET Others(p)) \ {{}} :
          /\ {q \in Others(p) : key[p][q] # NoKey} \subseteq peers
          /\ sending' = [sending EXCEPT ![p] = Append(@,
                [item |-> t, todo |-> peers, peer |-> None, key |-> NoKey,
                 anySent |-> FALSE])]
    /\ UNCHANGED <<shown, stored, linkVars, chan, retries, tasks, sent, handed, faults>>

\* A peer whose key and channel are there has the text encrypted for it.
encrypted(p, s, q) ==
    IF key[p][q] # NoKey /\ Linked(p, q)
    THEN [s EXCEPT !.todo = @ \ {q}, !.peer = q,
                   !.key = IF @ = NoKey THEN key[p][q] ELSE @]
    ELSE [s EXCEPT !.todo = @ \ {q}]

encryptFor(p, i, q) ==
    /\ sending[p][i].peer = None /\ q \in sending[p][i].todo
    /\ sending' = [sending EXCEPT ![p][i] = encrypted(p, @, q)]
    /\ UNCHANGED <<shown, stored, linkVars, chan, retries, tasks, author, sent, handed,
                   faults>>

putChat(p, i) ==
    LET s == sending[p][i]
        q == s.peer IN
    /\ q # None
    /\ chan' = put(p, q, [type |-> "chat", item |-> s.item, key |-> key[p][q],
                          msgs |-> <<>>])
    /\ sending' = [sending EXCEPT ![p][i].peer = None, ![p][i].anySent = TRUE]
    /\ sent' = sent \union {s.item}
    /\ handed' = IF key[q][p] = key[p][q] THEN handed \union {<<q, s.item>>} ELSE handed
    /\ UNCHANGED <<shown, stored, linkVars, retries, tasks, author, faults>>

\* Whether the text has been sent; if not the user is told and that is all.
BugCountsEncryption(s) == s.key # NoKey
wasSent(s) == s.anySent

finishSend(p, i) ==
    LET s == sending[p][i] IN
    /\ s.todo = {} /\ s.peer = None
    /\ sending' = [sending EXCEPT ![p] = RemoveAt(@, i)]
    /\ tasks' = IF wasSent(s)
                THEN start(p, Task("own", p, s.key, <<Msg(p, s.item, p)>>,
                                   <<"save", "show">>))
                ELSE tasks
    /\ UNCHANGED <<shown, stored, linkVars, chan, retries, author, sent, handed, faults>>

-----------------------------------------------------------------------------
(* Files *)

\* The transfer is announced if the channel is open; the sender shows it in any
\* case and stores it under the name of the recipient.
initiateFileTransfer(p, q, f) ==
    /\ p \in scene.writers /\ f \in Files \cap scene.items /\ author[f] = None
    /\ q \in Others(p) /\ key[p][q] # NoKey
    /\ author' = [author EXCEPT ![f] = p]
    /\ chan' = IF Linked(p, q)
               THEN put(p, q, [type |-> "file", item |-> f, key |-> NoKey, msgs |-> <<>>])
               ELSE chan
    /\ tasks' = start(p, Task("fileOut", q, NoKey, <<Msg(p, f, p)>>, <<"show", "save">>))
    /\ UNCHANGED <<shown, stored, linkVars, retries, sending, sent, handed, faults>>

-----------------------------------------------------------------------------
(* onMessage *)

\* The handler of a packet, up to its first await: none for a text without a
\* key or under another one, for a bundle without news, or for a file that is
\* rejected.
handler(p, q, m) ==
    CASE m.type = "chat" /\ key[p][q] # NoKey /\ key[p][q] = m.key ->
            {Task("chat", q, m.key, <<Msg(p, m.item, q)>>, <<"save", "show">>)}
      [] m.type = "history" /\ unseen(p, m.msgs) # <<>> ->
            {Task("history", q, key[p][q],
                  [i \in DOMAIN unseen(p, m.msgs) |->
                      [unseen(p, m.msgs)[i] EXCEPT !.from =
                          bundleAuthor(p, q, unseen(p, m.msgs)[i])]],
                  <<"save", "show">>)}
      [] m.type = "file" ->
            {Task("file", q, NoKey, <<Msg(p, m.item, q)>>, <<"show", "save">>)}
      [] OTHER -> {}

onMessage(q, p) ==
    /\ chan[q][p] # <<>>
    /\ chan' = [chan EXCEPT ![q][p] = Tail(@)]
    /\ LET m == Head(chan[q][p]) IN
       \/ \E t \in handler(p, q, m) : tasks' = start(p, t)
       \/ (handler(p, q, m) = {} \/ m.type = "file") /\ UNCHANGED tasks
    /\ UNCHANGED <<shown, stored, linkVars, retries, sending, author, sent, handed, faults>>

-----------------------------------------------------------------------------
(* Tasks *)

\* A bundle's texts are encrypted again under the key of the peer that sent
\* it, which may have been installed since; without one they are not stored.
saveKeys(p, t) == IF t.kind = "history" THEN {t.key, key[p][t.peer]} ELSE {t.key}

\* File messages are not encrypted.
entries(t, k) ==
    LET kept == at(t.msgs, {i \in DOMAIN t.msgs :
                               t.msgs[i].item \in Files \/ k # NoKey}) IN
    [i \in DOMAIN kept |->
        [item |-> kept[i].item, stamp |-> kept[i].stamp,
         from |-> IF t.kind = "fileOut" THEN t.peer ELSE kept[i].from,
         key |-> IF kept[i].item \in Files THEN NoKey ELSE k]]

\* The cached messages the derived key decrypts, and the file messages; their
\* ids are made of the date and the peer.
readable(p, k) ==
    LET kept == at(stored[p], {i \in DOMAIN stored[p] :
                     stored[p][i].item \in Files \/ stored[p][i].key = k}) IN
    [i \in DOMAIN kept |->
        [id |-> <<"cache", kept[i].item, kept[i].stamp, kept[i].from>>,
         item |-> kept[i].item, from |-> kept[i].from, stamp |-> kept[i].stamp]]

step(p, i) ==
    LET t == tasks[p][i] IN
    /\ CASE Head(t.steps) = "save" ->
              /\ \E k \in saveKeys(p, t) :
                    stored' = [stored EXCEPT ![p] = @ \o entries(t, k)]
              /\ UNCHANGED shown
         [] Head(t.steps) = "show" ->
              shown' = [shown EXCEPT ![p] = @ \o t.msgs] /\ UNCHANGED stored
         [] OTHER ->
              /\ shown' = [shown EXCEPT ![p] = withCached(p, readable(p, t.key))]
              /\ UNCHANGED stored
    /\ tasks' = [tasks EXCEPT ![p] = IF Len(t.steps) = 1 THEN RemoveAt(@, i)
                                     ELSE [@ EXCEPT ![i].steps = Tail(t.steps)]]
    /\ UNCHANGED <<linkVars, chan, retries, sending, author, sent, handed, faults>>

-----------------------------------------------------------------------------
(* Faults *)

\* A call that sends holds the lost peer's entry; its channel is closed and send
\* throws, which is caught.
without(s, q) == [s EXCEPT !.todo = @ \ {q}, !.peer = IF @ = q THEN None ELSE @]
abandon(p, q) == [i \in DOMAIN sending[p] |-> without(sending[p][i], q)]

\* The peer entries of both pages go with the connection, and so does what was
\* on its way.
Apart(p, q) ==
    /\ key' = [key EXCEPT ![p][q] = NoKey, ![q][p] = NoKey]
    /\ finals' = [finals EXCEPT ![p][q] = 0, ![q][p] = 0]
    /\ open' = open \ {{p, q}}
    /\ chan' = [chan EXCEPT ![p][q] = <<>>, ![q][p] = <<>>]
    /\ handed' = {h \in handed : h[1] \notin {p, q}}
    /\ sending' = [sending EXCEPT ![p] = abandon(p, q), ![q] = abandon(q, p)]

loseLink(p, q) ==
    /\ "lose" \in scene.faults /\ faults < scene.maxFaults /\ Linked(p, q)
    /\ faults' = faults + 1
    /\ Apart(p, q)
    /\ UNCHANGED <<scene, shown, stored, session, retries, tasks, author, sent>>

\* Only IndexedDB is left of the page; a text it was sending is abandoned.
reload(p) ==
    /\ "reload" \in scene.faults /\ faults < scene.maxFaults
    /\ faults' = faults + 1
    /\ session' = [session EXCEPT ![p] = @ + 1]
    /\ shown' = [shown EXCEPT ![p] = <<>>]
    /\ retries' = [retries EXCEPT ![p] = <<>>]
    /\ sending' = [q \in Pages |-> IF q = p THEN <<>> ELSE abandon(q, p)]
    /\ tasks' = [tasks EXCEPT ![p] = <<>>]
    /\ key' = [q \in Pages |-> [r \in Pages |-> IF p \in {q, r} THEN NoKey ELSE key[q][r]]]
    /\ finals' = [q \in Pages |-> [r \in Pages |-> IF p \in {q, r} THEN 0 ELSE finals[q][r]]]
    /\ open' = {l \in open : p \notin l}
    /\ chan' = [q \in Pages |-> [r \in Pages |-> IF p \in {q, r} THEN <<>> ELSE chan[q][r]]]
    /\ handed' = {}
    /\ UNCHANGED <<scene, stored, author, sent>>

-----------------------------------------------------------------------------
pageStep(p) ==
    \/ \E i \in DOMAIN tasks[p] : step(p, i)
    \/ \E i \in DOMAIN sending[p] :
          putChat(p, i) \/ finishSend(p, i) \/ \E q \in Pages : encryptFor(p, i, q)
    \/ \E q \in Pages : onMessage(q, p)

Next ==
    \E p \in scene.pages :
        \/ pageStep(p) \/ reload(p)
        \/ \E i \in DOMAIN retries[p] : trySend(p, i)
        \/ \E t \in Texts : sendChatMessage(p, t)
        \/ \E q \in Pages :
              \/ finalizeKeyExchange(p, q) \/ channelOpens(p, q) \/ loseLink(p, q)
              \/ \E f \in Files : initiateFileTransfer(p, q, f)

Spec == Init /\ [][Next]_vars

\* What a page awaits happens, and an open channel delivers.
FairSpec == Spec /\ \A p \in Pages : WF_vars(pageStep(p))

-----------------------------------------------------------------------------
(* Properties *)

Keys == Nat \union {NoKey}

ChatMessage ==
    [id : ((Pages \union {"transfer"}) \X Items) \union
              ({"cache"} \X Items \X Pages \X Pages),
     item : Items, from : Pages, stamp : Pages]
Entry == [item : Items, stamp : Pages, from : Pages, key : Keys]
Packet ==
    [type : {"chat", "file", "history"}, item : Items \union {None}, key : Keys,
     msgs : Seq(ChatMessage)]
Call ==
    [item : Texts, todo : SUBSET Pages, peer : Pages \union {None}, key : Keys,
     anySent : BOOLEAN]
PageTask ==
    [kind : {"own", "chat", "history", "file", "fileOut", "cache"}, peer : Pages,
     key : Keys, msgs : Seq(ChatMessage),
     steps : {<<"load">>, <<"save", "show">>, <<"show", "save">>, <<"show">>, <<"save">>}]

\* Every variable keeps its type.
TypeOK ==
    /\ scene \in Scenes
    /\ shown \in [Pages -> Seq(ChatMessage)] /\ stored \in [Pages -> Seq(Entry)]
    /\ session \in [Pages -> Nat] /\ key \in [Pages -> [Pages -> Keys]]
    /\ finals \in [Pages -> [Pages -> Nat]] /\ open \subseteq SUBSET Pages
    /\ chan \in [Pages -> [Pages -> Seq(Packet)]]
    /\ retries \in [Pages -> Seq([to : Pages, msgs : Seq(ChatMessage)])]
    /\ sending \in [Pages -> Seq(Call)] /\ tasks \in [Pages -> Seq(PageTask)]
    /\ author \in [Items -> Pages \union {None}]
    /\ sent \subseteq Texts /\ handed \subseteq Pages \X Items
    /\ faults \in Nat

\* Whatever way a message came (its author, a bundle of another page, a bundle
\* of a page that had it from a bundle, the cache), it is shown as its author's;
\* only a file read back from IndexedDB may carry the recipient's name.
TrueAuthor ==
    \A p \in Pages : \A m \in Range(shown[p]) :
        m.id[1] # "cache" \/ m.item \in Texts => m.from = author[m.item]

\* A text that is shown anywhere has been put on a channel: a bubble never
\* stands for a message nobody was sent.
BubbleWasSent == \A p \in Pages : Seen(p) \intersect Texts \subseteq sent

\* No handler that comes back from its awaits wipes a message another one has
\* shown meanwhile.
NothingVanishes ==
    [][\A p \in Pages : session'[p] = session[p] => Seen(p) \subseteq Seen(p)']_vars

InTask(p, x) ==
    \E t \in Range(tasks[p]) :
        "show" \in Range(t.steps) /\ \E m \in Range(t.msgs) : m.item = x

InPacket(p, q, m, x) ==
    \/ m.type = "chat" /\ m.item = x /\ m.key = key[p][q] /\ m.key # NoKey
    \/ m.type = "history" /\ \E n \in Range(m.msgs) : n.item = x

\* A message put on an open channel for a page that can read it, or in a
\* bundle, is never lost while the connection and the page last: it is shown
\* there, or some handler is about to, or it is on a channel in a packet the
\* page will read, under the key it then has.
HandedIsUnderWay ==
    \A h \in handed :
        \/ h[2] \in Seen(h[1]) \/ InTask(h[1], h[2])
        \/ \E q \in Pages : \E m \in Range(chan[q][h[1]]) : InPacket(h[1], q, m, h[2])

Undelivered == {h \in handed : h[2] \notin Seen(h[1])}

\* It is shown there in the end, unless the connection or the page is lost.
HandedOverIsShown == Undelivered # {} ~> Undelivered = {}
=============================================================================

------------------------------ MODULE PoaThreads ------------------------------
(***************************************************************************)
(* One conversation of a POA: the row of poa_threads with its counters,    *)
(* and its messages in poa_messages, under the methods of PoaService.      *)
(*                                                                         *)
(* A request runs through some of these steps, each one access:            *)
(*                                                                         *)
(*   idle -> thread -> found -> insert | find | mload -> mwrite | remove   *)
(*        -> load -> write -> done                                         *)
(*                                                                         *)
(* A message is named by the request that posted it.  The client and the   *)
(* administrator are the two parties; a message's text, the thread's type  *)
(* and subject, and the dates are left out.                                *)
(***************************************************************************)
EXTENDS Integers, FiniteSets, EntitySave

CONSTANTS
  MaxRequests,  \* bound: requests about this thread
  MaxInFlight   \* bound: the requests that overlap

Request == 1 .. MaxRequests
Party == {"client", "admin"}
Peer(p) == CHOOSE q \in Party : q # p

Thread == [createdBy : Party \cup {"nobody"}, status : {"open", "closed"},
           messageCount : Nat, unreadCount : Nat]

\* The row before it is inserted.
NoThread == [createdBy |-> "nobody", status |-> "open",
             messageCount |-> 0, unreadCount |-> 0]

Message == [state : {"none", "unread", "read", "deleted"}, sender : Party]
NoMessage == [state |-> "none", sender |-> "client"]

Op == {"createThread", "createMessage", "post", "markThread", "close", "reopen",
       "markMessage", "delete"}

\* What a request holds: the thread it read (base) and its changed copy (local),
\* the messages it found, and those of them its save found missing.
Memory == [pc : {"idle", "found", "insert", "find", "mload", "mwrite", "remove",
                 "load", "write", "done"},
           op : Op, by : Party, base : Thread, local : Thread,
           diff : SUBSET {"createdBy", "status", "messageCount", "unreadCount"},
           found : SUBSET Request, missing : SUBSET Request]
Idle == [pc |-> "idle", op |-> "post", by |-> "client", base |-> NoThread,
         local |-> NoThread, diff |-> {}, found |-> {}, missing |-> {}]

VARIABLES
  thread,    \* the row of poa_threads
  messages,  \* messages[r]: the message posted by request r
  req,       \* req[r]: what request r holds in memory
  stale,     \* observer: a request acted on what the tables had moved away from,
             \* read a message that was not counted yet, or one about to be deleted
  failed,    \* observer: a request failed between its steps
  disturbed  \* observer: something read or deleted messages past unreadCount

vars == <<thread, messages, req, stale, failed, disturbed>>

Init ==
  /\ thread = NoThread
  /\ messages = [r \in Request |-> NoMessage]
  /\ req = [r \in Request |-> Idle]
  /\ stale = FALSE /\ failed = FALSE /\ disturbed = FALSE

InFlight == {r \in Request : req[r].pc \notin {"idle", "done"}}

\* r is the next request.
Arrives(r) ==
  /\ req[r].pc = "idle"
  /\ \A q \in 1 .. r - 1 : req[q].pc # "idle"
  /\ Cardinality(InFlight) < MaxInFlight

Exists == thread.createdBy # "nobody"
Goes(r, memory) == req' = [req EXCEPT ![r] = memory]
Done == [Idle EXCEPT !.pc = "done"]

-----------------------------------------------------------------------------
(* Threads.                                                                *)

\* Inserts the thread; createMessage, the deprecated way to post, goes on with
\* the thread it has created.
Insert(r, o, p) ==
  /\ Arrives(r)
  /\ ~Exists
  /\ thread' = [NoThread EXCEPT !.createdBy = p]
  /\ Goes(r, IF o = "createMessage" THEN [Idle EXCEPT !.pc = "found", !.op = o, !.by = p]
             ELSE Done)
  /\ UNCHANGED <<messages, stale, failed, disturbed>>

CreateThread(r, p) == Insert(r, "createThread", p)
CreateMessage(r, p) == Insert(r, "createMessage", p)

\* Request r of party p has read the thread and goes on at pc with a copy.
Finds(r, o, p, pc, local) ==
  /\ Exists
  /\ Goes(r, [Idle EXCEPT !.pc = pc, !.op = o, !.by = p, !.base = thread, !.local = local])
  /\ UNCHANGED <<thread, messages, stale, failed, disturbed>>

\* Faulty variant of Counted: the thread's own party counts as the other one.
CountedOwn(p) ==
  [thread EXCEPT !.messageCount = @ + 1,
                 !.unreadCount = IF p = thread.createdBy THEN @ + 1 ELSE @]

\* The counters with a message of party p added.
Counted(p) ==
  [thread EXCEPT !.messageCount = @ + 1,
                 !.unreadCount = IF p = Peer(thread.createdBy) THEN @ + 1 ELSE @]

CreateMessageInThread(r, p) ==
  /\ Arrives(r)
  /\ Finds(r, "post", p, "insert", Counted(p))

PostFirst(r) ==
  /\ req[r].pc = "found"
  /\ Finds(r, "createMessage", req[r].by, "insert", Counted(req[r].by))

InsertMessage(r) ==
  /\ req[r].pc = "insert"
  /\ messages' = [messages EXCEPT ![r] = [state |-> "unread", sender |-> req[r].by]]
  /\ Goes(r, [req[r] EXCEPT !.pc = "load"])
  /\ UNCHANGED <<thread, stale, failed, disturbed>>

CloseThread(r, p) ==
  Arrives(r) /\ Finds(r, "close", p, "load", [thread EXCEPT !.status = "closed"])

ReopenThread(r, p) ==
  Arrives(r) /\ Finds(r, "reopen", p, "load", [thread EXCEPT !.status = "open"])

MarkThreadAsRead(r, p) ==
  Arrives(r) /\ Finds(r, "markThread", p, "find", thread)

Unread(p) == {m \in Request : messages[m] = [state |-> "unread", sender |-> p]}

\* Faulty variant of Less: not kept from going below zero.
LessAny(count, n) == count - n

Less(count, n) == IF count > n THEN count - n ELSE 0

\* The unread messages of the other party; when there are none, that is all.
FindUnread(r) ==
  /\ req[r].pc = "find"
  /\ LET ms == Unread(Peer(req[r].by))
     IN /\ Goes(r, IF ms = {} THEN Done
                   ELSE [req[r] EXCEPT !.pc = "mload", !.found = ms,
                                       !.local.unreadCount = Less(@, Cardinality(ms))])
        /\ stale' = (stale \/ ms \cap InFlight # {})
  /\ UNCHANGED <<thread, messages, failed, disturbed>>

ThreadLoad(r) ==
  /\ req[r].pc = "load"
  /\ Goes(r, [req[r] EXCEPT !.pc = "write", !.diff = Differing(req[r].local, thread)])
  /\ UNCHANGED <<thread, messages, stale, failed, disturbed>>

ThreadWrite(r) ==
  /\ req[r].pc = "write"
  /\ thread' = Patched(thread, req[r].local, req[r].diff)
  /\ stale' = (stale \/ thread # req[r].base)
  /\ Goes(r, Done)
  /\ UNCHANGED <<messages, failed, disturbed>>

-----------------------------------------------------------------------------
(* Messages.                                                               *)

\* Either party may mark any message.  One that is read already is left alone.
MarkMessageAsRead(r, p) ==
  /\ Arrives(r)
  /\ \E m \in Request :
       /\ messages[m].state = "unread"
       /\ Goes(r, [Idle EXCEPT !.pc = "mload", !.op = "markMessage", !.by = p, !.found = {m}])
  /\ UNCHANGED <<thread, messages, stale, failed, disturbed>>

\* Faulty variant of DeleteMessage: a message that was read may go, too.
DeleteAny(r, p) ==
  /\ Arrives(r)
  /\ \E m \in Request :
       /\ messages[m].state \in {"unread", "read"} /\ messages[m].sender = p
       /\ Goes(r, [Idle EXCEPT !.pc = "remove", !.op = "delete", !.by = p, !.found = {m}])
  /\ UNCHANGED <<thread, messages, stale, failed, disturbed>>

\* The sender takes back a message that has not been read.
DeleteMessage(r, p) ==
  /\ Arrives(r)
  /\ \E m \in Request :
       /\ messages[m] = [state |-> "unread", sender |-> p]
       /\ Goes(r, [Idle EXCEPT !.pc = "remove", !.op = "delete", !.by = p, !.found = {m}])
  /\ UNCHANGED <<thread, messages, stale, failed, disturbed>>

\* The save of one message or of an array of them selects the rows first, ...
MessageLoad(r) ==
  /\ req[r].pc = "mload"
  /\ Goes(r, [req[r] EXCEPT !.pc = "mwrite",
                !.missing = {m \in req[r].found : messages[m].state = "deleted"}])
  /\ UNCHANGED <<thread, messages, stale, failed, disturbed>>

\* ... then, in one transaction, inserts those that were missing and updates the
\* others; the update of a row that has gone since changes nothing.
MessageWrite(r) ==
  /\ req[r].pc = "mwrite"
  /\ \A m \in req[r].missing : messages[m].state = "deleted"
  /\ messages' = [m \in Request |->
       IF m \in req[r].found /\ (messages[m].state # "deleted" \/ m \in req[r].missing)
       THEN [messages[m] EXCEPT !.state = "read"] ELSE messages[m]]
  /\ stale' = (stale \/ (\E m \in req[r].found : messages[m].state = "deleted")
                    \/ \E q \in Request : req[q].pc = "remove" /\ req[q].found \cap req[r].found # {})
  /\ disturbed' = (disturbed \/ req[r].op = "markMessage" \/ req[r].by # thread.createdBy)
  /\ Goes(r, IF req[r].op = "markThread" THEN [req[r] EXCEPT !.pc = "load"] ELSE Done)
  /\ UNCHANGED <<thread, failed>>

Remove(r) ==
  /\ req[r].pc = "remove"
  /\ messages' = [m \in Request |-> IF m \in req[r].found
                                    THEN [messages[m] EXCEPT !.state = "deleted"]
                                    ELSE messages[m]]
  /\ disturbed' = TRUE
  /\ Goes(r, Done)
  /\ UNCHANGED <<thread, stale, failed>>

\* An access fails, two requests insert the same message again, or the process
\* dies: what is written stays written.
Fails(r) ==
  /\ r \in InFlight
  /\ Goes(r, Done)
  /\ failed' = TRUE
  /\ UNCHANGED <<thread, messages, stale, disturbed>>

-----------------------------------------------------------------------------
(* The routes of the two controllers, which are the same for both parties. *)

ThreadRoutes(r, p) ==
  \/ CreateThread(r, p) \/ CreateMessageInThread(r, p) \/ MarkThreadAsRead(r, p)
  \/ CloseThread(r, p) \/ ReopenThread(r, p)

MessageRoutes(r, p) ==
  CreateMessage(r, p) \/ MarkMessageAsRead(r, p) \/ DeleteMessage(r, p)

ClientRoutes(r) == ThreadRoutes(r, "client") \/ MessageRoutes(r, "client")
AdminRoutes(r) == ThreadRoutes(r, "admin") \/ MessageRoutes(r, "admin")

Next ==
  \E r \in Request :
    \/ ClientRoutes(r) \/ AdminRoutes(r)
    \/ PostFirst(r) \/ InsertMessage(r) \/ FindUnread(r)
    \/ ThreadLoad(r) \/ ThreadWrite(r)
    \/ MessageLoad(r) \/ MessageWrite(r) \/ Remove(r) \/ Fails(r)

Spec == Init /\ [][Next]_vars

-----------------------------------------------------------------------------
(* Properties.                                                             *)

TypeOK ==
  /\ thread \in Thread
  /\ messages \in [Request -> Message]
  /\ req \in [Request -> Memory]
  /\ stale \in BOOLEAN /\ failed \in BOOLEAN /\ disturbed \in BOOLEAN

Posted == {m \in Request : messages[m].state # "none"}
FromPeer == {m \in Posted : messages[m].sender = Peer(thread.createdBy)}
Settled == InFlight = {} /\ ~stale /\ ~failed

\* The counters are read, incremented in memory and saved.  However requests
\* overlap and fail they never exceed what was posted; and when none acted on a
\* stale copy and none failed half-way, messageCount is what was posted, and
\* unreadCount what the creator has not read of the other party's messages, as
\* long as only the creator marks the thread as read and nobody deletes a message
\* or marks a single one.
CountersTell ==
  /\ thread.messageCount <= Cardinality(Posted)
  /\ thread.unreadCount <= Cardinality(FromPeer)
  /\ Settled => thread.messageCount = Cardinality(Posted)
  /\ Settled /\ ~disturbed /\ Exists =>
       thread.unreadCount = Cardinality(Unread(Peer(thread.createdBy)))

\* What was read stays in the conversation, and what was taken back stays away,
\* unless the reader and the sender act on the same message at the same time.
ReadStays ==
  [][~stale' => \A m \in Request :
        messages[m].state \in {"read", "deleted"} =>
          messages'[m].state = messages[m].state]_vars

=============================================================================

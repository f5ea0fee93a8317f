------------------------------- MODULE LspPool -------------------------------
(***************************************************************************)
(* The pool of language servers behind code navigation                     *)
(* (code_intel/lsp.rs and lsp/protocol.rs).                                *)
(*                                                                         *)
(* The map from a root to its slot, each slot and each server have a lock  *)
(* of their own, and a request lets go of the map between any two looks at *)
(* it.  A slot or a server taken out of the map lives on in the requests   *)
(* that still hold it.  Slots, servers and protocol messages carry the     *)
(* number of the request that made them.  A root has one source file; its  *)
(* versions are numbered from 1.  Clock times are left out: an idle server *)
(* may have expired at any look, and any evictable server may be the       *)
(* oldest.                                                                 *)
(***************************************************************************)
EXTENDS Integers, FiniteSets

CONSTANTS Root,
          MaxServers,  \* max_active_servers
          MaxRequest,  \* bound on the requests
          MaxChange,   \* bound on the edits of sources
          MaxMishap    \* bound on servers that die and requests dropped

ASSUME LspAssumption == MaxRequest \in Nat /\ MaxChange \in Nat

VARIABLES source,      \* version of each root's file on disk
          slots,       \* clients: the slot of each root, 0 when it has none
          slot,        \* each slot: its client and the holder of its lock
          server,      \* each language server and its transport
          request,     \* each navigation request
          changes, mishaps

lspVars == <<source, slots, slot, server, request, changes, mishaps>>

Request == 1..MaxRequest
Versions == 1..(MaxChange + 1)
Gone == [at |-> "done", root |-> "none", text |-> 0, slot |-> 0, server |-> 0,
         back |-> "none", answer |-> 0]
NotYet == [Gone EXCEPT !.at = "new"]
EmptySlot == [client |-> 0, lock |-> 0]

\* A server as its process starts.  `known` is the fingerprint this side
\* keeps of the open document, `doc` the text the process has got.
NewServer == [up |-> TRUE, lock |-> 0, known |-> 0, doc |-> 0, torn |-> FALSE,
              pending |-> {}, asked |-> {}]

LspInit ==
  /\ source = [r \in Root |-> 1] /\ slots = [r \in Root |-> 0]
  /\ slot = [i \in Request |-> EmptySlot] /\ server = [i \in Request |-> NewServer]
  /\ request = [i \in Request |-> NotYet] /\ changes = 0 /\ mishaps = 0

Live == {i \in Request : request[i].at \notin {"new", "done"}}
AtStep(i, a) == request[i].at = a
Goes(i, a) == request' = [request EXCEPT ![i].at = a]
Finishes(i) == request' = [request EXCEPT ![i] = Gone]
UseServer(i, s) == request' = [request EXCEPT ![i].at = "ask", ![i].server = s, ![i].slot = 0]

\* The source of a root changes on disk (external).
EditSource(r) ==
  /\ changes < MaxChange /\ changes' = changes + 1
  /\ source' = [source EXCEPT ![r] = @ + 1]
  /\ UNCHANGED <<slots, slot, server, request, mishaps>>

-----------------------------------------------------------------------------
\* request_locations: the source is read before any lock is taken.
Ask(i, r) ==
  /\ AtStep(i, "new") /\ (i > 1 => request[i - 1].at # "new")
  /\ request' = [request EXCEPT ![i] = [Gone EXCEPT !.at = "find", !.root = r, !.text = source[r]]]
  /\ UNCHANGED <<source, slots, slot, server, changes, mishaps>>

\* client_for, the fast path: the slot there is, once its lock is free.
FindSlot(i) ==
  /\ AtStep(i, "find")
  /\ LET s == slots[request[i].root] IN
     request' = [request EXCEPT ![i].slot = s, ![i].at = IF s = 0 THEN "expire" ELSE "peek"]
  /\ UNCHANGED <<source, slots, slot, server, changes, mishaps>>

PeekSlot(i) ==
  /\ AtStep(i, "peek") /\ slot[request[i].slot].lock = 0
  /\ LET c == slot[request[i].slot].client IN
     IF c # 0 THEN UseServer(i, c)
     ELSE request' = [request EXCEPT ![i].at = "expire", ![i].slot = 0]
  /\ UNCHANGED <<source, slots, slot, server, changes, mishaps>>

\* eviction_score: only a slot with a server and a free lock has one.
Evictable(i) ==
  {r \in Root : /\ r # request[i].root /\ slots[r] # 0
                /\ slot[slots[r]].lock = 0 /\ slot[slots[r]].client # 0}

\* remove_clients: out of the map first, then the slot is cleared under
\* its own lock.
EvictRoot(i, r) ==
  /\ slots' = [slots EXCEPT ![r] = 0]
  /\ request' = [request EXCEPT ![i].back = request[i].at, ![i].at = "clear", ![i].slot = slots[r]]
  /\ UNCHANGED <<source, slot, server, changes, mishaps>>

EvictExpired(i) ==
  /\ AtStep(i, "expire")
  /\ \/ \E r \in Evictable(i) : EvictRoot(i, r)
     \/ Goes(i, "room") /\ UNCHANGED <<source, slots, slot, server, changes, mishaps>>

\* ensure_capacity_for: with the room there is, the oldest one evicted, or
\* with an error.  The map is let go of afterwards.
Full(i) ==
  /\ slots[request[i].root] = 0
  /\ Cardinality({r \in Root : slots[r] # 0}) >= MaxServers

EnsureCapacity(i) ==
  /\ AtStep(i, "room")
  /\ \/ ~Full(i) /\ Goes(i, "insert") /\ UNCHANGED <<source, slots, slot, server, changes, mishaps>>
     \/ /\ Full(i) /\ Evictable(i) = {} /\ Finishes(i)
        /\ UNCHANGED <<source, slots, slot, server, changes, mishaps>>
     \/ Full(i) /\ \E r \in Evictable(i) : EvictRoot(i, r)

ClearEvicted(i) ==
  /\ AtStep(i, "clear") /\ slot[request[i].slot].lock = 0
  /\ slot' = [slot EXCEPT ![request[i].slot].client = 0]
  /\ request' = [request EXCEPT ![i].at = request[i].back, ![i].slot = 0, ![i].back = "none"]
  /\ UNCHANGED <<source, slots, server, changes, mishaps>>

\* client_slot_or_insert.
TakeSlot(i) ==
  /\ AtStep(i, "insert")
  /\ LET r == request[i].root IN
     /\ slots' = [slots EXCEPT ![r] = IF @ = 0 THEN i ELSE @]
     /\ request' = [request EXCEPT ![i].at = "enter", ![i].slot = slots'[r]]
  /\ UNCHANGED <<source, slot, server, changes, mishaps>>

\* Whoever gets the slot's lock first starts the server.
EnterSlot(i) ==
  /\ AtStep(i, "enter") /\ slot[request[i].slot].lock = 0
  /\ LET c == slot[request[i].slot].client IN
     IF c # 0 THEN UseServer(i, c) /\ UNCHANGED slot
     ELSE Goes(i, "spawn") /\ slot' = [slot EXCEPT ![request[i].slot].lock = i]
  /\ UNCHANGED <<source, slots, server, changes, mishaps>>

SpawnServer(i) ==
  /\ AtStep(i, "spawn")
  /\ slot' = [slot EXCEPT ![request[i].slot] = [client |-> i, lock |-> 0]]
  /\ UseServer(i, i)
  /\ UNCHANGED <<source, slots, server, changes, mishaps>>

\* The server cannot be started, or the warm-up timeout has passed.
SpawnFails(i) ==
  /\ AtStep(i, "spawn") /\ mishaps < MaxMishap /\ mishaps' = mishaps + 1
  /\ slot' = [slot EXCEPT ![request[i].slot].lock = 0]
  /\ request' = [request EXCEPT ![i].at = "reset", ![i].slot = 0]
  /\ UNCHANGED <<source, slots, server, changes>>

\* reset_client: whatever slot the root has by now goes.
ResetClient(i) ==
  /\ AtStep(i, "reset")
  /\ LET r == request[i].root IN
     /\ slots' = [slots EXCEPT ![r] = 0]
     /\ IF slots[r] = 0 THEN Finishes(i)
        ELSE request' = [request EXCEPT ![i].at = "wipe", ![i].slot = slots[r]]
  /\ UNCHANGED <<source, slot, server, changes, mishaps>>

WipeSlot(i) ==
  /\ AtStep(i, "wipe") /\ slot[request[i].slot].lock = 0
  /\ slot' = [slot EXCEPT ![request[i].slot].client = 0] /\ Finishes(i)
  /\ UNCHANGED <<source, slots, server, changes, mishaps>>

-----------------------------------------------------------------------------
\* RootLanguageServer::request_locations, all of it under the server's
\* lock: the document is synchronised, then the question is sent.
LockServer(i) ==
  /\ AtStep(i, "ask")
  /\ LET s == request[i].server IN
     /\ server[s].lock = 0
     /\ server' = [server EXCEPT ![s].lock = i, ![s].known = request[i].text]
     /\ Goes(i, IF server[s].known = request[i].text THEN "query" ELSE "sync")
  /\ UNCHANGED <<source, slots, slot, changes, mishaps>>

\* An error gives the lock back and has the root's slot reset.
Abandon(i, srv) ==
  /\ server' = [server EXCEPT ![request[i].server] = [srv EXCEPT !.lock = 0, !.pending = @ \ {i}]]
  /\ request' = [request EXCEPT ![i].at = "reset", ![i].server = 0]

SyncDocument(i) ==
  /\ AtStep(i, "sync")
  /\ LET s == request[i].server IN
     \/ server[s].up /\ server' = [server EXCEPT ![s].doc = request[i].text] /\ Goes(i, "query")
     \/ ~server[s].up /\ Abandon(i, server[s])
  /\ UNCHANGED <<source, slots, slot, changes, mishaps>>

SendQuery(i) ==
  /\ AtStep(i, "query")
  /\ LET s == request[i].server IN
     \/ /\ server[s].up /\ Goes(i, "wait")
        /\ server' = [server EXCEPT ![s].pending = @ \cup {i},
                                    ![s].asked = @ \cup {[id |-> i, doc |-> server[s].doc]}]
     \/ ~server[s].up /\ Abandon(i, server[s])
  /\ UNCHANGED <<source, slots, slot, changes, mishaps>>

\* read_loop: an answer goes to the request with its id, if it is waiting.
Reply(s, m) ==
  /\ server[s].up /\ m \in server[s].asked
  /\ LET waits == m.id \in server[s].pending /\ AtStep(m.id, "wait") IN
     /\ server' = [server EXCEPT ![s].asked = @ \ {m}, ![s].pending = @ \ {m.id},
                                 ![s].lock = IF waits THEN 0 ELSE @]
     /\ request' = IF waits THEN [request EXCEPT ![m.id].at = "told", ![m.id].answer = m.doc]
                   ELSE request
  /\ UNCHANGED <<source, slots, slot, changes, mishaps>>

\* The locations go back to the caller.
Told(i) ==
  /\ AtStep(i, "told") /\ Finishes(i)
  /\ UNCHANGED <<source, slots, slot, server, changes, mishaps>>

\* The request timeout: the id is forgotten and the slot reset.
TimeOut(i) ==
  /\ AtStep(i, "wait") /\ Abandon(i, server[request[i].server])
  /\ UNCHANGED <<source, slots, slot, changes, mishaps>>

\* The server's output ends and everything pending fails with it.
ServerDies(s) ==
  /\ server[s].up /\ mishaps < MaxMishap /\ mishaps' = mishaps + 1
  /\ (\E r \in Root : slots[r] # 0 /\ slot[slots[r]].client = s) \/ (\E i \in Live : request[i].server = s)
  /\ LET hit == {i \in server[s].pending : AtStep(i, "wait")} IN
     /\ server' = [server EXCEPT ![s].up = FALSE, ![s].pending = {}, ![s].asked = {},
                                 ![s].lock = IF hit # {} THEN 0 ELSE @]
     /\ request' = [i \in Request |-> IF i \in hit
                      THEN [request[i] EXCEPT !.at = "reset", !.server = 0] ELSE request[i]]
  /\ UNCHANGED <<source, slots, slot, changes>>

\* The caller hangs up: the handler is dropped where it waits, and with it
\* its locks.  Dropped while it sends the document, it leaves a server
\* whose `known` is not what its process has got.
DropRequest(i) ==
  /\ i \in Live /\ mishaps < MaxMishap /\ mishaps' = mishaps + 1
  /\ slot' = [s \in Request |-> IF slot[s].lock = i THEN [slot[s] EXCEPT !.lock = 0] ELSE slot[s]]
  /\ server' = [s \in Request |-> IF server[s].lock = i
                  THEN [server[s] EXCEPT !.lock = 0, !.torn = @ \/ AtStep(i, "sync")] ELSE server[s]]
  /\ Finishes(i)
  /\ UNCHANGED <<source, slots, changes>>

LspStep(i) ==
  \/ FindSlot(i) \/ PeekSlot(i) \/ EvictExpired(i) \/ EnsureCapacity(i) \/ ClearEvicted(i)
  \/ TakeSlot(i) \/ EnterSlot(i) \/ SpawnServer(i) \/ ResetClient(i) \/ WipeSlot(i)
  \/ LockServer(i) \/ SyncDocument(i) \/ SendQuery(i) \/ Told(i) \/ TimeOut(i)

LspNext ==
  \/ \E r \in Root : EditSource(r)
  \/ \E i \in Request : LspStep(i) \/ SpawnFails(i) \/ DropRequest(i) \/ \E r \in Root : Ask(i, r)
  \/ \E s \in Request : ServerDies(s) \/ \E m \in server[s].asked : Reply(s, m)

\* Requests go on, their locks are queued for in order, and timeouts fire.
LspFairness == \A i \in Request : SF_lspVars(LspStep(i))
-----------------------------------------------------------------------------
LspTypeOK ==
  /\ \A r \in Root : slots[r] \in 0..MaxRequest /\ source[r] \in Versions
  /\ \A i \in Request : /\ slot[i].client \in 0..MaxRequest /\ slot[i].lock \in 0..MaxRequest
                        /\ server[i].pending \subseteq Request
                        /\ request[i].text \in {0} \cup Versions

\* What a caller is told was computed from the text it asked about, also
\* when other callers, with an older or a newer text, share the server and
\* late answers to requests that gave up still come in.  The exception is
\* a server on which a caller hung up while it sent the document.
AnswersMatchSource ==
  \A i \in Request : AtStep(i, "told") =>
    request[i].answer = request[i].text \/ server[request[i].server].torn

\* Every navigation request is answered, or fails, in the end: nobody
\* waits for good on a slot or a server that another one holds.
RequestsReturn == \A i \in Request : request[i].at = "find" ~> request[i].at = "done"
=============================================================================

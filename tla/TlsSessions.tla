---------------------------- MODULE TlsSessions ----------------------------
(***************************************************************************)
(* The cache of TLS sessions that workers share, and the keys of session   *)
(* tickets (ngx_event_openssl.c).                                          *)
(*                                                                         *)
(* A session is kept in two pieces of the memory of the zone: the bytes of *)
(* the session, and its ngx_ssl_sess_id_t, which is in the tree and in the *)
(* queue.  The mutex of the zone is held over each operation, except that  *)
(* ngx_ssl_get_cached_session() decodes its copy of the bytes after it has *)
(* unlocked the mutex, and reads the length from the shared memory again.  *)
(***************************************************************************)
EXTENDS Integers, Sequences, FiniteSets, SequencesExt, FiniteSetsExt

CONSTANTS
  Zones,           (* the numbers of pieces of memory that a zone may have *)
  SessionIds,
  SslWorkers,
  SslTimeouts,     (* the ssl_session_timeout of the servers that share the zone *)
  TicketFiles,     (* the keys there may be; a file with a bad length is none of them *)
  MaxTime,         (* bound on the clock *)
  MaxSessions      (* bound on the sessions made *)

VARIABLES
  zone,      (* mem, the tree, the queue (its head first), the clock *)
  lookup,    (* what a worker copied and has not yet decoded *)
  wrong,     (* history: a lookup decoded bytes that are not of its session *)
  ticket     (* the ticket keys of the configuration, of which the first     *)
             (* encrypts, and the keys of the tickets that clients hold      *)

Free == [kind |-> "free", id |-> 0, len |-> 0, data |-> 0, expire |-> 0, born |-> 0]
NoLookup == [cell |-> 0, born |-> 0, bytes |-> Free]

SessionCacheInit(cells) ==
  [mem |-> [c \in 1 .. cells |-> Free], tree |-> {}, queue |-> << >>, now |-> 0, born |-> 0]

SessionsInit ==
  /\ zone \in {SessionCacheInit(cells) : cells \in Zones}
  /\ lookup = [w \in SslWorkers |-> NoLookup]
  /\ wrong = FALSE

TicketsInit == ticket = [keys |-> << >>, held |-> {}]

-----------------------------------------------------------------------------

(* ngx_queue_remove(), ngx_rbtree_delete() and two ngx_slab_free_locked() *)
Forget(z, c) ==
  [z EXCEPT !.tree = @ \ {c}, !.queue = SelectSeq(@, LAMBDA x : x # c),
            !.mem[z.mem[c].data] = Free, !.mem[c] = Free]

(* n = 0 frees the oldest session whether it has expired or not. *)
RECURSIVE ExpireSessions(_, _)
ExpireSessions(z, n) ==
  IF n >= 3 \/ z.queue = << >> \/ (n # 0 /\ z.mem[Last(z.queue)].expire > z.now) THEN z
  ELSE ExpireSessions(Forget(z, Last(z.queue)), n + 1)

Room(z) == {c \in DOMAIN z.mem : z.mem[c].kind = "free"}

(* ngx_slab_alloc_locked(), and once more after it has failed; cell 0 is NULL. *)
SlabAlloc(z, kind) ==
  IF Room(z) = {} THEN [cell |-> 0, to |-> z]
  ELSE LET c == Min(Room(z)) IN [cell |-> c, to |-> [z EXCEPT !.mem[c].kind = kind]]
AllocTwice(z, kind) ==
  IF Room(z) # {} THEN SlabAlloc(z, kind) ELSE SlabAlloc(ExpireSessions(z, 0), kind)

NewSession(z, id, len, timeout) ==
  LET d == AllocTwice(ExpireSessions(z, 1), "data")
      n == AllocTwice(d.to, "node")
  IN IF d.cell = 0 THEN d.to
     ELSE IF n.cell = 0 THEN [n.to EXCEPT !.mem[d.cell] = Free]
     ELSE [n.to EXCEPT
            !.mem[d.cell] = [Free EXCEPT !.kind = "data", !.id = id, !.len = len, !.born = z.born + 1],
            !.mem[n.cell] = [kind |-> "node", id |-> id, len |-> len, data |-> d.cell,
                             expire |-> z.now + timeout, born |-> z.born + 1],
            !.queue = << n.cell >> \o @, !.tree = @ \cup {n.cell}, !.born = @ + 1]

Found(z, id) == {c \in z.tree : z.mem[c].id = id}

-----------------------------------------------------------------------------

(* A handshake ends with a new session; OpenSSL has made its id unique. *)
SslNewSession(w) ==
  /\ lookup[w] = NoLookup /\ zone.born < MaxSessions
  /\ \E id \in SessionIds, len \in {1, 2}, timeout \in SslTimeouts :
       /\ Found(zone, id) = {}
       /\ zone' = NewSession(zone, id, len, timeout)
  /\ UNCHANGED << lookup, wrong >>

(* The part of ngx_ssl_get_cached_session() under the mutex. *)
SslGetCached(w) ==
  /\ lookup[w] = NoLookup
  /\ \E c \in zone.tree :
       IF zone.mem[c].expire > zone.now
       THEN /\ lookup' = [lookup EXCEPT ![w] =
                            [cell |-> c, born |-> zone.mem[c].born, bytes |-> zone.mem[zone.mem[c].data]]]
            /\ zone' = zone
       ELSE zone' = Forget(zone, c) /\ lookup' = lookup
  /\ UNCHANGED wrong

(* d2i_SSL_SESSION(): a length that is too short gives no session; the     *)
(* length of a piece that is free again may be any.                        *)
SslDecode(w) ==
  /\ lookup[w] # NoLookup
  /\ \E len \in IF zone.mem[lookup[w].cell].kind = "node" THEN {zone.mem[lookup[w].cell].len} ELSE 0 .. 2 :
       wrong' = (wrong \/ (len >= lookup[w].bytes.len /\ lookup[w].bytes.born # lookup[w].born))
  /\ lookup' = [lookup EXCEPT ![w] = NoLookup]
  /\ UNCHANGED zone

(* OpenSSL finds that a session is of no use. *)
SslRemove(w) ==
  /\ lookup[w] = NoLookup
  /\ \E c \in zone.tree : zone' = Forget(zone, c)
  /\ UNCHANGED << lookup, wrong >>

SessionTick ==
  /\ zone.now < MaxTime
  /\ zone' = [zone EXCEPT !.now = @ + 1]
  /\ UNCHANGED << lookup, wrong >>

(* ngx_ssl_session_ticket_keys() of a new configuration: one file that     *)
(* cannot be read, or has another length, fails the whole of it.           *)
TicketKeys(files) == IF Range(files) \subseteq TicketFiles THEN files ELSE ticket.keys
LoadTicketKeys ==
  \E k \in TicketFiles \cup {"bad"} :
    ticket' = [ticket EXCEPT !.keys = TicketKeys(<< k >> \o SubSeq(@, 1, Min({1, Len(@)})))]

(* ngx_ssl_session_ticket_key_callback(): 1 takes a ticket, 2 takes it and *)
(* gives a new one, 0 does not know its key.                               *)
TicketKey(keys, name) ==
  IF ~Contains(keys, name) THEN 0 ELSE IF keys[1] = name THEN 1 ELSE 2
IssueTicket(name) == [ticket EXCEPT !.held = (@ \ {name}) \cup {ticket.keys[1]}]
TakeTicket ==
  /\ ticket.keys # << >>
  /\ \/ ticket' = IssueTicket("none")                   (* a full handshake *)
     \/ \E name \in ticket.held :
          ticket' = CASE TicketKey(ticket.keys, name) = 1 -> ticket
                      [] TicketKey(ticket.keys, name) = 2 -> IssueTicket(name)
                      [] TicketKey(ticket.keys, name) = 0 -> [ticket EXCEPT !.held = @ \ {name}]

SessionsNext ==
  \/ \E w \in SslWorkers : SslNewSession(w) \/ SslGetCached(w) \/ SslDecode(w) \/ SslRemove(w)
  \/ SessionTick

TicketsNext == LoadTicketKeys \/ TakeTicket

-----------------------------------------------------------------------------

(* The tree and the queue hold the same sessions, each once, the newest at *)
(* the head; every piece of the memory is free or belongs to one of them;  *)
(* the bytes a session has are its own (ngx_ssl_new_session,               *)
(* ngx_ssl_expire_sessions, ngx_ssl_remove_session); a lookup decodes the  *)
(* bytes of a session or nothing, whatever another worker did to it after  *)
(* the mutex was unlocked (ngx_ssl_get_cached_session).                    *)
SessionsAreSound ==
  /\ Range(zone.queue) = zone.tree /\ Len(zone.queue) = Cardinality(zone.tree)
  /\ \A i \in 1 .. Len(zone.queue) - 1 : zone.mem[zone.queue[i]].born > zone.mem[zone.queue[i + 1]].born
  /\ \A c \in zone.tree :
       /\ zone.mem[c].kind = "node" /\ zone.mem[zone.mem[c].data].kind = "data"
       /\ zone.mem[c].born = zone.mem[zone.mem[c].data].born
  /\ DOMAIN zone.mem \ Room(zone) = zone.tree \cup {zone.mem[c].data : c \in zone.tree}
  /\ Cardinality(DOMAIN zone.mem \ Room(zone)) = 2 * Len(zone.queue)
  /\ ~wrong
=============================================================================

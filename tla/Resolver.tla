------------------------------ MODULE Resolver ------------------------------
(***************************************************************************)
(* The resolver of ngx_resolver.c: nodes for the names, services and       *)
(* addresses asked for, contexts of the callers that wait for them, the    *)
(* queries that are sent again, the answers that are kept.                 *)
(*                                                                         *)
(* A handler of one answer has a cascade of effects: it calls the handler  *)
(* of a context, which ends the context, which may free old nodes; or it   *)
(* follows an alias, which answers from another node or asks again.  The   *)
(* effects are functions from a state of the resolver, the record r, to    *)
(* the next; an action applies one of them.                                *)
(*                                                                         *)
(* Times are abstracted to what may have passed: a node is due when        *)
(* now has reached rn->expire, and fresh while rn->valid has not passed.   *)
(* The servers and the transports are one outside actor that may answer    *)
(* any query that is pending, truncate the answer, or never answer.        *)
(***************************************************************************)
EXTENDS Integers, Sequences, FiniteSets, SequencesExt, FiniteSetsExt

CONSTANTS
  Names, Services, Addresses,   (* what may be asked for *)
  Unfit,         (* the names that a query cannot carry *)
  Users,         (* the contexts of callers *)
  Plans,         (* what each of them asks for, and whether ipv6 is on *)
  Targets,       (* the sequences of names that a service may stand for *)
  MaxRecursion,  (* NGX_RESOLVER_MAX_RECURSION *)
  None,
  MaxAsks,       (* bound on the questions *)
  MaxFaults      (* bound on the queries that cannot be sent *)

Keys == Names \cup Services \cup Addresses
Kinds == {"name", "service", "address"}
Kind(k) == IF k \in Names THEN "name" ELSE IF k \in Services THEN "service" ELSE "address"

(* The contexts that resolve the targets of a service for a user. *)
Kids(c) == IF c \in Users THEN {c} \X (1 .. Max({Len(t) : t \in Targets} \cup {0})) ELSE {}
Contexts == Users \cup UNION {Kids(u) : u \in Users}

VARIABLES
  r,       (* the resolver and the contexts *)
  plan,    (* the one of Plans that is tried *)
  asks, faults

resolverVars == << r, plan, asks, faults >>

Idle == [state |-> "idle", node |-> None, timer |-> FALSE, recursion |-> 0, count |-> 0, found |-> FALSE]
Started == [Idle EXCEPT !.state = "started"]

ResolverCreate ==
  [node |-> [k \in {} |-> None],                  (* the trees *)
   resendQ |-> [d \in Kinds |-> << >>],           (* the head first *)
   expireQ |-> [d \in Kinds |-> << >>],
   armed |-> FALSE,                               (* r->event->timer_set *)
   ctx |-> [c \in Contexts |-> Idle],
   stray |-> FALSE,            (* history: a handler ran for a context that was gone *)
   down |-> FALSE]

ResolverInit ==
  /\ r = ResolverCreate
  /\ plan \in Plans
  /\ asks = 0 /\ faults = 0

-----------------------------------------------------------------------------
(* Nodes and queues *)

Known(s, k) == k \in DOMAIN s.node

Unqueue(s, k) ==
  [s EXCEPT !.resendQ[Kind(k)] = SelectSeq(@, LAMBDA j : j # k),
            !.expireQ[Kind(k)] = SelectSeq(@, LAMBDA j : j # k)]

(* ngx_rbtree_delete and ngx_resolver_free_node *)
Drop(s, k) ==
  [Unqueue(s, k) EXCEPT !.node = [j \in DOMAIN @ \ {k} |-> @[j]]]

(* rn->expire is set and the node is the head of the queue. *)
ToResend(s, k) ==
  [Unqueue(s, k) EXCEPT !.resendQ[Kind(k)] = << k >> \o @, !.node[k].due = FALSE]
ToExpire(s, k) ==
  [Unqueue(s, k) EXCEPT !.expireQ[Kind(k)] = << k >> \o @, !.node[k].due = FALSE]

ResendEmpty(s) == \A d \in Kinds : s.resendQ[d] = << >>

(* ngx_resolver_expire frees at most two nodes, from the tail. *)
ExpireLast(s, d) ==
  LET q == s.expireQ[d]
  IN IF q # << >> /\ s.node[Last(q)].due THEN Drop(s, Last(q)) ELSE s
ExpireOld(s, d) == ExpireLast(ExpireLast(s, d), d)

-----------------------------------------------------------------------------
(* The end of a context *)

Awaits(x) == x.state \in {"again", "timedout"} /\ x.node # None

(* Fault of Leave: a context that timed out stays in the list. *)
LeaveIfAgain(s, c) ==
  LET x == s.ctx[c]
  IN IF x.state = "again" /\ x.node # None
     THEN [s EXCEPT !.node[x.node].waiting = SelectSeq(@, LAMBDA w : w # c)]
     ELSE s

(* The context is taken out of the list it waits in. *)
Leave(s, c) ==
  LET x == s.ctx[c]
  IN IF Awaits(x)
     THEN [s EXCEPT !.node[x.node].waiting = SelectSeq(@, LAMBDA w : w # c)]
     ELSE s

TreeOf(c) == IF c \in Users THEN Kind(plan.asks[c]) ELSE "name"

DoneOne(s, c) ==
  LET t == [ExpireOld(Leave(s, c), TreeOf(c)) EXCEPT !.ctx[c] = Idle]
  IN [t EXCEPT !.armed = @ /\ ~ResendEmpty(t)]

(* ngx_resolve_name_done, ngx_resolve_addr_done: the contexts of the       *)
(* targets end with that of the service.                                   *)
Done(s, c) ==
  LET kids == {d \in Kids(c) : s.ctx[d].state # "idle"}
  IN DoneOne(FoldSet(LAMBDA d, t : DoneOne(t, d), s, kids), c)

(* The handler of a caller, which ends the context. *)
TellUser(s, c, state) ==
  IF s.ctx[c].state = "idle"
  THEN [s EXCEPT !.stray = TRUE]
  ELSE Done([s EXCEPT !.ctx[c].state = state], c)

(* ngx_resolver_report_srv *)
ReportService(s, c) == TellUser(s, c, IF s.ctx[c].found THEN "ok" ELSE "nxdomain")

(* Fault of TellKid: a target that is not resolved is not counted. *)
TellKidFound(s, d, state) ==
  LET c == d[1]
      t == DoneOne([s EXCEPT !.ctx[d].state = state,
                             !.ctx[c].count = IF state = "ok" THEN @ - 1 ELSE @,
                             !.ctx[c].found = @ \/ state = "ok"], d)
  IN IF t.ctx[c].count = 0 THEN ReportService(t, c) ELSE t

(* ngx_resolver_srv_names_handler: a target is resolved, or is not. *)
TellKid(s, d, state) ==
  LET c == d[1]
      t == DoneOne([s EXCEPT !.ctx[d].state = state,
                             !.ctx[c].count = @ - 1,
                             !.ctx[c].found = @ \/ state = "ok"], d)
  IN IF s.ctx[d].state = "idle" \/ s.ctx[c].state = "idle"
     THEN [s EXCEPT !.stray = TRUE]
     ELSE IF t.ctx[c].count = 0 THEN ReportService(t, c) ELSE t

Tell(s, c, state) == IF c \in Users THEN TellUser(s, c, state) ELSE TellKid(s, c, state)
TellAll(s, cs, state) == FoldLeft(LAMBDA t, c : Tell(t, c, state), s, cs)

-----------------------------------------------------------------------------
(* Asking *)

Families == IF plan.ipv6 THEN {"A", "AAAA"} ELSE {"A"}
Pending(k) == IF k \in Names THEN Families ELSE {"Q"}

Asked(cs, k) ==
  [query |-> TRUE, pending |-> Pending(k), found |-> FALSE, tcp |-> {}, code |-> FALSE,
   alias |-> None, targets |-> << >>, fresh |-> FALSE, due |-> FALSE, waiting |-> cs]

(* The contexts wait for the node; the first has its timer started, the    *)
(* others, if any, come from another node and have theirs.                 *)
Wait(s, cs, k) ==
  [s EXCEPT !.ctx = [c \in Contexts |->
     IF c \notin ToSet(cs) THEN @[c]
     ELSE [@[c] EXCEPT !.node = k, !.state = "again", !.timer = @ \/ c = Head(cs)]]]

Answer(s, code) == [s |-> s, rc |-> code]

(* A new query, for a new node or for one whose answer is too old; bad is  *)
(* the set of those that cannot be sent.                                   *)
Query(s, cs, k, bad) ==
  IF k \in Unfit
  THEN Answer(TellAll(Drop(s, k), cs, "nxdomain"), "ok")
  ELSE IF k \in bad
  THEN Answer(Drop(s, k), "error")
  ELSE LET t == [s EXCEPT !.node = (k :> Asked(cs, k)) @@ @, !.armed = TRUE]
       IN Answer(Wait(ToResend(t, k), cs, k), "again")

Join(s, cs, k) ==
  Answer(Wait([s EXCEPT !.node[k].waiting = cs \o @], cs, k), "again")

RECURSIVE Resolve(_, _, _, _), StartKids(_, _, _, _, _)

(* ngx_resolver_resolve_srv_names: one context for each target. *)
SplitService(s, c, targets, bad) ==
  StartKids([s EXCEPT !.ctx[c].state = "ok", !.ctx[c].node = None, !.ctx[c].timer = FALSE,
                      !.ctx[c].count = Len(targets)], c, targets, 1, bad)

StartKids(s, c, targets, i, bad) ==
  IF i > Len(targets) THEN s
  ELSE LET a == Resolve([s EXCEPT !.ctx[<< c, i >>] = Started], << << c, i >> >>, targets[i], bad)
       IN IF a.rc = "error"
          THEN TellUser([a.s EXCEPT !.ctx[<< c, i >>] = Idle], c, "error")
          ELSE StartKids(a.s, c, targets, i + 1, bad)

(* The node has a valid answer. *)
Cached(s, cs, k, bad) ==
  LET n == s.node[k]
      t == ToExpire(s, k)
      all == cs \o n.waiting
      free == [t EXCEPT !.node[k].waiting = << >>]
  IN IF n.found
     THEN Answer(TellAll(free, all, "ok"), "ok")
     ELSE IF n.targets # << >>
     THEN Answer(FoldLeft(LAMBDA u, c : SplitService(u, c, n.targets, bad), free, all), "ok")
     ELSE IF s.ctx[Head(cs)].recursion < MaxRecursion
     THEN Resolve([t EXCEPT !.ctx[Head(cs)].recursion = @ + 1], cs, n.alias, bad)
     ELSE Answer(TellAll(free, all, "nxdomain"), "ok")

(* ngx_resolve_name_locked; ngx_resolve_addr does the same for an address. *)
Resolve(s, cs, k, bad) ==
  IF ~Known(s, k) THEN Query(s, cs, k, bad)
  ELSE IF s.node[k].fresh THEN Cached(s, cs, k, bad)
  ELSE IF s.node[k].waiting # << >> THEN Join(s, cs, k)
  ELSE Query(Unqueue(s, k), cs, k, bad)

Bad == {b \in SUBSET Keys : Cardinality(b) <= MaxFaults - faults}

(* What is counted: the queries that could not be sent. *)
Charge(bad) == faults' = faults + Cardinality(bad)

Up == ~r.down

(* A context that could not be asked for is freed, and the caller is told  *)
(* by the value returned.                                                  *)
Ask(c) ==
  /\ Up /\ r.ctx[c].state = "idle" /\ asks < MaxAsks
  /\ asks' = asks + 1
  /\ \E bad \in Bad :
       LET a == Resolve([r EXCEPT !.ctx[c] = Started], << c >>, plan.asks[c], bad)
       IN /\ r' = IF a.rc = "error" THEN [a.s EXCEPT !.ctx[c] = Idle] ELSE a.s
          /\ Charge(bad)
  /\ UNCHANGED plan

ResolveName(c) == plan.asks[c] \notin Addresses /\ Ask(c)
ResolveAddr(c) == plan.asks[c] \in Addresses /\ Ask(c)

(* A caller gives up and ends its context. *)
Cancel(c) ==
  /\ Up /\ r.ctx[c].state # "idle"
  /\ r' = Done(r, c)
  /\ UNCHANGED << plan, asks, faults >>

(* ngx_resolver_timeout_handler *)
Timeout(c) ==
  /\ Up /\ r.ctx[c].timer
  /\ r' = Tell([r EXCEPT !.ctx[c].timer = FALSE, !.ctx[c].state = "timedout"], c, "timedout")
  /\ UNCHANGED << plan, asks, faults >>

-----------------------------------------------------------------------------
(* Answers *)

(* The node exists and the question is still open: any other answer, and   *)
(* one whose ident is not that of the query, is dropped.                   *)
Open(k, f) ==
  /\ Up /\ Known(r, k) /\ r.node[k].query /\ f \in r.node[k].pending

Waiters(s, k) == s.node[k].waiting
Detached(s, k) == [s EXCEPT !.node[k].waiting = << >>]

(* An error for all: the node is not kept. *)
Fail(s, k) == TellAll(Drop(s, k), Waiters(s, k), "nxdomain")

(* The answer is kept.  An address keeps its query.  (The flags of the     *)
(* query are not read again before the next one; they are cleared here.)   *)
Keep(s, k) ==
  [ToExpire(s, k) EXCEPT !.node[k].fresh = TRUE, !.node[k].query = k \in Addresses,
                         !.node[k].tcp = {}]

Export(s, k) == TellAll(Detached(Keep(s, k), k), Waiters(s, k), "ok")

(* The name is an alias: the contexts go on to the other name.  If that    *)
(* cannot be asked for, they are left to their timers.                     *)
Follow(s, k, alias, bad) ==
  LET cs == Waiters(s, k)
      t == Detached([Keep(s, k) EXCEPT !.node[k].alias = alias], k)
  IN IF cs = << >> THEN t
     ELSE LET u == [t EXCEPT !.ctx[Head(cs)].recursion = Min({@ + 1, MaxRecursion})]
              away == [u EXCEPT !.ctx = [c \in Contexts |->
                          IF c \in ToSet(cs) THEN [@[c] EXCEPT !.node = None] ELSE @[c]]]
          IN IF s.ctx[Head(cs)].recursion >= MaxRecursion
             THEN TellAll(u, cs, "nxdomain")
             ELSE Resolve(away, cs, alias, bad).s

(* The answer for one family is recorded; the other one may be pending.    *)
Record(k, f, found) ==
  [r EXCEPT !.node[k].pending = @ \ {f},
            !.node[k].found = @ \/ found]

Settle(s, k, otherwise) ==
  IF s.node[k].pending # {} THEN s
  ELSE IF s.node[k].found THEN Export(s, k)
  ELSE otherwise

(* A truncated answer: the query is sent again over TCP. *)
Truncated(k, f) ==
  /\ Open(k, f) /\ k \notin Addresses /\ f \notin r.node[k].tcp
  /\ r' = IF r.node[k].waiting = << >> THEN Drop(r, k)
          ELSE ToResend([r EXCEPT !.node[k].tcp = @ \cup {f}], k)
  /\ UNCHANGED << plan, asks, faults >>

(* An error code, of this answer or of the one for the other family. *)
NameRefused(k, f) ==
  /\ Open(k, f) /\ k \in Names
  /\ LET s == Record(k, f, FALSE)
     IN r' = IF s.node[k].pending # {} THEN [s EXCEPT !.node[k].code = TRUE] ELSE Fail(s, k)
  /\ UNCHANGED << plan, asks, faults >>

(* No error: the name has no records, addresses, an alias, or others. *)
NameEmpty(k, f) ==
  /\ Open(k, f) /\ k \in Names /\ ~r.node[k].code
  /\ LET s == Record(k, f, FALSE) IN r' = Settle(s, k, Fail(s, k))
  /\ UNCHANGED << plan, asks, faults >>

NameFound(k, f) ==
  /\ Open(k, f) /\ k \in Names /\ ~r.node[k].code
  /\ LET s == Record(k, f, TRUE) IN r' = Settle(s, k, s)
  /\ UNCHANGED << plan, asks, faults >>

NameAlias(k, f, alias) ==
  /\ Open(k, f) /\ k \in Names /\ ~r.node[k].code
  /\ \E bad \in Bad :
       LET s == Record(k, f, FALSE)
       IN /\ r' = Settle(s, k, Follow(s, k, alias, bad))
          /\ Charge(bad)
  /\ UNCHANGED << plan, asks >>

NameOther(k, f) ==
  /\ Open(k, f) /\ k \in Names /\ ~r.node[k].code
  /\ LET s == Record(k, f, FALSE) IN r' = Settle(s, k, s)
  /\ UNCHANGED << plan, asks, faults >>

(* The answers for a service, and for an address. *)
Refused(k) ==
  /\ Open(k, "Q")
  /\ r' = Fail(r, k)
  /\ UNCHANGED << plan, asks, faults >>

ServiceFound(k, targets) ==
  /\ Open(k, "Q") /\ k \in Services
  /\ \E bad \in Bad :
       LET s == Detached([Keep(r, k) EXCEPT !.node[k].targets = targets], k)
       IN /\ r' = FoldLeft(LAMBDA t, c : SplitService(t, c, targets, bad), s, Waiters(r, k))
          /\ Charge(bad)
  /\ UNCHANGED << plan, asks >>

ServiceAlias(k, alias) ==
  /\ Open(k, "Q") /\ k \in Services
  /\ \E bad \in Bad :
       /\ r' = Follow(r, k, alias, bad)
       /\ Charge(bad)
  /\ UNCHANGED << plan, asks >>

AddressFound(k) ==
  /\ Open(k, "Q") /\ k \in Addresses
  /\ r' = Export([r EXCEPT !.node[k].found = TRUE], k)
  /\ UNCHANGED << plan, asks, faults >>

-----------------------------------------------------------------------------
(* The timer of the resolver, the passing of time, the end *)

(* ngx_resolver_resend: from the tail, the nodes that are due; those that  *)
(* nobody waits for are freed.                                             *)
RECURSIVE ResendDue(_, _)
ResendDue(s, d) ==
  LET q == s.resendQ[d]
  IN IF q = << >> THEN s
     ELSE IF ~s.node[Last(q)].due THEN s
     ELSE ResendDue(IF s.node[Last(q)].waiting # << >> THEN ToResend(s, Last(q))
                    ELSE Drop(s, Last(q)), d)

ResendHandler ==
  /\ Up /\ r.armed
  /\ LET s == FoldSet(LAMBDA d, t : ResendDue(t, d), r, Kinds)
     IN r' = [s EXCEPT !.armed = ~ResendEmpty(s)]
  /\ UNCHANGED << plan, asks, faults >>

(* Time passes: what was queued first is due first. *)
Elapse(k) ==
  /\ Up /\ Known(r, k) /\ ~r.node[k].due
  /\ \A q \in {r.resendQ[Kind(k)], r.expireQ[Kind(k)]} :
       \A i, j \in DOMAIN q : q[i] = k /\ i < j => r.node[q[j]].due
  /\ r' = [r EXCEPT !.node[k].due = TRUE]
  /\ UNCHANGED << plan, asks, faults >>

Lapse(k) ==
  /\ Up /\ Known(r, k) /\ r.node[k].fresh
  /\ r' = [r EXCEPT !.node[k].fresh = FALSE]
  /\ UNCHANGED << plan, asks, faults >>

(* ngx_resolver_cleanup: the contexts that wait are freed, not told. *)
Cleanup ==
  /\ Up
  /\ r' = [ResolverCreate EXCEPT
             !.ctx = [c \in Contexts |->
                IF \E k \in DOMAIN r.node : c \in ToSet(Waiters(r, k)) THEN Idle ELSE r.ctx[c]],
             !.stray = r.stray, !.down = TRUE]
  /\ UNCHANGED << plan, asks, faults >>

Callers == \E c \in Users : ResolveName(c) \/ ResolveAddr(c) \/ Cancel(c)
Servers ==
  \/ \E k \in Names, f \in Families :
       \/ Truncated(k, f) \/ NameRefused(k, f) \/ NameEmpty(k, f) \/ NameFound(k, f)
       \/ NameOther(k, f) \/ \E alias \in Names : NameAlias(k, f, alias)
  \/ \E k \in Services :
       \/ Truncated(k, "Q") \/ Refused(k)
       \/ \E t \in Targets : ServiceFound(k, t)
       \/ \E alias \in Services : ServiceAlias(k, alias)
  \/ \E k \in Addresses : Refused(k) \/ AddressFound(k)
Time ==
  \/ \E c \in Contexts : Timeout(c)
  \/ ResendHandler
  \/ \E k \in Keys : Elapse(k) \/ Lapse(k)

ResolverNext == Callers \/ Servers \/ Time \/ Cleanup

(* The event loop runs every timer that has expired: none stays set for    *)
(* ever.  This is the weak fairness of Timeout(c), which leaves its        *)
(* context without a timer, in a form that TLC evaluates fast.             *)
ResolverFairness == \A c \in Contexts : []<>(r.down \/ ~r.ctx[c].timer)

-----------------------------------------------------------------------------

(* A node is in exactly one queue of its tree, once; it is in the queue of *)
(* those to send again whenever a context waits for it, and then it still  *)
(* has its query.                                                          *)
QueuesHoldTheNodes ==
  \A k \in Keys :
    LET places == {<< q, i >> \in {"resend", "expire"} \X (1 .. Cardinality(Keys)) :
                     LET s == IF q = "resend" THEN r.resendQ[Kind(k)] ELSE r.expireQ[Kind(k)]
                     IN i \in DOMAIN s /\ s[i] = k}
    IN IF Known(r, k)
       THEN /\ Cardinality(places) = 1
            /\ r.node[k].waiting # << >> =>
                 r.node[k].query /\ ~r.node[k].fresh /\ k \in ToSet(r.resendQ[Kind(k)])
       ELSE places = {}

(* A context waits in the list of the node it points to and in no other,   *)
(* once; no context waits that is gone; and a node that has to be sent     *)
(* again has the timer of the resolver started.                            *)
WaitersAreKnown ==
  /\ \A k \in DOMAIN r.node :
       /\ IsInjective(r.node[k].waiting)
       /\ \A c \in ToSet(r.node[k].waiting) : r.ctx[c].state = "again" /\ r.ctx[c].node = k
  /\ \A c \in Contexts :
       r.ctx[c].state = "again" /\ r.ctx[c].node # None /\ Up =>
         Known(r, r.ctx[c].node) /\ c \in ToSet(r.node[r.ctx[c].node].waiting)
  /\ ~ResendEmpty(r) => r.armed

(* The handler of a context runs once: not again after the caller was      *)
(* told or has given up, nor for the target of a service that is done.     *)
ToldOnce == ~r.stray

(* The lists of the resolver and of its callers, together. *)
ResolverIsSound == QueuesHoldTheNodes /\ WaitersAreKnown /\ ToldOnce

(* A context that waits has a timer, or targets that have one: whatever    *)
(* the servers do, the caller is told in the end.                          *)
EveryCallerIsTold == \A u \in Users : r.ctx[u].state # "idle" ~> r.ctx[u].state = "idle" \/ r.down
=============================================================================

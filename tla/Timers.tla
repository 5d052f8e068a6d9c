------------------------------- MODULE Timers -------------------------------
(***************************************************************************)
(* The timers of one worker and the part of its loop that serves them.     *)
(*                                                                         *)
(* Milliseconds are counted in words: ngx_current_msec and the keys of the *)
(* tree wrap around, and two of them are compared by the sign of their     *)
(* difference.  Here now is the whole number of milliseconds of which      *)
(* ngx_current_msec keeps the last bits; the variables at and due are the  *)
(* whole numbers behind a key.  The clock is the wall clock: it can be set *)
(* back.  The code has none of the three whole numbers.                    *)
(*                                                                         *)
(* ngx_current_msec changes only where the event method returns.  Handlers *)
(* of events, of timers and of posted events set and delete timers in any  *)
(* order.                                                                  *)
(***************************************************************************)
EXTENDS Integers, Sequences

CONSTANTS
  Events,
  Half,        (* half the number of values of ngx_msec_t *)
  Lazy,        (* NGX_TIMER_LAZY_DELAY *)
  Timeouts,    (* the times that handlers give *)
  MaxTimeout,  (* the longest of them *)
  MaxLate,     (* bound on how late the event method returns *)
  MaxBack,     (* bound on how far the clock is set back in all *)
  MaxNow       (* bound on the time *)

(* A word tells two times apart as long as what the tree can hold spans    *)
(* less than half of its values.                                           *)
ASSUME TimersAssumption ==
  /\ Half \in Nat \ {0} /\ Lazy \in Nat \ {0}
  /\ MaxTimeout \in Nat /\ Timeouts \subseteq 0 .. MaxTimeout
  /\ MaxLate \in Nat /\ MaxBack \in Nat /\ MaxNow \in Nat
  /\ MaxLate + MaxTimeout + MaxBack < Half

VARIABLES
  order,    (* the nodes of ngx_event_timer_rbtree, the least first *)
  key,      (* ev->timer.key *)
  now,      (* the time of which ngx_current_msec is the word *)
  at,       (* history: the time of which the key is the word *)
  due,      (* history: the time that the last ngx_add_timer asked for *)
  stage,    (* where the loop is *)
  delta,    (* delta # 0: the time has changed while waiting *)
  back      (* history: how far the clock was set back in all *)

vars == << order, key, now, at, due, stage, delta, back >>

Tree ==
  INSTANCE OrderedTree WITH
    Nodes <- Events, Wraps <- TRUE,
    KeysOf <- [ev \in Events |-> 0 .. 2 * Half - 1]

Word(t) == t % (2 * Half)

IsSet(ev) == \E i \in DOMAIN order : order[i] = ev

Init ==
  /\ order = << >>
  /\ key = [ev \in Events |-> 0]
  /\ now = 0
  /\ at = [ev \in Events |-> 0] /\ due = [ev \in Events |-> 0]
  /\ stage = "wait" /\ delta = FALSE /\ back = 0

-----------------------------------------------------------------------------

(* Fault of FindTimer: the time of the last node. *)
FindLastTimer ==
  IF order = << >> THEN "infinite"
  ELSE LET timer == Tree!Signed(key[order[Len(order)]] - Word(now))
       IN IF timer > 0 THEN timer ELSE 0

(* ngx_event_find_timer: how long the event method may wait. *)
FindTimer ==
  IF order = << >> THEN "infinite"
  ELSE LET timer == Tree!Signed(key[order[1]] - Word(now))
       IN IF timer > 0 THEN timer ELSE 0

(* ngx_process_events: it returns with an event, or when the time is up,   *)
(* or later because the worker was busy, or after the clock was set.  With *)
(* an empty tree it may wait for ever; the bound is then that of a word.   *)
Wait ==
  /\ stage = "wait"
  /\ LET longest == IF order = << >> THEN Half ELSE FindTimer
     IN \E d \in 0 .. longest + MaxLate :
          /\ now + d <= MaxNow
          /\ now' = now + d /\ delta' = (d # 0)
  /\ stage' = "handle"
  /\ UNCHANGED << order, key, at, due, back >>

SetBack ==
  /\ stage = "wait"
  /\ \E d \in 1 .. MaxBack :
       /\ back + d <= MaxBack /\ d <= now
       /\ now' = now - d /\ back' = back + d
  /\ delta' = TRUE /\ stage' = "handle"
  /\ UNCHANGED << order, key, at, due >>

(* ngx_event_expire_timers runs only if the time has changed. *)
Handled ==
  /\ stage = "handle"
  /\ stage' = IF delta THEN "expire" ELSE "posted"
  /\ UNCHANGED << order, key, now, at, due, delta, back >>

(* Fault of Expire: the node is not deleted. *)
ExpireKeeps ==
  /\ stage = "expire" /\ order # << >>
  /\ Tree!Signed(key[order[1]] - Word(now)) <= 0
  /\ stage' = "timedout"
  /\ UNCHANGED << order, key, now, at, due, delta, back >>

(* One turn of the loop of ngx_event_expire_timers, up to the handler. *)
Expire ==
  /\ stage = "expire" /\ order # << >>
  /\ Tree!Signed(key[order[1]] - Word(now)) <= 0
  /\ key' = [key EXCEPT ![order[1]] = 0]
  /\ at' = [at EXCEPT ![order[1]] = 0] /\ due' = [due EXCEPT ![order[1]] = 0]
  /\ order' = Tail(order)
  /\ stage' = "timedout"
  /\ UNCHANGED << now, delta, back >>

HandlerReturns ==
  /\ stage = "timedout" /\ stage' = "expire"
  /\ UNCHANGED << order, key, now, at, due, delta, back >>

NoneLeft ==
  /\ stage = "expire"
  /\ order # << >> => Tree!Signed(key[order[1]] - Word(now)) > 0
  /\ stage' = "posted"
  /\ UNCHANGED << order, key, now, at, due, delta, back >>

Posted ==
  /\ stage = "posted" /\ stage' = "wait"
  /\ UNCHANGED << order, key, now, at, due, delta, back >>

-----------------------------------------------------------------------------
(* What handlers do. *)

Handling == stage \in {"handle", "timedout", "posted"}

Without(s, ev) ==
  LET i == CHOOSE i \in DOMAIN s : s[i] = ev
  IN IF \E j \in DOMAIN s : s[j] = ev
       THEN [j \in 1 .. Len(s) - 1 |-> IF j < i THEN s[j] ELSE s[j + 1]]
       ELSE s

(* Fault of KeepsKey: the sign of the difference is not considered. *)
KeepsEarlierKey(ev, k) ==
  IsSet(ev) /\ - Lazy < Tree!Signed(k - key[ev])

(* A timer that is set is left alone if the new time is near its key. *)
KeepsKey(ev, k) ==
  /\ IsSet(ev)
  /\ Tree!Signed(k - key[ev]) < Lazy /\ - Lazy < Tree!Signed(k - key[ev])

(* Fault of AddTimer: the keys are compared as they are. *)
Plain ==
  INSTANCE OrderedTree WITH
    Nodes <- Events, Wraps <- FALSE,
    KeysOf <- [ev \in Events |-> 0 .. 2 * Half - 1]
AddTimerPlain(ev, d) ==
  /\ Handling
  /\ due' = [due EXCEPT ![ev] = now + d]
  /\ IF KeepsKey(ev, Word(now + d))
       THEN UNCHANGED << order, key, at >>
       ELSE /\ order' \in Plain!With(Without(order, ev), ev, Word(now + d))
            /\ key' = [key EXCEPT ![ev] = Word(now + d)]
            /\ at' = [at EXCEPT ![ev] = now + d]
  /\ UNCHANGED << now, stage, delta, back >>

AddTimer(ev, d) ==
  /\ Handling
  /\ due' = [due EXCEPT ![ev] = now + d]
  /\ IF KeepsKey(ev, Word(now + d))
       THEN UNCHANGED << order, key, at >>
       ELSE /\ order' \in Tree!With(Without(order, ev), ev, Word(now + d))
            /\ key' = [key EXCEPT ![ev] = Word(now + d)]
            /\ at' = [at EXCEPT ![ev] = now + d]
  /\ UNCHANGED << now, stage, delta, back >>

DelTimer(ev) ==
  /\ Handling /\ IsSet(ev)
  /\ order' = Without(order, ev)
  /\ key' = [key EXCEPT ![ev] = 0]
  /\ at' = [at EXCEPT ![ev] = 0] /\ due' = [due EXCEPT ![ev] = 0]
  /\ UNCHANGED << now, stage, delta, back >>

-----------------------------------------------------------------------------
Loop == Wait \/ SetBack \/ Handled \/ Expire \/ HandlerReturns \/ NoneLeft \/ Posted

Next == Loop \/ \E ev \in Events : DelTimer(ev) \/ \E d \in Timeouts : AddTimer(ev, d)

Spec == Init /\ [][Next]_vars

(* Handlers return, and the loop of the worker goes on. *)
FairSpec == Spec /\ WF_vars(HandlerReturns) /\ WF_vars(Expire \/ NoneLeft)

-----------------------------------------------------------------------------
TypeOK ==
  /\ order \in Seq(Events)
  /\ \A i, j \in DOMAIN order : order[i] = order[j] => i = j
  /\ key \in [Events -> 0 .. 2 * Half - 1]
  /\ now \in 0 .. MaxNow
  /\ at \in [Events -> Int] /\ due \in [Events -> Int]
  /\ stage \in {"wait", "handle", "expire", "timedout", "posted"}
  /\ delta \in BOOLEAN
  /\ back \in 0 .. MaxBack

(* The order of the tree is the order of the times, although the keys wrap *)
(* around and are compared as words (ngx_rbtree.c:175).                    *)
OrderIsTimely ==
  \A i, j \in DOMAIN order : i < j => at[order[i]] <= at[order[j]]

(* A time that was asked for is less than the lazy delay away from the one *)
(* that the key stands for, however often it was asked anew                *)
(* (ngx_event_timer.h:87-95).                                              *)
KeyIsNear ==
  \A ev \in Events :
    IsSet(ev) => due[ev] - at[ev] < Lazy /\ - Lazy < due[ev] - at[ev]

(* When the loop is about to wait no timer is overdue, also not one that   *)
(* a posted event has set after the timers were served, and also not when  *)
(* the service was skipped because the time had not changed                *)
(* (ngx_event.c:403).                                                      *)
NoneOverdue ==
  stage \in {"posted", "wait"} => \A ev \in Events : IsSet(ev) => now <= at[ev]

(* The event method is told to wait exactly until the first time           *)
(* (ngx_event_timer.c:55-62).                                              *)
WaitsUntilFirst ==
  stage = "wait" /\ order # << >> =>
    /\ \A ev \in Events : IsSet(ev) => now + FindTimer <= at[ev]
    /\ \E ev \in Events : IsSet(ev) /\ now + FindTimer = at[ev]

(* A timer expires no earlier than the lazy delay before the time that was *)
(* asked for last, and before all that are due later                       *)
(* (ngx_event_timer.c:91).                                                 *)
NeverEarly ==
  [][\A ev \in Events :
       stage = "expire" /\ IsSet(ev) /\ ~IsSet(ev)' =>
         /\ due[ev] - Lazy < now
         /\ \A other \in Events : IsSet(other) => at[ev] <= at[other]]_vars

(* Serving the timers comes to an end. *)
ServiceEnds == stage = "expire" ~> stage = "posted"
=============================================================================

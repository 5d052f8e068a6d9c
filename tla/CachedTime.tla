----------------------------- MODULE CachedTime -----------------------------
(***************************************************************************)
(* The cached time (core/ngx_times).  A worker keeps the time, and texts   *)
(* that show it, in slots that are filled in turn; readers, among them the *)
(* threads of pools, follow a pointer and take no lock.  The handler of a  *)
(* signal brings the texts of the log up to date, in the middle of         *)
(* whatever the worker does: it must not touch what the worker is writing, *)
(* nor make it believe that it wrote the second already.                   *)
(*                                                                         *)
(* "http" stands for the three texts only the worker writes, "log" for the *)
(* two that the handler writes as well.  A text is two halves, each with   *)
(* the second it shows.  The wall clock may be set back.                   *)
(***************************************************************************)
EXTENDS Integers

CONSTANTS
  Slots,      (* NGX_TIME_SLOTS *)
  MaxSec,     (* bound on the clock *)
  MaxTaken,   (* bound on the slots that are taken in all *)
  MaxSetBack  (* bound on how often the clock is set back *)

ASSUME CachedTimeAssumption == Slots \in Nat /\ Slots >= 2

VARIABLE times

Texts == {"http", "log"}
Text(first, second) == [first |-> first, second |-> second]
SlotOf(sec, msec) == [sec |-> sec, msec |-> msec, http |-> Text(sec, sec), log |-> Text(sec, sec)]
Nobody == [at |-> "idle", kind |-> "log", slot |-> 0, born |-> 0, first |-> 0, second |-> 0]

(* `born` and `taken` are history: how many slots had been taken when the  *)
(* published one was, and until now.  This is what ngx_time_init leaves.   *)
TimesInit ==
  times = [slot |-> 1, lock |-> FALSE, at |-> "idle", signal |-> "none",
           clock |-> Text(1, 0), seen |-> Text(1, 0), sigseen |-> 1, current |-> Text(1, 0),
           slots |-> [i \in 0 .. Slots - 1 |-> SlotOf(IF i = 1 THEN 1 ELSE 0, 0)],
           ptr |-> [clock |-> 1, http |-> 1, log |-> 1], taken |-> 1,
           born |-> [clock |-> 1, http |-> 1, log |-> 1], reader |-> Nobody, backs |-> 0]

Following(slot) == IF slot = Slots - 1 THEN 0 ELSE slot + 1

(* The clock in seconds (`first`) and milliseconds (`second`). *)
Tick ==
  \/ times.clock.second = 0 /\ times' = [times EXCEPT !.clock.second = 1]
  \/ times.clock.first < MaxSec /\ times' = [times EXCEPT !.clock = Text(@.first + 1, 0)]
  \/ /\ times.backs < MaxSetBack /\ times.clock.first > 1
     /\ times' = [times EXCEPT !.clock = Text(@.first - 1, 0), !.backs = @ + 1]

-----------------------------------------------------------------------------
(* ngx_time_update by the worker; it stands still while a signal is        *)
(* handled.                                                                *)
Worker(from) == times.signal = "none" /\ times.at = from

(* Within the same second the milliseconds are changed in place. *)
TimeUpdate ==
  /\ Worker("idle") /\ ~times.lock
  /\ LET now == times.clock
         next == Following(times.slot)
     IN IF times.slots[times.slot].sec = now.first
        THEN times' = [times EXCEPT !.current = now, !.slots[times.slot].msec = now.second]
        ELSE /\ times.taken < MaxTaken
             /\ times' = [times EXCEPT !.current = now, !.seen = now, !.lock = TRUE, !.at = "http1",
                            !.slot = next, !.taken = @ + 1,
                            !.slots[next].sec = now.first, !.slots[next].msec = now.second]

Prints(from, kind, half, to) ==
  /\ Worker(from)
  /\ times' = [times EXCEPT !.at = to, !.slots[times.slot][kind][half] = times.seen.first]

PrintTexts ==
  \/ Prints("http1", "http", "first", "http2") \/ Prints("http2", "http", "second", "log1")
  \/ Prints("log1", "log", "first", "log2") \/ Prints("log2", "log", "second", "publish")

Publish(from, what, to) ==
  /\ Worker(from)
  /\ times' = [times EXCEPT !.at = to, !.ptr[what] = times.slot, !.born[what] = times.taken,
                            !.lock = to # "idle"]

PublishAll ==
  \/ Publish("publish", "clock", "publish http") \/ Publish("publish http", "http", "publish log")
  \/ Publish("publish log", "log", "idle")

-----------------------------------------------------------------------------
(* Fault of SigsafeUpdate: the slot has the second, as if it were whole. *)
SigsafeUpdateStamps ==
  /\ times.signal = "none" /\ ~times.lock
  /\ LET now == times.clock
         next == Following(times.slot)
     IN /\ times.slots[times.slot].sec # now.first /\ times.taken < MaxTaken
        /\ times' = [times EXCEPT !.signal = "log1", !.lock = TRUE, !.slot = next, !.taken = @ + 1,
                                  !.sigseen = now.first, !.slots[next].sec = now.first]

(* ngx_time_sigsafe_update: it returns at once if the worker has the lock, *)
(* or if the slot is of this second.                                       *)
SigsafeUpdate ==
  /\ times.signal = "none" /\ ~times.lock
  /\ LET now == times.clock
         next == Following(times.slot)
     IN /\ times.slots[times.slot].sec # now.first /\ times.taken < MaxTaken
        /\ times' = [times EXCEPT !.signal = "log1", !.lock = TRUE, !.slot = next, !.taken = @ + 1,
                                  !.sigseen = now.first, !.slots[next].sec = 0]

SigsafePrints(from, half, to) ==
  /\ times.signal = from
  /\ times' = [times EXCEPT !.signal = to, !.slots[times.slot].log[half] = times.sigseen]

SigsafePublish ==
  /\ times.signal = "publish"
  /\ times' = [times EXCEPT !.signal = "none", !.lock = FALSE,
                            !.ptr.log = times.slot, !.born.log = times.taken]

SigsafeSteps == SigsafePrints("log1", "first", "log2") \/ SigsafePrints("log2", "second", "publish") \/ SigsafePublish

-----------------------------------------------------------------------------
(* A thread copies a text: the pointer, one half, the other half. *)
Reads ==
  \/ /\ times.reader.at = "idle"
     /\ \E kind \in Texts :
          times' = [times EXCEPT !.reader = [Nobody EXCEPT !.at = "first", !.kind = kind, !.slot = times.ptr[kind],
                                                           !.born = times.born[kind]]]
  \/ /\ times.reader.at = "first"
     /\ times' = [times EXCEPT !.reader.at = "second",
                               !.reader.first = times.slots[times.reader.slot][times.reader.kind].first]
  \/ /\ times.reader.at = "second"
     /\ times' = [times EXCEPT !.reader.at = "done",
                               !.reader.second = times.slots[times.reader.slot][times.reader.kind].second]
  \/ times.reader.at = "done" /\ times' = [times EXCEPT !.reader = Nobody]

TimesNext == Tick \/ TimeUpdate \/ PrintTexts \/ PublishAll \/ SigsafeUpdate \/ SigsafeSteps \/ Reads

TimesSpec == TimesInit /\ [][TimesNext]_times

-----------------------------------------------------------------------------
(* All other slots were taken since this one was. *)
GoneAround(born) == times.taken - born >= Slots

(* A text is mixed of two seconds only if, between the time its slot was   *)
(* taken and the end of the reading, all the slots were (ngx_times.c:22,   *)
(* ngx_times.c:243).                                                       *)
TextsAreWhole ==
  times.reader.at = "done" =>
    times.reader.first = times.reader.second \/ GoneAround(times.reader.born)

(* When ngx_time_update is done, ngx_cached_time is the time it took, the  *)
(* same as ngx_current_msec, and the texts for http show that second; also *)
(* if the handler of a signal took the slot of this second before          *)
(* (ngx_times.c:108, ngx_times.c:243).  The lock is free whenever neither  *)
(* of the two is at work.                                                  *)
ClockIsPublished ==
  times.at = "idle" =>
    /\ \/ GoneAround(times.born.clock)
       \/ LET slot == times.slots[times.ptr.clock]
          IN Text(slot.sec, slot.msec) = times.current /\ slot.http = Text(slot.sec, slot.sec)
    /\ times.lock = (times.signal # "none")

TimesAreWhole == TextsAreWhole /\ ClockIsPublished
=============================================================================

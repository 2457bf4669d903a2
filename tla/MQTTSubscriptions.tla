-------------------------- MODULE MQTTSubscriptions --------------------------
(***************************************************************************)
(* Subscribe and Unsubscribe of protocol/mqtt/broker.go on one topic filter  *)
(* (filters share nothing but subSeq).  The entry of subs is changed under     *)
(* the lock, the handlers of the broker library after it: the calls of        *)
(* several goroutines interleave in between.                                 *)
(*                                                                         *)
(* External: the library keeps one inline handler per filter and id, and       *)
(* refuses a filter that is not valid with an error.                          *)
(***************************************************************************)
EXTENDS Naturals

CONSTANTS
    Callers,   \* goroutines, each of which is also the name of its handler
    MaxOps     \* bound on the calls

VARIABLES
    valid,     \* the library accepts the filter
    subs,      \* subs[topic], 0 when there is no entry
    subSeq,
    handlers,  \* the library: per id, the handlers of the filter
    call,      \* per caller, its step and the id it works with
    crossed,   \* ghost: ids that an Unsubscribe took from a Subscribe under way
    ops

vars == <<valid, subs, subSeq, handlers, call, crossed, ops>>

Ids == 1..MaxOps
Idle == [pc |-> "idle", id |-> 0]

Init ==
    /\ valid \in BOOLEAN
    /\ subs = 0 /\ subSeq = 0
    /\ handlers = {}
    /\ call = [p \in Callers |-> Idle]
    /\ crossed = {}
    /\ ops = 0

Goto(p, pc, id) == call' = [call EXCEPT ![p] = [pc |-> pc, id |-> id]]

(* What the library does. *)
Attached(id, h) == {e \in handlers : e.id # id} \cup {[id |-> id, handler |-> h]}
Detached(id) == {e \in handlers : e.id # id}

(* Mutant of Subscribe: every call takes a fresh id, the old handler stays. *)
SubscribeFreshId(p) ==
    /\ call[p].pc = "idle" /\ ops < MaxOps
    /\ subSeq' = subSeq + 1 /\ subs' = subSeq + 1
    /\ Goto(p, "attach", subSeq + 1)
    /\ ops' = ops + 1
    /\ UNCHANGED <<valid, handlers, crossed>>

(* The critical section of Subscribe: the id of the filter, or a new one. *)
Subscribe(p) ==
    /\ call[p].pc = "idle" /\ ops < MaxOps
    /\ IF subs # 0
       THEN Goto(p, "detach", subs) /\ UNCHANGED <<subs, subSeq>>
       ELSE /\ subSeq' = subSeq + 1 /\ subs' = subSeq + 1
            /\ Goto(p, "attach", subSeq + 1)
    /\ ops' = ops + 1
    /\ UNCHANGED <<valid, handlers, crossed>>

(* The handler of an entry that existed is taken off first. *)
Detach(p) ==
    /\ call[p].pc = "detach"
    /\ handlers' = Detached(call[p].id)
    /\ Goto(p, "attach", call[p].id)
    /\ UNCHANGED <<valid, subs, subSeq, crossed, ops>>

Attach(p) ==
    /\ call[p].pc = "attach" /\ valid
    /\ handlers' = Attached(call[p].id, p)
    /\ Goto(p, "idle", 0)
    /\ UNCHANGED <<valid, subs, subSeq, crossed, ops>>

(* Subscribe returns the library's error; the entry of subs stays. *)
AttachErr(p) ==
    /\ call[p].pc = "attach" /\ ~valid
    /\ Goto(p, "idle", 0)
    /\ UNCHANGED <<valid, subs, subSeq, handlers, crossed, ops>>

(* The critical section of Unsubscribe; without an entry it returns. *)
Unsubscribe(p) ==
    /\ call[p].pc = "idle" /\ ops < MaxOps /\ subs # 0
    /\ subs' = 0
    /\ Goto(p, "remove", subs)
    /\ crossed' = IF \E q \in Callers : call[q].pc # "remove" /\ call[q].id = subs
                   THEN crossed \cup {subs} ELSE crossed
    /\ ops' = ops + 1
    /\ UNCHANGED <<valid, subSeq, handlers>>

Remove(p) ==
    /\ call[p].pc = "remove"
    /\ handlers' = Detached(call[p].id)
    /\ Goto(p, "idle", 0)
    /\ UNCHANGED <<valid, subs, subSeq, crossed, ops>>

CallerStep(p) == Detach(p) \/ Attach(p) \/ AttachErr(p) \/ Remove(p)

Next == \E p \in Callers : Subscribe(p) \/ Unsubscribe(p) \/ CallerStep(p)

-----------------------------------------------------------------------------
(* Properties. *)

(* Between calls an entry of subs has its handler, unless the library refuses
   the filter: then the failed Subscribe has left the entry behind.  A handler
   that no entry leads to is one whose Subscribe was under way when an
   Unsubscribe took its entry; overlapping Subscribes alone leave exactly one
   (broker.go:286-302, 309-317). *)
HandlersMatchSubs ==
    (\A p \in Callers : call[p] = Idle) =>
        LET attached == {e.id : e \in handlers}
        IN  /\ subs # 0 => subs \in attached \/ ~valid
            /\ attached \ {subs} \subseteq crossed

=============================================================================

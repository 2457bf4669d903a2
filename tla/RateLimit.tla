------------------------------ MODULE RateLimit ------------------------------
(***************************************************************************)
(* RateLimit of middleware/ratelimit.go for one client address.  The map of  *)
(* visitors is a package variable: two limiters of one program count on the  *)
(* same visitor, and each has a goroutine that removes expired ones.  A      *)
(* request holds its visitor by a pointer, in the map or no longer in it.    *)
(*                                                                         *)
(* Times are kept relative to the clock: resetAt is the time left, -1 once   *)
(* it is past.  A count above every limit is kept as one above it.           *)
(***************************************************************************)
EXTENDS Integers, FiniteSets, FiniteSetsExt

CONSTANTS
    Goroutines,         \* that serve requests
    Limit, Window,      \* the parameters of the first limiter
    Limit2, Window2,    \* of the second
    MaxDrops            \* bound on the visitors removed while in use

VARIABLES
    current,    \* the visitor in the map, 0 for none
    hits,       \* per visitor, count
    resetAt,    \* per visitor, ticks to resetAt
    goroutine,  \* per goroutine, its limiter (0: idle) and visitor
    cleaner,    \* per limiter, its cleaner has found the visitor expired
    passes,     \* ghost: per limiter and t, requests let through in this tick and the t before
    dropped     \* ghost: visitors removed while they counted or were held

visitVars == <<hits, resetAt>>

Limiters == 1..2
LimitOf(l) == IF l = 1 THEN Limit ELSE Limit2
WindowOf(l) == IF l = 1 THEN Window ELSE Window2
AllOver == Max({Limit, Limit2}) + 1
Recent == 0..(Min({Window, Window2}) - 1)
Visitors == 1..(Cardinality(Goroutines) + 1)
Idle == [limiter |-> 0, visitor |-> 0]
Held(v) == \E g \in Goroutines : goroutine[g].visitor = v

Init ==
    /\ current = 0
    /\ hits = [v \in Visitors |-> 0]
    /\ resetAt = [v \in Visitors |-> -1]
    /\ goroutine = [g \in Goroutines |-> Idle]
    /\ cleaner = [l \in Limiters |-> FALSE]
    /\ passes = [l \in Limiters |-> [t \in Recent |-> 0]]
    /\ dropped = 0

(* getVisitor: LoadOrStore returns the visitor of the map or stores a new one. *)
GetVisitor(g, l) ==
    /\ goroutine[g] = Idle
    /\ IF current # 0
       THEN /\ goroutine' = [goroutine EXCEPT ![g] = [limiter |-> l, visitor |-> current]]
            /\ UNCHANGED <<current, visitVars>>
       ELSE LET new == Min({v \in Visitors : ~Held(v)})
            IN  /\ current' = new
                /\ hits' = [hits EXCEPT ![new] = 0]
                /\ resetAt' = [resetAt EXCEPT ![new] = WindowOf(l)]
                /\ goroutine' = [goroutine EXCEPT ![g] = [limiter |-> l, visitor |-> new]]
    /\ UNCHANGED <<cleaner, passes, dropped>>

(* Mutant of Over: the limit is off by one. *)
OverByOne(n, l) == n > LimitOf(l) + 1

Over(n, l) == n > LimitOf(l)

(* The visitor's critical section: a new window, one more hit, the verdict. *)
Count(g) ==
    /\ goroutine[g] # Idle
    /\ LET v == goroutine[g].visitor
           l == goroutine[g].limiter
           fresh == resetAt[v] < 0
           n == Min({AllOver, IF fresh THEN 1 ELSE hits[v] + 1})
       IN  /\ hits' = [hits EXCEPT ![v] = n]
           /\ resetAt' = [resetAt EXCEPT ![v] = IF fresh THEN WindowOf(l) ELSE @]
           /\ passes' = IF Over(n, l) THEN passes
                        ELSE [passes EXCEPT ![l] = [t \in Recent |-> passes[l][t] + 1]]
    /\ goroutine' = [goroutine EXCEPT ![g] = Idle]
    /\ UNCHANGED <<current, cleaner, dropped>>

(* A limiter's cleaner tests the visitor under its lock ... *)
CleanTest(l) ==
    /\ ~cleaner[l] /\ current # 0 /\ resetAt[current] < 0
    /\ cleaner' = [cleaner EXCEPT ![l] = TRUE]
    /\ UNCHANGED <<current, visitVars, goroutine, passes, dropped>>

(* ... and deletes the key after the unlock, whatever has become of it. *)
CleanDelete(l) ==
    /\ cleaner[l]
    /\ IF current # 0 /\ (resetAt[current] >= 0 \/ Held(current))
       THEN dropped < MaxDrops /\ dropped' = dropped + 1
       ELSE UNCHANGED dropped
    /\ current' = 0
    /\ cleaner' = [cleaner EXCEPT ![l] = FALSE]
    /\ UNCHANGED <<visitVars, goroutine, passes>>

(* A tick of the clock. *)
Advance ==
    /\ resetAt' = [v \in Visitors |-> Max({resetAt[v] - 1, -1})]
    /\ passes' = [l \in Limiters |->
                     [t \in Recent |-> IF t = 0 THEN 0 ELSE passes[l][t - 1]]]
    /\ UNCHANGED <<current, hits, goroutine, cleaner, dropped>>

Next ==
    \/ Advance
    \/ \E g \in Goroutines : Count(g) \/ \E l \in Limiters : GetVisitor(g, l)
    \/ \E l \in Limiters : CleanTest(l) \/ CleanDelete(l)

-----------------------------------------------------------------------------
(* Properties. *)

(* In any stretch as long as the shortest window (windows do not slide) a
   limiter lets at most twice its limit through, and twice its limit more for
   each visitor that a cleaner removed while it was in use: requests that
   still hold it count on it, beside those of its successor
   (ratelimit.go:30-42, 50-58). *)
AllowanceBounded ==
    \A l \in Limiters, t \in Recent : passes[l][t] <= 2 * (1 + dropped) * LimitOf(l)

=============================================================================

------------------------------ MODULE Patterns ------------------------------
(***************************************************************************)
(* What the router and its radix trees have in common: patterns, handlers    *)
(* and the answer of a search, and which of two patterns is more specific.   *)
(*                                                                         *)
(* A path is a sequence of characters.  In a pattern a parameter ":name" or *)
(* a catch-all "*name" is one token: its name runs to the next slash (to    *)
(* the end for a catch-all), so the rest of the pattern starts there.       *)
(***************************************************************************)
EXTENDS Naturals, Sequences

CONSTANTS
    ParamTokens,    \* the ":name" tokens
    CatchTokens     \* the "*name" tokens

(* A handler is the number of its route, wrapped in a chain of middleware;
   route 0 is nil. *)
NoHandler == [route |-> 0, chain |-> <<>>]

(* match returns the handler and the captures: pairs of key and value. *)
Miss == [h |-> NoHandler, caps |-> <<>>]

-----------------------------------------------------------------------------
(* Reference: precedence, read off the patterns alone. *)

(* 0 for a literal, 1 for a parameter, 2 for a catch-all. *)
Kinds(pattern) ==
    [i \in 1..Len(pattern) |-> CASE pattern[i] \in ParamTokens -> 1
                                 [] pattern[i] \in CatchTokens -> 2
                                 [] OTHER -> 0]

(* Lexicographic order of the kinds: at the first difference "an exact literal
   beats a parameter, and a parameter beats a catch-all" (node.go:124-125); a
   pattern that is used up beats one that continues. *)
Beats(p, q) ==
    LET a == Kinds(p)
        b == Kinds(q)
    IN  \/ Len(a) < Len(b) /\ \A i \in 1..Len(a) : a[i] = b[i]
        \/ \E i \in 1..Len(a) :
             /\ i <= Len(b) /\ a[i] < b[i]
             /\ \A j \in 1..(i - 1) : a[j] = b[j]

=============================================================================

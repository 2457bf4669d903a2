---------------------------- MODULE RouterProofs ----------------------------
(***************************************************************************)
(* The dispatch of requests, for all declarations, methods and paths, over   *)
(* any tree that finds what the declarations call for.                       *)
(*                                                                         *)
(* What they call for is well defined: precedence is a total order of the    *)
(* patterns' kinds, and among routes of equal kinds the last declared one     *)
(* wins, so every set of matching routes has a best one.                     *)
(***************************************************************************)
EXTENDS Router, SequenceTheorems, FiniteSetTheorems, NaturalsInduction,
        WellFoundedInduction, TLAPS

(* A set of numbers has a least one. *)
LEMMA LeastNatural ==
    ASSUME NEW S \in SUBSET Nat, S # {}
    PROVE  \E m \in S : \A k \in S : m <= k
<1> DEFINE Less == OpToRel(<, Nat)
<1>1. IsWellFoundedOn(Less, Nat)
    BY NatLessThanWellFounded
<1>2. \A x, y \in Nat : <<y, x>> \in Less <=> y < x
    BY DEF OpToRel
<1> HIDE DEF Less
<1>3. PICK m \in S : \A k \in S : <<k, m>> \notin Less
    BY <1>1, WFMin
<1>4. ASSUME NEW k \in S PROVE m <= k
    <2>1. k \in Nat /\ m \in Nat /\ <<k, m>> \notin Less
        BY <1>3
    <2>2. ~(k < m)
        BY <1>2, <2>1
    <2> QED
        BY <2>1, <2>2
<1> QED
    BY <1>4

-----------------------------------------------------------------------------
(* Precedence. *)

(* The tokens of patterns: the provers do not know a string to be a STRING. *)
Chars == STRING \cup {"/"}

(* The lexicographic order that Beats is on patterns, on their kinds. *)
Lex(a, b) ==
    \/ Len(a) < Len(b) /\ \A i \in 1..Len(a) : a[i] = b[i]
    \/ \E i \in 1..Len(a) : /\ i <= Len(b) /\ a[i] < b[i]
                            /\ \A j \in 1..(i - 1) : a[j] = b[j]

LEMMA KindsType == ASSUME NEW p \in Seq(Chars) PROVE Kinds(p) \in Seq(0..2)
<1>1. Len(p) \in Nat
    BY LenProperties
<1>2. \A i \in 1..Len(p) : (CASE p[i] \in ParamTokens -> 1
                              [] p[i] \in CatchTokens -> 2
                              [] OTHER -> 0) \in 0..2
    OBVIOUS
<1>3. Kinds(p) \in [1..Len(p) -> 0..2]
    BY <1>2 DEF Kinds
<1> QED
    BY <1>1, <1>3, SeqDef

LEMMA BeatsIsLex == \A p, q : Beats(p, q) <=> Lex(Kinds(p), Kinds(q))
BY DEF Beats, Lex

LEMMA LexIrreflexive == ASSUME NEW a \in Seq(0..2) PROVE ~Lex(a, a)
<1>1. Len(a) \in Nat /\ \A i \in 1..Len(a) : a[i] \in 0..2
    BY LenProperties, ElementOfSeq
<1> QED
    BY <1>1 DEF Lex

LEMMA LexTransitive ==
    ASSUME NEW a \in Seq(0..2), NEW b \in Seq(0..2), NEW c \in Seq(0..2), Lex(a, b), Lex(b, c)
    PROVE  Lex(a, c)
<1>1. /\ Len(a) \in Nat /\ \A i \in 1..Len(a) : a[i] \in 0..2
      /\ Len(b) \in Nat /\ \A i \in 1..Len(b) : b[i] \in 0..2
      /\ Len(c) \in Nat /\ \A i \in 1..Len(c) : c[i] \in 0..2
    BY LenProperties, ElementOfSeq
<1> DEFINE Short(x, y) == Len(x) < Len(y) /\ \A i \in 1..Len(x) : x[i] = y[i]
           At(x, y, i) == /\ i \in 1..Len(x) /\ i <= Len(y) /\ x[i] < y[i]
                          /\ \A j \in 1..(i - 1) : x[j] = y[j]
<1>2. /\ Short(a, b) \/ \E i \in Nat : At(a, b, i)
      /\ Short(b, c) \/ \E i \in Nat : At(b, c, i)
    BY <1>1 DEF Lex
<1>3. SUFFICES Short(a, c) \/ \E i \in Nat : At(a, c, i)
    BY DEF Lex
<1>4. CASE Short(a, b) /\ Short(b, c)
    BY <1>1, <1>4
<1>5. ASSUME Short(a, b), NEW i \in Nat, At(b, c, i) PROVE Short(a, c) \/ At(a, c, i)
    <2>1. CASE i <= Len(a)
        BY <1>1, <1>5, <2>1
    <2>2. CASE i > Len(a)
        BY <1>1, <1>5, <2>2
    <2> QED
        BY <1>1, <2>1, <2>2
<1>6. ASSUME NEW i \in Nat, At(a, b, i), Short(b, c) PROVE At(a, c, i)
    BY <1>1, <1>6
<1>7. ASSUME NEW i \in Nat, At(a, b, i), NEW k \in Nat, At(b, c, k)
      PROVE  At(a, c, i) \/ At(a, c, k)
    <2>1. CASE i < k
        BY <1>1, <1>7, <2>1
    <2>2. CASE i > k
        BY <1>1, <1>7, <2>2
    <2>3. CASE i = k
        <3>1. i \in 1..Len(a) /\ i \in 1..Len(b) /\ i \in 1..Len(c)
            BY <1>1, <1>7, <2>3
        <3>2. a[i] < c[i]
            <4>1. a[i] < b[i] /\ b[i] < c[i]
                BY <1>7, <2>3
            <4> HIDE DEF At
            <4>2. a[i] \in Int /\ b[i] \in Int /\ c[i] \in Int
                BY <1>1, <3>1
            <4> QED
                BY <4>1, <4>2
        <3>3. \A j \in 1..(i - 1) : a[j] = c[j]
            BY <1>7, <2>3
        <3> QED
            BY <1>1, <3>1, <3>2, <3>3
    <2> QED
        BY <2>1, <2>2, <2>3
<1> QED
    BY <1>2, <1>4, <1>5, <1>6, <1>7

LEMMA LexTotal ==
    ASSUME NEW a \in Seq(0..2), NEW b \in Seq(0..2), a # b
    PROVE  Lex(a, b) \/ Lex(b, a)
<1>1. /\ Len(a) \in Nat /\ \A i \in 1..Len(a) : a[i] \in 0..2
      /\ Len(b) \in Nat /\ \A i \in 1..Len(b) : b[i] \in 0..2
    BY LenProperties, ElementOfSeq
<1> DEFINE Differ == {i \in Nat : i \in 1..Len(a) /\ i \in 1..Len(b) /\ a[i] # b[i]}
<1>2. CASE Differ = {}
    <2>1. \A i \in 1..Len(a) : i <= Len(b) => a[i] = b[i]
        BY <1>1, <1>2
    <2>2. CASE Len(a) = Len(b)
        <3>1. a = b
            BY <1>1, <2>1, <2>2, SeqEqual
        <3> QED
            BY <3>1
    <2>3. CASE Len(a) < Len(b)
        BY <1>1, <2>1, <2>3 DEF Lex
    <2>4. CASE Len(b) < Len(a)
        BY <1>1, <2>1, <2>4 DEF Lex
    <2> QED
        BY <1>1, <2>2, <2>3, <2>4
<1>3. CASE Differ # {}
    <2>1. PICK m \in Differ : \A k \in Differ : m <= k
        BY <1>3, LeastNatural
    <2>2. /\ m \in 1..Len(a) /\ m \in 1..Len(b) /\ a[m] # b[m]
          /\ \A j \in 1..(m - 1) : a[j] = b[j]
        BY <1>1, <2>1
    <2>3. a[m] < b[m] \/ b[m] < a[m]
        BY <1>1, <2>2
    <2> QED
        BY <1>1, <2>2, <2>3 DEF Lex
<1> QED
    BY <1>2, <1>3

-----------------------------------------------------------------------------
(* Paths. *)

LEMMA MatchPathType ==
    ASSUME NEW path \in Seq(Chars)
    PROVE  matchPath(path) \in Seq(Chars)
<1> DEFINE Slashes(n) == \A i \in (n + 1)..Len(path) : path[i] = "/"
           Fits(n) == (n = 0 \/ path[n] # "/") /\ Slashes(n)
           Ends == {n \in 0..Len(path) : Slashes(n)}
<1>1. Len(path) \in Nat
    BY LenProperties
<1>2. \E n \in 0..Len(path) : Fits(n)
    <2>1. Ends \in SUBSET Nat /\ Len(path) \in Ends
        BY <1>1
    <2>2. PICK m \in Ends : \A k \in Ends : m <= k
        BY <2>1, LeastNatural
    <2>3. ASSUME m # 0, path[m] = "/" PROVE FALSE
        <3>1. m - 1 \in 0..Len(path) /\ m \in 0..Len(path)
            BY <1>1, <2>2, <2>3
        <3>2. Slashes(m - 1)
            <4>1. Slashes(m)
                BY <2>2
            <4> SUFFICES ASSUME NEW i \in ((m - 1) + 1)..Len(path) PROVE path[i] = "/"
                OBVIOUS
            <4>2. i = m \/ i \in (m + 1)..Len(path)
                BY <1>1, <3>1
            <4> QED
                BY <2>3, <4>1, <4>2
        <3>3. m <= m - 1
            BY <2>2, <3>1, <3>2
        <3> QED
            BY <3>1, <3>3
    <2> QED
        BY <2>2, <2>3
<1> DEFINE end == CHOOSE n \in 0..Len(path) : Fits(n)
<1>3. end \in 0..Len(path)
    BY <1>2
<1>4. matchPath(path) \in {path, <<"/">>, SubSeq(path, 1, end)}
    BY DEF matchPath
<1> HIDE DEF end
<1>5. SubSeq(path, 1, end) \in Seq(Chars)
    <2>1. \A i \in 1..end : path[i] \in Chars
        BY <1>1, <1>3, ElementOfSeq
    <2> QED
        BY <1>1, <1>3, <2>1, SubSeqProperties
<1>6. <<"/">> \in Seq(Chars)
    <2>1. ASSUME NEW S, NEW x \in S PROVE <<x>> \in Seq(S)
        OBVIOUS
    <2>2. "/" \in Chars
        BY DEF Chars
    <2> QED
        BY <2>1, <2>2
<1> QED
    BY <1>4, <1>5, <1>6

-----------------------------------------------------------------------------
(* The declarations as the router keeps them. *)

Entry(d, b) ==
    [method |-> d.method, path |-> Rooted(RoutePath(d)), mws |-> RouteMws(d),
     noAuth |-> b, decl |-> d]

Entries ==
    {Entry(d, FALSE) : d \in Declarable} \cup {Entry(d, TRUE) : d \in Declarable}

(* Every entry is that of a declaration, those that build has seen among them,
   and the responders of a built router are wrapped in the middleware that it
   had then. *)
RouterInv ==
    /\ entries \in Seq(Entries) /\ seen.entries \in Seq(Entries)
    /\ built \in BOOLEAN
    /\ built => fallback = seen.middlewares

LEMMA EntryKnown == \A d \in Declarable : \A b \in BOOLEAN : Entry(d, b) \in Entries
BY DEF Entries

LEMMA InitRouter == Init => RouterInv
<1>1. <<>> \in Seq(Entries)
    BY EmptySeq
<1> SUFFICES ASSUME Init PROVE RouterInv
    OBVIOUS
<1>2. entries = <<>> /\ seen = Table /\ built = FALSE
    BY DEF Init
<1>3. seen.entries = entries
    BY <1>2 DEF Table
<1> QED
    BY <1>1, <1>2, <1>3 DEF RouterInv

LEMMA NextRouter == RouterInv /\ [Next]_vars => RouterInv'
<1> SUFFICES ASSUME RouterInv, [Next]_vars PROVE RouterInv'
    OBVIOUS
<1>1. ASSUME NEW d \in Declarable, AddRoute(d) PROVE RouterInv'
    <2>1. NewEntry(d) \in Entries
        <3>1. NewEntry(d) = Entry(d, FALSE)
            BY DEF NewEntry, Entry
        <3> QED
            BY <3>1, EntryKnown
    <2> QED
        BY <1>1, <2>1, AppendProperties DEF AddRoute, RouterInv, compiled
<1>2. CASE NoAuth
    <2>1. entries \in Seq(Entries) /\ Len(entries) \in 1..Len(entries)
        BY <1>2, LenProperties, EmptySeq DEF NoAuth, RouterInv
    <2>2. PICK d \in Declarable, b \in BOOLEAN : entries[Len(entries)] = Entry(d, b)
        <3>1. entries[Len(entries)] \in Entries
            BY <2>1, ElementOfSeq
        <3> QED
            BY <3>1, Zenon DEF Entries
    <2> DEFINE last == [entries[Len(entries)] EXCEPT !.noAuth = TRUE]
    <2>3. last = Entry(d, TRUE)
        <3>1. last = [Entry(d, b) EXCEPT !.noAuth = TRUE]
            BY <2>2
        <3>2. \A x, y : [Entry(d, x) EXCEPT !.noAuth = y] = Entry(d, y)
            BY DEF Entry
        <3> QED
            BY <3>1, <3>2, Zenon
    <2>4. last \in Entries
        BY <2>3, EntryKnown
    <2>5. entries' = [entries EXCEPT ![Len(entries)] = last]
        BY <1>2 DEF NoAuth
    <2> HIDE DEF last
    <2>6. entries' \in Seq(Entries)
        BY <2>1, <2>4, <2>5, ExceptSeq
    <2> QED
        BY <1>2, <2>6 DEF NoAuth, RouterInv, compiled
<1>3. CASE Use
    BY <1>3 DEF Use, RouterInv, compiled
<1>4. CASE SetAuth
    BY <1>4 DEF SetAuth, RouterInv, compiled
<1>5. CASE Build
    BY <1>5 DEF Build, RouterInv, Table
<1>6. CASE UNCHANGED vars
    BY <1>6 DEF vars, RouterInv
<1> QED
    BY <1>1, <1>2, <1>3, <1>4, <1>5, <1>6 DEF Next

LEMMA RouterInvHolds == Spec => []RouterInv
BY InitRouter, NextRouter, PTL DEF Spec

-----------------------------------------------------------------------------
(* The best route. *)

LEMMA PatternType ==
    ASSUME RouterInv, NEW i \in 1..Len(seen.entries)
    PROVE  Pattern(i) \in Seq(Chars)
<1>1. seen.entries[i] \in Entries
    BY ElementOfSeq DEF RouterInv
<1>2. seen.entries[i].decl \in Declarable
    BY <1>1 DEF Entries, Entry
<1> DEFINE at == seen.entries[i].decl.at
<1>3. at \in [1..Len(at) -> STRING] /\ Len(at) \in Nat
    BY <1>2, DeclarableAssumption, LenProperties
<1>4. at \in [1..Len(at) -> Chars]
    BY <1>3 DEF Chars
<1>5. at \in Seq(Chars)
    BY <1>3, <1>4, SeqDef
<1> QED
    BY <1>5, MatchPathType DEF Pattern

(* Better is a strict total order of the routes. *)
LEMMA BetterOrder ==
    ASSUME RouterInv
    PROVE  /\ \A i \in 1..Len(seen.entries) : ~Better(i, i)
           /\ \A i, j, k \in 1..Len(seen.entries) : Better(i, j) /\ Better(j, k) => Better(i, k)
           /\ \A i, j \in 1..Len(seen.entries) : i # j => Better(i, j) \/ Better(j, i)
<1> DEFINE K(i) == Kinds(Pattern(i))
<1>1. \A i \in 1..Len(seen.entries) : K(i) \in Seq(0..2)
    BY PatternType, KindsType
<1>2. ASSUME NEW i \in 1..Len(seen.entries), NEW j \in 1..Len(seen.entries)
      PROVE  Better(i, j) <=> Lex(K(i), K(j)) \/ (i > j /\ ~Lex(K(j), K(i)))
    BY BeatsIsLex DEF Better
<1>3. Len(seen.entries) \in Nat
    BY LenProperties DEF RouterInv
<1> HIDE DEF K
<1>4. \A i \in 1..Len(seen.entries) : ~Better(i, i)
    BY <1>1, <1>2, <1>3, LexIrreflexive
<1>5. ASSUME NEW i \in 1..Len(seen.entries), NEW j \in 1..Len(seen.entries), NEW k \in 1..Len(seen.entries),
             Better(i, j), Better(j, k)
      PROVE  Better(i, k)
    <2>1. K(i) \in Seq(0..2) /\ K(j) \in Seq(0..2) /\ K(k) \in Seq(0..2)
        BY <1>1
    <2>2. Lex(K(i), K(j)) \/ (K(i) = K(j) /\ i > j)
        BY <1>2, <1>5, <2>1, LexTotal
    <2>3. Lex(K(j), K(k)) \/ (K(j) = K(k) /\ j > k)
        BY <1>2, <1>5, <2>1, LexTotal
    <2>4. CASE Lex(K(i), K(j)) /\ Lex(K(j), K(k))
        BY <1>2, <2>1, <2>4, LexTransitive
    <2>5. CASE K(i) = K(j) /\ i > j /\ K(j) = K(k) /\ j > k
        <3>1. i > k
            BY <1>3, <2>5
        <3>2. ~Lex(K(k), K(i))
            BY <2>1, <2>5, LexIrreflexive
        <3> QED
            BY <1>2, <3>1, <3>2
    <2>6. CASE (Lex(K(i), K(j)) /\ K(j) = K(k)) \/ (K(i) = K(j) /\ Lex(K(j), K(k)))
        BY <1>2, <2>6
    <2> QED
        BY <2>2, <2>3, <2>4, <2>5, <2>6
<1>6. ASSUME NEW i \in 1..Len(seen.entries), NEW j \in 1..Len(seen.entries), i # j
      PROVE  Better(i, j) \/ Better(j, i)
    <2>1. i > j \/ j > i
        BY <1>3, <1>6
    <2> QED
        BY <1>2, <2>1
<1> QED
    BY <1>4, <1>5, <1>6

(* A nonempty set of routes has a best one: one that fewest others beat. *)
LEMMA BestExists ==
    ASSUME RouterInv, NEW S \in SUBSET (1..Len(seen.entries)), S # {}
    PROVE  \E i \in S : \A j \in S \ {i} : Better(i, j)
<1> DEFINE Over(i) == {j \in S : Better(j, i)}
           Ranks == {Cardinality(Over(i)) : i \in S}
<1>1. Len(seen.entries) \in Nat
    BY LenProperties DEF RouterInv
<1>2. IsFiniteSet(S)
    <2>1. IsFiniteSet(1..Len(seen.entries))
        BY <1>1, FS_Interval
    <2> QED
        BY <2>1, FS_Subset
<1>3. \A i \in S : IsFiniteSet(Over(i)) /\ Cardinality(Over(i)) \in Nat
    BY <1>2, FS_Subset, FS_CardinalityType
<1>4. Ranks \in SUBSET Nat /\ Ranks # {}
    BY <1>3
<1>5. PICK r \in Ranks : \A k \in Ranks : r <= k
    BY <1>4, LeastNatural
<1>6. PICK i \in S : r = Cardinality(Over(i))
    BY <1>5
<1>7. ASSUME NEW j \in S \ {i}, ~Better(i, j) PROVE FALSE
    <2>1. Better(j, i)
        BY <1>7, BetterOrder
    <2>2. Over(j) \subseteq Over(i)
        <3> SUFFICES ASSUME NEW k \in S, Better(k, j) PROVE Better(k, i)
            OBVIOUS
        <3> QED
            BY <2>1, BetterOrder
    <2>3. j \in Over(i) /\ j \notin Over(j)
        BY <2>1, BetterOrder
    <2>4. Cardinality(Over(j)) < Cardinality(Over(i))
        <3>1. Over(j) # Over(i)
            BY <2>3
        <3> HIDE DEF Over
        <3>2. IsFiniteSet(Over(i)) /\ IsFiniteSet(Over(j))
            BY <1>3
        <3>3. Cardinality(Over(j)) <= Cardinality(Over(i))
            BY <2>2, <3>2, FS_Subset
        <3>4. Cardinality(Over(j)) # Cardinality(Over(i))
            BY <2>2, <3>1, <3>2, FS_Subset
        <3> QED
            BY <1>3, <3>3, <3>4
    <2>5. Cardinality(Over(i)) <= Cardinality(Over(j))
        BY <1>5, <1>6
    <2>6. Cardinality(Over(i)) \in Nat /\ Cardinality(Over(j)) \in Nat
        BY <1>3
    <2> HIDE DEF Over
    <2> QED
        BY <2>4, <2>5, <2>6
<1> QED
    BY <1>6, <1>7

LEMMA WinnerMatches ==
    ASSUME RouterInv, NEW m, NEW path
    PROVE  /\ Matching(m, path) = {} => Winner(m, path) = 0
           /\ Matching(m, path) # {} => Winner(m, path) \in Matching(m, path)
           /\ Matching(m, path) \subseteq 1..Len(seen.entries)
<1>1. Matching(m, path) \in SUBSET (1..Len(seen.entries))
    BY DEF Matching
<1> QED
    BY <1>1, BestExists DEF Winner

-----------------------------------------------------------------------------
(* Dispatch. *)

(* What the trees find, given that they match the declarations. *)
LEMMA LookupFinds ==
    ASSUME RouterInv, built, TreeMatchesDeclarations,
           NEW m \in TreeMethods, NEW raw \in Paths
    PROVE  LET path  == matchPath(raw)
               found == Lookup(m, path)
           IN  /\ found.h # NoHandler <=> Matching(m, path) # {}
               /\ Matching(m, path) # {} => /\ found.h = Compile(seen, Winner(m, path))
                                           /\ found.h.route = Winner(m, path)
                                           /\ Winner(m, path) \in 1..Len(seen.entries)
<1> DEFINE path == matchPath(raw)
           found == Lookup(m, path)
           w == Winner(m, path)
<1>1. found.h = IF w = 0 THEN NoHandler ELSE Compile(seen, w)
    BY DEF TreeMatchesDeclarations
<1>2. Len(seen.entries) \in Nat
    BY LenProperties DEF RouterInv
<1>3. CASE Matching(m, path) = {}
    BY <1>1, <1>3, WinnerMatches
<1>4. CASE Matching(m, path) # {}
    <2>1. w \in 1..Len(seen.entries)
        BY <1>4, WinnerMatches
    <2>2. w # 0
        BY <1>2, <2>1
    <2>3. found.h = Compile(seen, w) /\ Compile(seen, w).route = w
        BY <1>1, <2>2 DEF Compile
    <2>4. NoHandler.route = 0
        BY DEF NoHandler
    <2> QED
        BY <1>4, <2>1, <2>2, <2>3, <2>4
<1> QED
    BY <1>3, <1>4

(* The methods that a built router allows are those with a matching route. *)
LEMMA AllowedAreMatching ==
    ASSUME RouterInv, built, TreeMatchesDeclarations, NEW raw \in Paths
    PROVE  allowedMethods(matchPath(raw))
           = {q \in TreeMethods : Matching(q, matchPath(raw)) # {}}
BY LookupFinds DEF allowedMethods

(* Every answer of HandleRequest, by what the declarations have. *)
LEMMA Replies ==
    ASSUME RouterInv, built, TreeMatchesDeclarations, NEW m \in Methods, NEW raw \in Paths
    PROVE  LET path   == matchPath(raw)
               reply  == HandleRequest(m, raw)
               have   == {q \in TreeMethods : Matching(q, path) # {}}
               headed == m \notin have /\ m = "HEAD" /\ "GET" \in have
           IN  /\ m \in have => reply = Handled(Lookup(m, path))
               /\ headed => reply = Handled(Lookup("GET", path))
               /\ have = {} => reply = Fallback("404", {})
               /\ have # {} /\ m \notin have /\ ~headed =>
                    \E status \in {"204", "405"} : reply = Fallback(status, have \cup {"OPTIONS"})
<1> DEFINE path   == matchPath(raw)
           reply  == HandleRequest(m, raw)
           have   == {q \in TreeMethods : Matching(q, path) # {}}
           headed == m \notin have /\ m = "HEAD" /\ "GET" \in have
           own    == Lookup(m, path)
           get    == Lookup("GET", path)
<1>1. allowedMethods(path) = have
    BY AllowedAreMatching
<1>2. \A q : Lookup(q, path).h # NoHandler <=> q \in have
    <2>1. ASSUME NEW q, q \notin TreeMethods PROVE Lookup(q, path).h = NoHandler
        BY <2>1 DEF Lookup, Miss
    <2>2. ASSUME NEW q \in TreeMethods PROVE Lookup(q, path).h # NoHandler <=> q \in have
        BY LookupFinds
    <2> QED
        BY <2>1, <2>2
<1>3. reply = CASE own.h # NoHandler -> Handled(own)
                [] own.h = NoHandler /\ allowedMethods(path) = {} -> Fallback("404", {})
                [] OTHER ->
                     IF m = "OPTIONS"
                     THEN Fallback("204", allowedMethods(path) \cup {"OPTIONS"})
                     ELSE IF m = "HEAD" /\ get.h # NoHandler
                     THEN Handled(get)
                     ELSE Fallback("405", allowedMethods(path) \cup {"OPTIONS"})
    BY DEF HandleRequest
<1> HIDE DEF path, reply, have, own, get
<1>4. reply = CASE m \in have -> Handled(own)
                [] m \notin have /\ have = {} -> Fallback("404", {})
                [] OTHER ->
                     IF m = "OPTIONS"
                     THEN Fallback("204", have \cup {"OPTIONS"})
                     ELSE IF m = "HEAD" /\ "GET" \in have
                     THEN Handled(get)
                     ELSE Fallback("405", have \cup {"OPTIONS"})
    BY <1>1, <1>2, <1>3 DEF own, get
<1>5. m \in have => reply = Handled(own)
    BY <1>4
<1>6. headed => reply = Handled(get)
    BY <1>4
<1>7. have = {} => reply = Fallback("404", {})
    BY <1>4
<1>8. have # {} /\ m \notin have /\ ~headed =>
          \E status \in {"204", "405"} : reply = Fallback(status, have \cup {"OPTIONS"})
    BY <1>4
<1> QED
    BY <1>5, <1>6, <1>7, <1>8 DEF path, reply, have, own, get

(* Over trees that match the declarations, every answer of the router is the
   right one, for all declarations, methods and paths: HandleRequest with its
   answers for HEAD, OPTIONS, 405 and 404. *)
THEOREM DispatchCorrect == Spec => [](TreeMatchesDeclarations => AnswersRight)
<1>1. ASSUME RouterInv, TreeMatchesDeclarations PROVE AnswersRight
    <2> SUFFICES ASSUME built, NEW m \in Methods, NEW raw \in Paths
                 PROVE  LET path   == matchPath(raw)
                            reply  == HandleRequest(m, raw)
                            have   == {q \in TreeMethods : Matching(q, path) # {}}
                            headed == m \notin have /\ m = "HEAD" /\ "GET" \in have
                        IN  /\ reply.status = "handled" <=> m \in have \/ headed
                            /\ m \in have => reply.h.route = Winner(m, path)
                            /\ headed => reply.h.route = Winner("GET", path)
                            /\ reply.status = "404" <=> have = {}
                            /\ reply.status \in {"405", "204"} =>
                                 reply.allow = have \cup {"OPTIONS"}
        BY DEF AnswersRight
    <2> DEFINE path   == matchPath(raw)
               reply  == HandleRequest(m, raw)
               have   == {q \in TreeMethods : Matching(q, path) # {}}
               headed == m \notin have /\ m = "HEAD" /\ "GET" \in have
    <2>1. /\ m \in have => reply = Handled(Lookup(m, path))
          /\ headed => reply = Handled(Lookup("GET", path))
          /\ have = {} => reply = Fallback("404", {})
          /\ have # {} /\ m \notin have /\ ~headed =>
               \E status \in {"204", "405"} : reply = Fallback(status, have \cup {"OPTIONS"})
        BY <1>1, Replies
    <2>2. \A q \in have : Lookup(q, path).h.route = Winner(q, path)
        BY <1>1, LookupFinds
    <2>3. /\ \A found : Handled(found).status = "handled" /\ Handled(found).h = found.h
          /\ \A status, allow : /\ Fallback(status, allow).status = status
                               /\ Fallback(status, allow).allow = allow
        BY DEF Handled, Fallback
    <2> DEFINE Right == /\ reply.status = "handled" <=> m \in have \/ headed
                        /\ m \in have => reply.h.route = Winner(m, path)
                        /\ headed => reply.h.route = Winner("GET", path)
                        /\ reply.status = "404" <=> have = {}
                        /\ reply.status \in {"405", "204"} =>
                             reply.allow = have \cup {"OPTIONS"}
    <2> SUFFICES Right
        OBVIOUS
    <2> HIDE DEF path, reply, have
    <2>4. CASE m \in have
        BY <2>1, <2>2, <2>3, <2>4
    <2>5. CASE headed
        BY <2>1, <2>2, <2>3, <2>5
    <2>6. CASE have = {}
        BY <2>1, <2>3, <2>6
    <2>7. CASE have # {} /\ m \notin have /\ ~headed
        BY <2>1, <2>3, <2>7
    <2> QED
        BY <2>4, <2>5, <2>6, <2>7
<1> QED
    BY <1>1, RouterInvHolds, PTL

(* Over trees that match the declarations, and groups that hand on the middleware
   they were given (ChainsDeclared, which asks nothing of Group.Static), every
   request runs through the middleware that it should: all the global one, auth
   unless its own route is NoAuth, then that of its groups and its own, neither
   for a static route; through the global one alone if it reaches no route; and
   through nothing that was declared after Build. *)
THEOREM ChainCorrect ==
    ASSUME ChainsDeclared
    PROVE  Spec => [](TreeMatchesDeclarations => ChainComplete)
<1>1. ASSUME RouterInv, TreeMatchesDeclarations PROVE ChainComplete
    <2> SUFFICES ASSUME built, NEW m \in Methods, NEW raw \in Paths
                 PROVE  LET reply == HandleRequest(m, raw)
                        IN  reply.h.chain =
                                IF reply.status # "handled" THEN seen.middlewares
                                ELSE LET e == seen.entries[reply.h.route]
                                     IN  seen.middlewares
                                         \o (IF seen.auth /\ ~e.noAuth THEN <<"auth">> ELSE <<>>)
                                         \o DeclaredChain(e.decl)
        BY DEF ChainComplete
    <2> DEFINE path   == matchPath(raw)
               reply  == HandleRequest(m, raw)
               have   == {q \in TreeMethods : Matching(q, path) # {}}
               Own(e) == seen.middlewares
                         \o (IF seen.auth /\ ~e.noAuth THEN <<"auth">> ELSE <<>>)
                         \o DeclaredChain(e.decl)
    <2>1. \/ \E q \in have : reply = Handled(Lookup(q, path))
          \/ \E status \in {"204", "404", "405"} : \E allow : reply = Fallback(status, allow)
        BY <1>1, Replies
    <2>2. ASSUME NEW q \in have, reply = Handled(Lookup(q, path))
          PROVE  reply.status = "handled" /\ reply.h.chain = Own(seen.entries[reply.h.route])
        <3> DEFINE i == Winner(q, path)
        <3>1. /\ Lookup(q, path).h = Compile(seen, i)
              /\ i \in 1..Len(seen.entries)
            BY <1>1, LookupFinds
        <3>2. reply.status = "handled" /\ reply.h = Compile(seen, i)
            BY <2>2, <3>1 DEF Handled
        <3> HIDE DEF i, reply
        <3>3. Compile(seen, i).route = i
            BY DEF Compile
        <3>4. seen.entries[i].mws = DeclaredChain(seen.entries[i].decl)
            <4>1. seen.entries[i] \in Entries
                BY <1>1, <3>1, ElementOfSeq DEF RouterInv
            <4>2. PICK d \in Declarable, b \in BOOLEAN : seen.entries[i] = Entry(d, b)
                BY <4>1, Zenon DEF Entries
            <4>3. seen.entries[i].mws = RouteMws(d) /\ seen.entries[i].decl = d
                BY <4>2 DEF Entry
            <4>4. CASE d.via = "groupStatic"
                BY <4>3, <4>4 DEF RouteMws, DeclaredChain
            <4>5. CASE d.via # "groupStatic"
                BY <4>3, <4>5 DEF ChainsDeclared, DeclaredChain
            <4> QED
                BY <4>4, <4>5
        <3>5. Compile(seen, i).chain = Own(seen.entries[i])
            BY <3>4 DEF Compile
        <3> QED
            BY <3>2, <3>3, <3>5
    <2>3. ASSUME NEW status \in {"204", "404", "405"}, NEW allow, reply = Fallback(status, allow)
          PROVE  reply.status # "handled" /\ reply.h.chain = seen.middlewares
        BY <1>1, <2>3 DEF Fallback, RouterInv
    <2>4. reply.h.chain = IF reply.status # "handled" THEN seen.middlewares
                          ELSE Own(seen.entries[reply.h.route])
        <3> HIDE DEF reply, Own, have
        <3> QED
            BY <2>1, <2>2, <2>3
    <2> QED
        BY <2>4
<1> QED
    BY <1>1, RouterInvHolds, PTL

=============================================================================

----------------------------- MODULE RadixTree -----------------------------
(***************************************************************************)
(* The radix tree of node.go: insert, search and match, with hasPrefix and  *)
(* commonPrefix, and a reference definition of what a pattern binds.        *)
(***************************************************************************)
EXTENDS Patterns, SequencesExt

Node(type, path, key) ==
    [type |-> type, path |-> path, children |-> <<>>, handler |-> NoHandler,
     key |-> key]

EmptyTree == Node("static", <<>>, "")

(* On the letters this model uses. *)
lowerASCII(b) == CASE b = "A" -> "a" [] b = "B" -> "b" [] OTHER -> b

(* Two characters match, ignoring ASCII case when ci. *)
Same(x, y, ci) == IF ci THEN lowerASCII(x) = lowerASCII(y) ELSE x = y

hasPrefix(s, prefix, ci) ==
    /\ Len(prefix) <= Len(s)
    /\ \A i \in 1..Len(prefix) : Same(s[i], prefix[i], ci)

(* The length of the shared leading run. *)
commonPrefix(a, b, ci) ==
    CHOOSE n \in 0..Len(a) :
        /\ n <= Len(b)
        /\ \A i \in 1..n : Same(a[i], b[i], ci)
        /\ n < Len(a) /\ n < Len(b) => ~Same(a[n + 1], b[n + 1], ci)

Drop(s, n) == SubSeq(s, n + 1, Len(s))

(* strings.IndexAny(path, ":*"): the length of the leading literal run. *)
LiteralLen(path) ==
    CHOOSE n \in 0..Len(path) :
        /\ \A i \in 1..n : path[i] \notin ParamTokens \cup CatchTokens
        /\ n < Len(path) => path[n + 1] \in ParamTokens \cup CatchTokens

(* Mutant of Split: the old handler stays on the shortened node. *)
SplitKeepsHandler(c, n) ==
    IF n = Len(c.path)
    THEN c
    ELSE [c EXCEPT !.path = SubSeq(c.path, 1, n),
                   !.children = <<[c EXCEPT !.path = Drop(c.path, n)]>>]

(* The split of a static child whose path is longer than the common prefix. *)
Split(c, n) ==
    IF n = Len(c.path)
    THEN c
    ELSE [c EXCEPT !.path = SubSeq(c.path, 1, n), !.handler = NoHandler,
                   !.children = <<[c EXCEPT !.path = Drop(c.path, n)]>>]

RECURSIVE insert(_, _, _, _)
insert(n, path, h, ci) ==
    LET Under(child) ==   \* put child in place of, or after, n's children
            [n EXCEPT !.children = Append(@, child)]
        Into(i, rest, c) ==
            [n EXCEPT !.children[i] = insert(c, rest, h, ci)]
    IN  IF path = <<>> THEN [n EXCEPT !.handler = h]
        ELSE IF Head(path) \in ParamTokens THEN
            LET i == SelectInSeq(n.children, LAMBDA c : c.type = "param")
            IN  IF i > 0
                THEN Into(i, Tail(path), n.children[i])
                ELSE Under(insert(Node("param", <<>>, Head(path)), Tail(path), h, ci))
        ELSE IF Head(path) \in CatchTokens THEN
            LET i == SelectInSeq(n.children, LAMBDA c : c.type = "catchAll")
            IN  IF i > 0
                THEN [n EXCEPT !.children[i].key = Head(path),
                               !.children[i].handler = h]
                ELSE Under([Node("catchAll", <<>>, Head(path))
                              EXCEPT !.handler = h])
        ELSE
            LET k   == LiteralLen(path)
                lit == SubSeq(path, 1, k)
                Lcp(c) == commonPrefix(c.path, lit, ci)
                i   == SelectInSeq(n.children,
                                  LAMBDA c : c.type = "static" /\ Lcp(c) > 0)
            IN  IF i > 0
                THEN LET c == n.children[i]
                     IN  Into(i, Drop(path, Lcp(c)), Split(c, Lcp(c)))
                ELSE Under(insert(Node("static", lit, ""), Drop(path, k), h, ci))

-----------------------------------------------------------------------------
(* strings.IndexByte(path, '/'): the length of the first segment. *)
SegmentLen(path) ==
    CHOOSE n \in 0..Len(path) :
        /\ \A i \in 1..n : path[i] # "/"
        /\ n < Len(path) => path[n + 1] = "/"

(* Children in the order match tries them: matchOrder. *)
InMatchOrder(children) ==
    SelectSeq(children, LAMBDA c : c.type = "static")
        \o SelectSeq(children, LAMBDA c : c.type = "param")
        \o SelectSeq(children, LAMBDA c : c.type = "catchAll")

RECURSIVE match(_, _, _, _)
match(n, path, caps, ci) ==
    LET Below(rest, bound) ==
            IF rest = <<>> THEN
                IF n.handler # NoHandler
                THEN [h |-> n.handler, caps |-> bound]
                ELSE LET i == SelectInSeq(n.children,
                                 LAMBDA c : c.type = "catchAll" /\ c.handler # NoHandler)
                     IN  IF i = 0 THEN Miss
                         ELSE [h |-> n.children[i].handler,
                               caps |-> Append(bound, <<n.children[i].key, <<>>>>)]
            ELSE LET tries == InMatchOrder(n.children)
                     hits  == {r \in {[i |-> i, m |-> match(tries[i], rest, bound, ci)] :
                                        i \in 1..Len(tries)} : r.m.h # NoHandler}
                 IN  IF hits = {} THEN Miss
                     ELSE (CHOOSE r \in hits : \A q \in hits : r.i <= q.i).m
    IN  CASE n.type = "static" ->
               IF hasPrefix(path, n.path, ci)
               THEN Below(Drop(path, Len(n.path)), caps) ELSE Miss
          [] n.type = "param" ->
               LET k == SegmentLen(path)
               IN  IF k = 0 THEN Miss
                   ELSE Below(Drop(path, k),
                              Append(caps, <<n.key, SubSeq(path, 1, k)>>))
          [] OTHER ->
               [h |-> n.handler, caps |-> Append(caps, <<n.key, path>>)]

search(n, path, ci) == match(n, path, <<>>, ci)

-----------------------------------------------------------------------------
(* Reference: whether a pattern matches a path, and what its parameters bind,
   read off the pattern alone. *)
RECURSIVE Bindings(_, _, _)
Bindings(pattern, path, ci) ==
    IF pattern = <<>> THEN IF path = <<>> THEN {<<>>} ELSE {}
    ELSE IF Head(pattern) \in CatchTokens THEN {<<path>>}
    ELSE IF Head(pattern) \in ParamTokens THEN
        LET k == SegmentLen(path)
        IN  IF k = 0 THEN {}
            ELSE {<<SubSeq(path, 1, k)>> \o b :
                    b \in Bindings(Tail(pattern), Drop(path, k), ci)}
    ELSE IF path # <<>> /\ Same(Head(path), Head(pattern), ci)
         THEN Bindings(Tail(pattern), Tail(path), ci)
         ELSE {}

=============================================================================
